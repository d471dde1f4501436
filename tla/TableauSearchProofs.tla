------------------------ MODULE TableauSearchProofs ------------------------
(***************************************************************************)
(* The answers of the tableau driver are right for every tableau that      *)
(* satisfies NodeAssumption, SolverAssumption and DecomposeAssumption:     *)
(* type correctness, soundness of "sat", soundness of "unsat", the pairing *)
(* of push and pop on the solvers, and, with BranchAssumption, that the    *)
(* trace the driver extracts is a branch of the tableau.                   *)
(*                                                                         *)
(* Each solver is used as an AssertionStack allows, and each check is one  *)
(* that a client may ask for: so the promise that AssertionSolver and      *)
(* DifferenceLogic keep is the one the driver needs.                       *)
(***************************************************************************)
EXTENDS TableauProtocol, SequenceTheorems, TLAPS

IsChild(n, m) == \E k \in DOMAIN Children(m) : n = Children(m)[k]

----------------------------------------------------------------------------
(* The inductive invariant, in parts *)

\* Solvers are created and dropped like the frames that own them, and the top
\* frame works on the newest one.
SolverOrder ==
    /\ \A i \in DOMAIN stack : stack[i].solver \in DOMAIN solvers
    /\ \A i, j \in DOMAIN stack : i <= j => stack[i].solver <= stack[j].solver
    /\ stack # <<>> => Top.solver = Len(solvers) /\ stack[1].solver = 1

\* The frames are a branch of the tableau.
BranchOK ==
    /\ stack # <<>> => stack[1].node = root
    /\ \A i \in DOMAIN stack :
        /\ ~Leaf(stack[i].node)
        /\ Consistent(Literals(stack[i].node))
        /\ \A k \in DOMAIN stack[i].children : IsChild(stack[i].children[k], stack[i].node)
        /\ i > 1 => IsChild(stack[i].node, stack[i - 1].node)
    /\ \A i, j \in DOMAIN stack :
        i <= j /\ stack[i].solver = stack[j].solver
            => Literals(stack[i].node) \subseteq Literals(stack[j].node)

\* A frame that is "sat" is open.
FrameSat == \A i \in DOMAIN stack : stack[i].result = "sat" => Open(stack[i].node)

\* An open child that is still to be explored, or is being explored
Pending(i) ==
    \/ \E k \in DOMAIN stack[i].children :
        ~Simple(stack[i].children[k]) /\ Open(stack[i].children[k])
    \/ /\ i + 1 \in DOMAIN stack
       /\ ~Simple(stack[i + 1].node) /\ Open(stack[i + 1].node)

\* An open frame that is not "sat" yet still has an open child.
FrameUnsat ==
    Untroubled =>
        \A i \in DOMAIN stack :
            Open(stack[i].node) /\ stack[i].result # "sat" => Pending(i)

\* A frame that is "sat" is the top frame, and has nothing left to explore.
SatDone ==
    \A i \in DOMAIN stack :
        stack[i].result = "sat" => i = Len(stack) /\ stack[i].children = <<>>

UndefinedOnlyIfCut ==
    /\ \A i \in DOMAIN stack : stack[i].result = "undefined" => cut
    /\ UnknownOnlyIfCut

\* A frame without a result still has its last, full, child to come.
LastChild ==
    \A i \in DOMAIN stack :
        LET c == stack[i].children IN
        /\ c # <<>> => ~Simple(c[Len(c)])
        /\ stack[i].result = None /\ c = <<>> =>
            i + 1 \in DOMAIN stack /\ ~Simple(stack[i + 1].node)

\* What was found unsatisfiable has left a core behind.
CoreRecorded ==
    /\ \A i \in DOMAIN stack : stack[i].result = "unsat" => core # {}
    /\ store # {} => core # {}
    /\ stack # <<>> => RootWasOpened
    /\ CoreAfterSearch

StructInv == TypeOK /\ SolverOrder /\ SolverMirrorsBranch /\ BranchOK

----------------------------------------------------------------------------
(* What a step does to the stack: it returns to the frame below, settles   *)
(* the result of the top frame, or opens a frame above it.                 *)

\* merge_results yields a result from results.
LEMMA MergeType ==
    ASSUME NEW p \in Result, NEW c \in JobState, NEW b \in BOOLEAN
    PROVE  /\ MergeResults(p, c, b) \in Result
           /\ MergeResults(p, c, b) = "sat" => p = "sat" \/ (c = "sat" /\ ~b)
           /\ MergeResults(p, c, b) = "unsat" => p = "unsat" \/ c = "unsat"
           /\ MergeResults(p, c, b) = "undefined" => p = "undefined" \/ c = "undefined"
           /\ MergeResults(p, c, b) = None => p = None /\ c = "sat" /\ b
BY DEF MergeResults, Result, JobState, None

\* The current frame and its children are nodes.
LEMMA TopType ==
    ASSUME TypeOK, Len(stack) > 0
    PROVE  /\ Len(stack) \in Nat \ {0}
           /\ Top \in Frame
           /\ Top.node \in Nodes /\ Top.children \in Seq(Nodes) /\ Top.depth \in Nat
           /\ Top.solver \in Nat /\ Top.result \in Result
           /\ Simple(Top.node) \in BOOLEAN
           /\ Top.children # <<>> =>
                /\ Child \in Nodes /\ Siblings \in Seq(Nodes)
                /\ Child = Top.children[1]
                /\ Len(Top.children) \in Nat \ {0}
                /\ Len(Siblings) = Len(Top.children) - 1
                /\ \A k \in DOMAIN Siblings :
                    k + 1 \in DOMAIN Top.children /\ Siblings[k] = Top.children[k + 1]
<1>1. stack \in Seq(Frame) /\ Len(stack) \in Nat \ {0} /\ Top \in Frame
  BY DEF TypeOK, Top
<1>2. /\ Top.node \in Nodes /\ Top.children \in Seq(Nodes) /\ Top.depth \in Nat
      /\ Top.solver \in Nat /\ Top.result \in Result
  BY <1>1 DEF Frame
<1>3. Simple(Top.node) \in BOOLEAN
  BY <1>2, NodeAssumption
<1>4. ASSUME Top.children # <<>>
      PROVE  /\ Child \in Nodes /\ Siblings \in Seq(Nodes)
             /\ Child = Top.children[1]
             /\ Len(Top.children) \in Nat \ {0}
             /\ Len(Siblings) = Len(Top.children) - 1
             /\ \A k \in DOMAIN Siblings :
                 k + 1 \in DOMAIN Top.children /\ Siblings[k] = Top.children[k + 1]
  BY <1>2, <1>4 DEF Child, Siblings
<1> QED
  BY <1>1, <1>2, <1>3, <1>4

\* A prefix of a sequence keeps its elements.
LEMMA PrefixType ==
    ASSUME NEW S, NEW t \in Seq(S), NEW m \in Nat, m <= Len(t)
    PROVE  /\ SubSeq(t, 1, m) \in Seq(S)
           /\ Len(SubSeq(t, 1, m)) = m
           /\ \A k \in 1 .. m : SubSeq(t, 1, m)[k] = t[k]
OBVIOUS

\* The frames below the top are frames, and keep their places.
LEMMA BelowType ==
    ASSUME TypeOK, Len(stack) > 0
    PROVE  /\ Below \in Seq(Frame)
           /\ Len(Below) = Len(stack) - 1
           /\ \A i \in 1 .. Len(stack) - 1 : Below[i] = stack[i]
<1>1. stack \in Seq(Frame) /\ Len(stack) \in Nat
  BY DEF TypeOK
<1>2. Len(stack) - 1 \in Nat /\ Len(stack) - 1 <= Len(stack)
  BY <1>1
<1> QED
  BY <1>1, <1>2, PrefixType DEF Below

\* Returning a result changes the children and the result of the parent, and drops
\* the top frame.
LEMMA ReturnShape ==
    ASSUME TypeOK, Finished, Len(stack) > 1, NEW ch \in Seq(Nodes), Return(ch)
    PROVE  /\ stack' \in Seq(Frame)
           /\ Len(stack') = Len(stack) - 1
           /\ \A i \in 1 .. Len(stack) - 2 : stack'[i] = stack[i]
           /\ Parent \in Frame
           /\ stack'[Len(stack) - 1] =
                [Parent EXCEPT !.children = ch,
                               !.result = MergeResults(Parent.result, Top.result, Simple(Top.node))]
<1> DEFINE n == Len(stack)
           f == [Parent EXCEPT !.children = ch,
                               !.result = MergeResults(Parent.result, Top.result, Simple(Top.node))]
<1>1. n \in Nat /\ n > 1 /\ stack \in Seq(Frame) /\ Parent \in Frame
  BY DEF TypeOK, Parent
<1>2. Below \in Seq(Frame) /\ Len(Below) = n - 1 /\ \A i \in 1 .. n - 1 : Below[i] = stack[i]
  BY <1>1, BelowType
<1>a. Parent.result \in Result
  BY <1>1 DEF Frame
<1>b. Top.result \in JobState /\ Simple(Top.node) \in BOOLEAN
  BY <1>1, TopType DEF Finished, Result
<1>3. MergeResults(Parent.result, Top.result, Simple(Top.node)) \in Result
  BY <1>a, <1>b, MergeType
<1>4. f \in Frame
  BY <1>1, <1>3 DEF Frame
<1>c. Below[n - 1] = Parent
  BY <1>1, <1>2 DEF Parent
<1>5. stack' = [Below EXCEPT ![n - 1] = f]
  BY <1>c DEF Return
<1>6. stack' \in Seq(Frame) /\ Len(stack') = n - 1
  BY <1>1, <1>2, <1>4, <1>5
<1>7. \A i \in 1 .. n - 2 : stack'[i] = stack[i]
  BY <1>1, <1>2, <1>5
<1>8. stack'[n - 1] = f
  BY <1>1, <1>2, <1>5
<1> QED
  BY <1>1, <1>6, <1>7, <1>8

\* Settling a child changes the children and the result of the top frame only.
LEMMA SettleShape ==
    ASSUME TypeOK, HasChild, NEW ch \in Seq(Nodes), NEW r \in Result, Settle(ch, r)
    PROVE  /\ stack' \in Seq(Frame)
           /\ Len(stack') = Len(stack)
           /\ \A i \in 1 .. Len(stack) - 1 : stack'[i] = stack[i]
           /\ stack'[Len(stack)] = [Top EXCEPT !.children = ch, !.result = r]
<1>1. Len(stack) \in Nat \ {0} /\ stack \in Seq(Frame) /\ Top \in Frame
  BY TopType DEF TypeOK, HasChild
<1>2. stack' = [stack EXCEPT ![Len(stack)] = [Top EXCEPT !.children = ch, !.result = r]]
  BY <1>1 DEF Settle, Top
<1>3. [Top EXCEPT !.children = ch, !.result = r] \in Frame
  BY <1>1 DEF Frame
<1> QED
  BY <1>1, <1>2, <1>3

\* Opening a child adds one frame, for the first child of the top frame.
LEMMA OpenShape ==
    ASSUME TypeOK, ChildOpened
    PROVE  /\ stack' \in Seq(Frame)
           /\ Len(stack') = Len(stack) + 1
           /\ \A i \in 1 .. Len(stack) - 1 : stack'[i] = stack[i]
           /\ stack'[Len(stack)] = [Top EXCEPT !.children = Siblings]
           /\ stack'[Len(stack) + 1] =
                NewFrame(Child, Top.depth + 1,
                         IF NewInstant(Child) THEN Len(solvers) + 1 ELSE Top.solver)
           /\ Child \in Nodes /\ Children(Child) \in Seq(Nodes)
<1> DEFINE s == IF NewInstant(Child) THEN Len(solvers) + 1 ELSE Top.solver
           f == [Top EXCEPT !.children = Siblings]
           g == NewFrame(Child, Top.depth + 1, s)
<1>1. HasChild
  BY DEF ChildOpened, WithinDepth
<1>2. Len(stack) \in Nat \ {0} /\ stack \in Seq(Frame) /\ Top \in Frame
  BY <1>1, TopType DEF TypeOK, HasChild
<1>3. /\ Child \in Nodes /\ Siblings \in Seq(Nodes) /\ Top.depth \in Nat /\ Top.solver \in Nat
  BY <1>1, TopType DEF HasChild
<1>4. Children(Child) \in Seq(Nodes)
  BY <1>3, NodeAssumption
<1>5. s \in Nat
  BY <1>3 DEF TypeOK
<1>a. f \in Frame
  BY <1>2, <1>3 DEF Frame
<1>b. g \in Frame
  BY <1>3, <1>4, <1>5 DEF Frame, NewFrame, Result
<1>6. f \in Frame /\ g \in Frame
  BY <1>a, <1>b
<1>7. /\ Below \in Seq(Frame) /\ Len(Below) = Len(stack) - 1
      /\ \A i \in 1 .. Len(stack) - 1 : Below[i] = stack[i]
  BY <1>2, BelowType
<1>8. stack' = Below \o <<f, g>>
  BY DEF ChildOpened
<1> HIDE DEF f, g
<1>9. <<f, g>> \in Seq(Frame) /\ Len(<<f, g>>) = 2 /\ <<f, g>>[1] = f /\ <<f, g>>[2] = g
  BY <1>6
<1>10. /\ stack' \in Seq(Frame)
       /\ Len(stack') = Len(Below) + 2
       /\ \A i \in 1 .. Len(Below) + 2 :
            stack'[i] = IF i <= Len(Below) THEN Below[i] ELSE <<f, g>>[i - Len(Below)]
  BY <1>7, <1>8, <1>9, ConcatProperties
<1>11. \A i \in 1 .. Len(stack) - 1 : stack'[i] = stack[i]
  BY <1>2, <1>7, <1>10
<1>12. stack'[Len(stack)] = f /\ stack'[Len(stack) + 1] = g
  <2>1. stack'[Len(stack)] = <<f, g>>[1]
    BY <1>2, <1>7, <1>10
  <2>2. stack'[Len(stack) + 1] = <<f, g>>[2]
    BY <1>2, <1>7, <1>10
  <2> QED
    BY <1>9, <2>1, <2>2
<1>13. Len(stack') = Len(stack) + 1
  BY <1>2, <1>7, <1>10
<1> QED
  BY <1>3, <1>4, <1>10, <1>11, <1>12, <1>13 DEF f, g

----------------------------------------------------------------------------
(* The solvers: popping the scope of a finished frame, and asserting the   *)
(* literals of a new one.                                                  *)

\* The frame on top was checked on its parent's solver, in that solver's last
\* scope.
LEMMA LastScope ==
    ASSUME TypeOK, SolverOrder, SolverMirrorsBranch, Len(stack) > 1
    PROVE  /\ Parent.solver \in DOMAIN solvers
           /\ solvers[Parent.solver] \in Seq(SUBSET Literal)
           /\ Len(solvers[Parent.solver]) \in Nat \ {0}
<1> DEFINE n == Len(stack)
           p == Parent.solver
<1>1. n \in Nat /\ n - 1 \in DOMAIN stack /\ n \in DOMAIN stack /\ n # 1
  BY DEF TypeOK
<1>2. p \in DOMAIN solvers /\ solvers[p] \in Seq(SUBSET Literal)
  BY <1>1 DEF SolverOrder, TypeOK, Parent
<1>3. CheckedOn(n) = p
  BY <1>1 DEF CheckedOn, Parent
<1>4. PICK b \in 0 .. n : {i \in DOMAIN stack : CheckedOn(i) = p} = (b + 1) .. (b + Len(solvers[p]))
  BY <1>2 DEF SolverMirrorsBranch
<1>5. n \in (b + 1) .. (b + Len(solvers[p]))
  BY <1>1, <1>3, <1>4
<1>6. Len(solvers[p]) \in Nat
  BY <1>2
<1>7. Len(solvers[p]) # 0
  <2>1. PICK k \in Nat : k = Len(solvers[p])
    BY <1>6
  <2>2. n \in (b + 1) .. (b + k)
    BY <1>5, <2>1
  <2>3. k # 0
    BY <2>1, <2>2, <1>1
  <2> QED
    BY <2>1, <2>3
<1> QED
  BY <1>2, <1>6, <1>7

\* PopParentScope drops the solvers of the finished frame and one scope of the
\* parent's.
LEMMA PopShape ==
    ASSUME TypeOK, SolverOrder, SolverMirrorsBranch, Len(stack) > 1, solvers' = PopParentScope
    PROVE  /\ solvers' \in Seq(Seq(SUBSET Literal))
           /\ Len(solvers') = Parent.solver
           /\ \A s \in 1 .. Parent.solver - 1 : solvers'[s] = solvers[s]
           /\ Len(solvers'[Parent.solver]) = Len(solvers[Parent.solver]) - 1
           /\ \A k \in 1 .. Len(solvers[Parent.solver]) - 1 :
                solvers'[Parent.solver][k] = solvers[Parent.solver][k]
<1> DEFINE p == Parent.solver
           kept == SubSeq(solvers, 1, p)
           scopes == kept[p]
           rest == SubSeq(scopes, 1, Len(scopes) - 1)
<1>1. /\ p \in DOMAIN solvers /\ solvers \in Seq(Seq(SUBSET Literal))
      /\ solvers[p] \in Seq(SUBSET Literal) /\ Len(solvers[p]) \in Nat \ {0}
  BY LastScope DEF TypeOK
<1>2. p \in Nat /\ p >= 1 /\ p <= Len(solvers)
  BY <1>1
<1>3. /\ kept \in Seq(Seq(SUBSET Literal)) /\ Len(kept) = p
      /\ \A s \in 1 .. p : kept[s] = solvers[s]
  BY <1>1, <1>2
<1>4. scopes = solvers[p]
  BY <1>2, <1>3
<1>5. /\ rest \in Seq(SUBSET Literal) /\ Len(rest) = Len(solvers[p]) - 1
      /\ \A k \in 1 .. Len(solvers[p]) - 1 : rest[k] = solvers[p][k]
  <2>1. PICK l \in Nat : l = Len(solvers[p]) /\ l # 0
    BY <1>1
  <2>2. rest = SubSeq(solvers[p], 1, l - 1)
    BY <1>4, <2>1
  <2>3. l - 1 \in Nat /\ l - 1 <= Len(solvers[p])
    BY <2>1
  <2> HIDE DEF p, rest, scopes
  <2>4. /\ SubSeq(solvers[p], 1, l - 1) \in Seq(SUBSET Literal)
        /\ Len(SubSeq(solvers[p], 1, l - 1)) = l - 1
        /\ \A k \in 1 .. l - 1 : SubSeq(solvers[p], 1, l - 1)[k] = solvers[p][k]
    BY <1>1, <2>3, PrefixType
  <2> QED
    BY <2>1, <2>2, <2>4
<1>6. solvers' = [kept EXCEPT ![p] = rest]
  BY DEF PopParentScope
<1> HIDE DEF kept, rest
<1>7. solvers' \in Seq(Seq(SUBSET Literal)) /\ Len(solvers') = p
  BY <1>2, <1>3, <1>5, <1>6
<1>8. \A s \in 1 .. p - 1 : solvers'[s] = kept[s]
  BY <1>2, <1>3, <1>6
<1>9. solvers'[p] = rest
  BY <1>2, <1>3, <1>6
<1> QED
  BY <1>2, <1>3, <1>5, <1>7, <1>8, <1>9

----------------------------------------------------------------------------
(* The structural invariant *)

\* The frames that stay keep their nodes and their solvers.
SameSpine(n) ==
    /\ n \in 1 .. Len(stack)
    /\ Len(stack') = n
    /\ \A i \in 1 .. n : stack'[i].node = stack[i].node /\ stack'[i].solver = stack[i].solver

\* Returning a result keeps the nodes and the solvers of the frames below the top.
LEMMA ReturnSpine ==
    ASSUME TypeOK, Finished, Len(stack) > 1, NEW ch \in Seq(Nodes), Return(ch)
    PROVE  SameSpine(Len(stack) - 1)
<1> DEFINE n == Len(stack)
<1>1. n \in Nat /\ n > 1 /\ Parent = stack[n - 1]
  BY DEF TypeOK, Parent
<1>2. /\ Len(stack') = n - 1
      /\ \A i \in 1 .. n - 2 : stack'[i] = stack[i]
      /\ Parent \in Frame
      /\ stack'[n - 1] = [Parent EXCEPT !.children = ch,
                !.result = MergeResults(Parent.result, Top.result, Simple(Top.node))]
  BY ReturnShape
<1>3. stack'[n - 1].node = Parent.node /\ stack'[n - 1].solver = Parent.solver
  BY <1>2 DEF Frame
<1>4. ASSUME NEW i \in 1 .. n - 1
      PROVE  stack'[i].node = stack[i].node /\ stack'[i].solver = stack[i].solver
  <2>1. i \in 1 .. n - 2 \/ i = n - 1
    BY <1>1
  <2>2. CASE i \in 1 .. n - 2
    BY <2>2, <1>2
  <2>3. CASE i = n - 1
    BY <2>3, <1>1, <1>3
  <2> QED
    BY <2>1, <2>2, <2>3
<1>5. n - 1 \in 1 .. n
  BY <1>1
<1> QED
  BY <1>2, <1>4, <1>5 DEF SameSpine

\* Settling a child keeps the nodes and the solvers of all frames.
LEMMA SettleSpine ==
    ASSUME TypeOK, HasChild, NEW ch \in Seq(Nodes), NEW r \in Result, Settle(ch, r)
    PROVE  SameSpine(Len(stack))
<1> DEFINE n == Len(stack)
<1>1. n \in Nat /\ n > 0 /\ Top = stack[n] /\ Top \in Frame
  BY TopType DEF HasChild, Top
<1>2. /\ Len(stack') = n
      /\ \A i \in 1 .. n - 1 : stack'[i] = stack[i]
      /\ stack'[n] = [Top EXCEPT !.children = ch, !.result = r]
  BY SettleShape
<1>3. stack'[n].node = Top.node /\ stack'[n].solver = Top.solver
  BY <1>1, <1>2 DEF Frame
<1>4. ASSUME NEW i \in 1 .. n
      PROVE  stack'[i].node = stack[i].node /\ stack'[i].solver = stack[i].solver
  <2>1. i \in 1 .. n - 1 \/ i = n
    BY <1>1
  <2>2. CASE i \in 1 .. n - 1
    BY <2>2, <1>2
  <2>3. CASE i = n
    BY <2>3, <1>1, <1>3
  <2> QED
    BY <2>1, <2>2, <2>3
<1>5. n \in 1 .. n
  BY <1>1
<1> QED
  BY <1>2, <1>4, <1>5 DEF SameSpine

\* Frames that keep their solvers keep the order of the solvers.
LEMMA SpineOrder ==
    ASSUME TypeOK, TypeOK', SolverOrder, NEW n, SameSpine(n), Len(solvers') = stack[n].solver
    PROVE  SolverOrder'
<1>1. n \in Nat /\ n >= 1 /\ n <= Len(stack) /\ DOMAIN stack' = 1 .. n /\ DOMAIN stack = 1 .. Len(stack)
  BY DEF SameSpine, TypeOK
<1>2. \A i \in 1 .. n : stack'[i].solver = stack[i].solver
  BY DEF SameSpine
<1>3. \A i \in DOMAIN stack : stack[i].solver \in Nat /\ stack[i].solver >= 1
  <2>1. DOMAIN solvers = 1 .. Len(solvers) /\ Len(solvers) \in Nat
    BY DEF TypeOK
  <2>2. \A i \in DOMAIN stack : stack[i].solver \in 1 .. Len(solvers)
    BY <2>1 DEF SolverOrder
  <2> QED
    BY <2>1, <2>2
<1>4. \A i, j \in 1 .. n : i <= j => stack'[i].solver <= stack'[j].solver
  BY <1>1, <1>2 DEF SolverOrder
<1>5. \A i \in 1 .. n : stack'[i].solver \in DOMAIN solvers'
  <2>1. DOMAIN solvers' = 1 .. Len(solvers')
    BY DEF TypeOK
  <2>2. \A i \in 1 .. n : stack'[i].solver <= Len(solvers')
    BY <1>1, <1>2, <1>4
  <2> QED
    BY <1>1, <1>2, <1>3, <2>1, <2>2
<1>6. Top'.solver = Len(solvers') /\ stack'[1].solver = 1
  <2>1. Top' = stack'[n]
    BY DEF SameSpine, Top
  <2>2. stack # <<>>
    BY <1>1
  <2>3. stack[1].solver = 1
    BY <2>2 DEF SolverOrder
  <2> QED
    BY <1>1, <1>2, <2>1, <2>3
<1> QED
  BY <1>1, <1>4, <1>5, <1>6 DEF SolverOrder

\* Frames that keep their nodes still hold a branch of the tableau.
LEMMA SpineBranch ==
    ASSUME TypeOK, TypeOK', BranchOK, NEW n, SameSpine(n), root' = root,
           \A i \in 1 .. n : \A k \in DOMAIN stack'[i].children :
                IsChild(stack'[i].children[k], stack[i].node)
    PROVE  BranchOK'
<1>1. n \in Nat /\ n >= 1 /\ n <= Len(stack) /\ DOMAIN stack' = 1 .. n /\ DOMAIN stack = 1 .. Len(stack)
  BY DEF SameSpine, TypeOK
<1>2. \A i \in 1 .. n : stack'[i].solver = stack[i].solver /\ stack'[i].node = stack[i].node
  BY DEF SameSpine
<1>3. stack # <<>>
  BY <1>1
<1>4. stack'[1].node = root'
  BY <1>1, <1>2, <1>3 DEF BranchOK
<1>5. ASSUME NEW i \in 1 .. n
      PROVE  /\ ~Leaf(stack'[i].node)
             /\ Consistent(Literals(stack'[i].node))
             /\ \A k \in DOMAIN stack'[i].children :
                    IsChild(stack'[i].children[k], stack'[i].node)
             /\ i > 1 => IsChild(stack'[i].node, stack'[i - 1].node)
  BY <1>1, <1>2, <1>5 DEF BranchOK
<1>6. ASSUME NEW i \in 1 .. n, NEW j \in 1 .. n, i <= j, stack'[i].solver = stack'[j].solver
      PROVE  Literals(stack'[i].node) \subseteq Literals(stack'[j].node)
  <2>1. i \in DOMAIN stack /\ j \in DOMAIN stack
    BY <1>1
  <2>2. stack[i].solver = stack[j].solver
    BY <1>2, <1>6
  <2>3. Literals(stack[i].node) \subseteq Literals(stack[j].node)
    BY <1>6, <2>1, <2>2 DEF BranchOK
  <2>4. stack'[i].node = stack[i].node /\ stack'[j].node = stack[j].node
    BY <1>2
  <2> QED
    BY <2>3, <2>4
<1> QED
  BY <1>1, <1>4, <1>5, <1>6 DEF BranchOK

----------------------------------------------------------------------------
(* push and pop stay paired *)

\* The scopes of solver s are the frames after frame b, as far as they go.
ScopesFrom(s, b) ==
    /\ b + Len(solvers[s]) <= Len(stack)
    /\ \A i \in 1 .. Len(stack) : CheckedOn(i) = s <=> b < i /\ i <= b + Len(solvers[s])
    /\ \A k \in 1 .. Len(solvers[s]) : solvers[s][k] = Literals(stack[b + k].node)

Mirrors == \A s \in 1 .. Len(solvers) : \E b \in Nat : ScopesFrom(s, b)

\* SolverMirrorsBranch with inequalities in the place of intervals
LEMMA MirrorsForm == TypeOK => (SolverMirrorsBranch <=> Mirrors)
<1> SUFFICES ASSUME TypeOK PROVE SolverMirrorsBranch <=> Mirrors
  OBVIOUS
<1> DEFINE n == Len(stack)
<1>1. n \in Nat /\ DOMAIN stack = 1 .. n /\ DOMAIN solvers = 1 .. Len(solvers)
  BY DEF TypeOK
<1>2. ASSUME NEW s \in 1 .. Len(solvers)
      PROVE  (\E b \in 0 .. n :
                /\ {i \in DOMAIN stack : CheckedOn(i) = s} = (b + 1) .. (b + Len(solvers[s]))
                /\ \A k \in DOMAIN solvers[s] : solvers[s][k] = Literals(stack[b + k].node))
             <=> (\E b \in Nat : ScopesFrom(s, b))
  <2>1. PICK m \in Nat : m = Len(solvers[s]) /\ DOMAIN solvers[s] = 1 .. m
    BY <1>1, <1>2 DEF TypeOK
  <2>2. ASSUME NEW b \in 0 .. n, {i \in DOMAIN stack : CheckedOn(i) = s} = (b + 1) .. (b + m)
        PROVE  /\ b + m <= n
               /\ \A i \in 1 .. n : CheckedOn(i) = s <=> b < i /\ i <= b + m
    <3>1. \A i \in 1 .. n : CheckedOn(i) = s <=> i \in (b + 1) .. (b + m)
      BY <1>1, <2>2
    <3>2. CASE m = 0
      BY <1>1, <2>1, <3>1, <3>2
    <3>3. CASE m # 0
      <4>1. b + m \in (b + 1) .. (b + m)
        BY <2>1, <3>3
      <4>2. b + m \in 1 .. n
        BY <1>1, <2>2, <4>1
      <4> QED
        BY <1>1, <2>1, <3>1, <4>2
    <3> QED
      BY <3>2, <3>3
  <2>3. ASSUME NEW b \in Nat, b + m <= n,
               \A i \in 1 .. n : CheckedOn(i) = s <=> b < i /\ i <= b + m
        PROVE  b \in 0 .. n /\ {i \in DOMAIN stack : CheckedOn(i) = s} = (b + 1) .. (b + m)
    <3>1. b \in 0 .. n
      BY <1>1, <2>1, <2>3
    <3>2. \A i \in 1 .. n : CheckedOn(i) = s <=> i \in (b + 1) .. (b + m)
      BY <1>1, <2>1, <2>3
    <3>3. (b + 1) .. (b + m) \subseteq 1 .. n
      BY <1>1, <2>1, <2>3
    <3> QED
      BY <1>1, <3>1, <3>2, <3>3
  <2>4. ASSUME NEW b \in 0 .. n, {i \in DOMAIN stack : CheckedOn(i) = s} = (b + 1) .. (b + m),
               \A k \in DOMAIN solvers[s] : solvers[s][k] = Literals(stack[b + k].node)
        PROVE  b \in Nat /\ ScopesFrom(s, b)
    <3>1. /\ b + m <= n
          /\ \A i \in 1 .. n : CheckedOn(i) = s <=> b < i /\ i <= b + m
      BY <2>2, <2>4
    <3> QED
      BY <1>1, <2>1, <2>4, <3>1 DEF ScopesFrom
  <2>5. ASSUME NEW b \in Nat, ScopesFrom(s, b)
        PROVE  /\ b \in 0 .. n
               /\ {i \in DOMAIN stack : CheckedOn(i) = s} = (b + 1) .. (b + m)
               /\ \A k \in DOMAIN solvers[s] : solvers[s][k] = Literals(stack[b + k].node)
    <3>1. b + m <= n /\ \A i \in 1 .. n : CheckedOn(i) = s <=> b < i /\ i <= b + m
      BY <2>1, <2>5 DEF ScopesFrom
    <3>2. \A k \in DOMAIN solvers[s] : solvers[s][k] = Literals(stack[b + k].node)
      BY <2>1, <2>5 DEF ScopesFrom
    <3> QED
      BY <2>3, <3>1, <3>2
  <2> QED
    BY <2>1, <2>4, <2>5
<1> QED
  BY <1>1, <1>2 DEF SolverMirrorsBranch, Mirrors

\* Frames that keep their solvers were checked where they were.
LEMMA SpineChecked ==
    ASSUME TypeOK, NEW n, SameSpine(n)
    PROVE  \A i \in 1 .. n : CheckedOn(i)' = CheckedOn(i)
<1>1. n \in Nat /\ n >= 1
  BY DEF SameSpine, TypeOK
<1> SUFFICES ASSUME NEW i \in 1 .. n PROVE CheckedOn(i)' = CheckedOn(i)
  OBVIOUS
<1>2. CASE i = 1
  BY <1>2 DEF CheckedOn
<1>3. CASE i # 1
  <2>1. i - 1 \in 1 .. n
    BY <1>1, <1>3
  <2>2. stack'[i - 1].solver = stack[i - 1].solver
    BY <2>1 DEF SameSpine
  <2> QED
    BY <1>3, <2>2 DEF CheckedOn
<1> QED
  BY <1>2, <1>3

\* Settling a child keeps the scopes paired with the branch.
LEMMA SettleMirrors ==
    ASSUME TypeOK, Mirrors, SameSpine(Len(stack)), UNCHANGED solvers
    PROVE  Mirrors'
<1> DEFINE n == Len(stack)
<1>1. n \in Nat /\ Len(stack') = n /\ solvers' = solvers
  BY DEF SameSpine, TypeOK
<1>2. \A i \in 1 .. n : CheckedOn(i)' = CheckedOn(i) /\ stack'[i].node = stack[i].node
  BY SpineChecked DEF SameSpine
<1> SUFFICES ASSUME NEW s \in 1 .. Len(solvers) PROVE \E b \in Nat : ScopesFrom(s, b)'
  BY <1>1 DEF Mirrors
<1>3. PICK m \in Nat : m = Len(solvers[s])
  BY DEF TypeOK
<1>4. PICK b \in Nat : ScopesFrom(s, b)
  BY DEF Mirrors
<1>5. /\ b + m <= n
      /\ \A i \in 1 .. n : CheckedOn(i) = s <=> b < i /\ i <= b + m
      /\ \A k \in 1 .. m : solvers[s][k] = Literals(stack[b + k].node)
  BY <1>3, <1>4 DEF ScopesFrom
<1>6. \A k \in 1 .. m : b + k \in 1 .. n
  BY <1>1, <1>5
<1>7. \A k \in 1 .. m : solvers'[s][k] = Literals(stack'[b + k].node)
  BY <1>1, <1>2, <1>5, <1>6
<1>8. \A i \in 1 .. n : CheckedOn(i)' = s <=> b < i /\ i <= b + m
  BY <1>2, <1>5
<1>9. ScopesFrom(s, b)'
  BY <1>1, <1>3, <1>5, <1>7, <1>8 DEF ScopesFrom
<1> QED
  BY <1>9

\* Popping the parent's scope with the finished frame keeps them paired.
LEMMA PopMirrors ==
    ASSUME TypeOK, SolverOrder, SolverMirrorsBranch, Mirrors, Len(stack) > 1,
           SameSpine(Len(stack) - 1), solvers' = PopParentScope
    PROVE  Mirrors'
<1> DEFINE n == Len(stack)
           p == Parent.solver
<1>1. n \in Nat /\ n > 1 /\ Len(stack') = n - 1
  BY DEF SameSpine, TypeOK
<1>2. \A i \in 1 .. n - 1 : CheckedOn(i)' = CheckedOn(i) /\ stack'[i].node = stack[i].node
  BY SpineChecked DEF SameSpine
<1>3. /\ Len(solvers') = p
      /\ \A s \in 1 .. p - 1 : solvers'[s] = solvers[s]
      /\ Len(solvers'[p]) = Len(solvers[p]) - 1
      /\ \A k \in 1 .. Len(solvers[p]) - 1 : solvers'[p][k] = solvers[p][k]
  BY PopShape
<1>4. p \in Nat /\ p >= 1 /\ p <= Len(solvers)
  BY LastScope DEF TypeOK
<1>5. CheckedOn(n) = p /\ n \in 1 .. n
  BY <1>1 DEF CheckedOn, Parent
<1> SUFFICES ASSUME NEW s \in 1 .. p PROVE \E b \in Nat : ScopesFrom(s, b)'
  BY <1>3 DEF Mirrors
<1>6. s \in 1 .. Len(solvers)
  BY <1>4
<1>7. PICK m \in Nat : m = Len(solvers[s])
  BY <1>6 DEF TypeOK
<1>8. PICK b \in Nat : ScopesFrom(s, b)
  BY <1>6 DEF Mirrors
<1>9. /\ b + m <= n
      /\ \A i \in 1 .. n : CheckedOn(i) = s <=> b < i /\ i <= b + m
      /\ \A k \in 1 .. m : solvers[s][k] = Literals(stack[b + k].node)
  BY <1>7, <1>8 DEF ScopesFrom
<1>10. \A i \in 1 .. n - 1 : i \in 1 .. n
  BY <1>1
<1>11. CASE s < p
  <2>1. solvers'[s] = solvers[s]
    BY <1>3, <1>4, <1>11
  <2>2. ~(b < n /\ n <= b + m)
    <3>1. CheckedOn(n) = s <=> b < n /\ n <= b + m
      BY <1>5, <1>9
    <3>2. CheckedOn(n) # s
      BY <1>4, <1>5, <1>11
    <3> QED
      BY <3>1, <3>2
  <2>3. CASE b < n
    <3>1. b + m <= n - 1
      BY <1>1, <1>9, <2>2, <2>3
    <3>2. \A k \in 1 .. m : b + k \in 1 .. n - 1
      BY <1>1, <3>1
    <3>3. \A k \in 1 .. m : solvers'[s][k] = Literals(stack'[b + k].node)
      BY <1>2, <1>9, <2>1, <3>2
    <3>4. \A i \in 1 .. n - 1 : CheckedOn(i)' = s <=> b < i /\ i <= b + m
      BY <1>2, <1>9, <1>10
    <3>5. ScopesFrom(s, b)'
      BY <1>1, <1>7, <2>1, <3>1, <3>3, <3>4 DEF ScopesFrom
    <3> QED
      BY <3>5
  <2>4. CASE b >= n
    <3>1. m = 0
      BY <1>1, <1>9, <2>4
    <3>2. \A i \in 1 .. n - 1 : CheckedOn(i)' # s
      BY <1>1, <1>2, <1>9, <1>10, <2>4
    <3>3. Len(solvers'[s]) = m
      BY <1>7, <2>1
    <3>4. ScopesFrom(s, 0)'
      BY <1>1, <3>1, <3>2, <3>3 DEF ScopesFrom
    <3> QED
      BY <3>4
  <2> QED
    BY <1>1, <2>3, <2>4
<1>12. CASE s = p
  <2>1. b < n /\ n <= b + m
    BY <1>5, <1>9, <1>12
  <2>2. b + m = n
    BY <1>1, <1>9, <2>1
  <2>3. Len(solvers'[s]) = m - 1 /\ m >= 1
    BY <1>1, <1>3, <1>7, <1>12, <2>1
  <2>4. \A k \in 1 .. m - 1 : b + k \in 1 .. n - 1 /\ k \in 1 .. m
    BY <1>1, <2>2
  <2>5. \A k \in 1 .. m - 1 : solvers'[s][k] = solvers[s][k]
    BY <1>3, <1>7, <1>12
  <2>6. \A k \in 1 .. m - 1 : solvers'[s][k] = Literals(stack'[b + k].node)
    BY <1>2, <1>9, <2>4, <2>5
  <2>7. ASSUME NEW i \in 1 .. n - 1
        PROVE  CheckedOn(i)' = s <=> b < i /\ i <= b + (m - 1)
    <3>1. CheckedOn(i) = s <=> b < i /\ i <= b + m
      BY <1>9, <1>10
    <3>2. i <= b + m /\ i <= b + (m - 1)
      BY <1>1, <2>2
    <3>3. CheckedOn(i)' = CheckedOn(i)
      BY <1>2
    <3> QED
      BY <3>1, <3>2, <3>3
  <2>8. b + (m - 1) <= n - 1
    BY <1>1, <2>2
  <2>9. ScopesFrom(s, b)'
    BY <1>1, <2>3, <2>6, <2>7, <2>8 DEF ScopesFrom
  <2> QED
    BY <2>9
<1> QED
  BY <1>4, <1>11, <1>12

\* Frames are checked on older solvers the lower they are.
LEMMA CheckedOrder ==
    ASSUME TypeOK, SolverOrder, Len(stack) > 0
    PROVE  /\ \A i \in 1 .. Len(stack) : CheckedOn(i) \in Nat /\ CheckedOn(i) <= Len(solvers)
           /\ \A i, j \in 1 .. Len(stack) : i <= j => CheckedOn(i) <= CheckedOn(j)
<1> DEFINE n == Len(stack)
<1>1. n \in Nat /\ n > 0 /\ DOMAIN stack = 1 .. n /\ stack # <<>>
  BY DEF TypeOK
<1>2. DOMAIN solvers = 1 .. Len(solvers) /\ Len(solvers) \in Nat
  BY DEF TypeOK
<1>3. \A i \in 1 .. n : stack[i].solver \in 1 .. Len(solvers)
  BY <1>1, <1>2 DEF SolverOrder
<1>4. stack[1].solver = 1
  BY <1>1 DEF SolverOrder
<1>5. \A i, j \in 1 .. n : i <= j => stack[i].solver <= stack[j].solver
  BY <1>1 DEF SolverOrder
<1>6. ASSUME NEW i \in 1 .. n
      PROVE  CheckedOn(i) \in 1 .. Len(solvers)
  <2>1. CASE i = 1
    BY <1>1, <1>3, <1>4, <2>1 DEF CheckedOn
  <2>2. CASE i # 1
    BY <1>1, <1>3, <2>2 DEF CheckedOn
  <2> QED
    BY <2>1, <2>2
<1>7. ASSUME NEW i \in 1 .. n, NEW j \in 1 .. n, i <= j
      PROVE  CheckedOn(i) <= CheckedOn(j)
  <2>1. CASE i = 1
    <3>1. CheckedOn(i) = 1
      BY <2>1 DEF CheckedOn
    <3> QED
      BY <1>2, <1>6, <3>1
  <2>2. CASE i # 1
    <3>1. i - 1 \in 1 .. n /\ j - 1 \in 1 .. n /\ i - 1 <= j - 1 /\ j # 1
      BY <1>1, <1>7, <2>2
    <3>2. CheckedOn(i) = stack[i - 1].solver /\ CheckedOn(j) = stack[j - 1].solver
      BY <2>2, <3>1 DEF CheckedOn
    <3> QED
      BY <1>5, <3>1, <3>2
  <2> QED
    BY <2>1, <2>2
<1> QED
  BY <1>2, <1>6, <1>7

\* Opening a frame asserts the literals of its node on the top frame's solver.
LEMMA OpenSolvers ==
    ASSUME TypeOK, SolverOrder, ChildOpened
    PROVE  /\ Len(stack) > 0 /\ Top.solver = Len(solvers) /\ Len(solvers) >= 1
           /\ solvers' \in Seq(Seq(SUBSET Literal))
           /\ Len(solvers') = IF NewInstant(Child) THEN Len(solvers) + 1 ELSE Len(solvers)
           /\ \A s \in 1 .. Len(solvers) - 1 : solvers'[s] = solvers[s]
           /\ solvers'[Len(solvers)] = Append(solvers[Len(solvers)], Literals(Child))
           /\ NewInstant(Child) => solvers'[Len(solvers) + 1] = <<>>
<1>1. Len(stack) > 0 /\ Len(stack) \in Nat /\ Child \in Nodes
  <2>1. HasChild
    BY DEF ChildOpened, WithinDepth
  <2> QED
    BY <2>1, TopType DEF HasChild
<1>2. Top.solver = Len(solvers) /\ Len(solvers) \in Nat /\ Len(solvers) >= 1
  <2>1. stack # <<>> /\ Len(stack) \in DOMAIN stack
    BY <1>1 DEF TypeOK
  <2>2. Top.solver = Len(solvers) /\ Top.solver \in DOMAIN solvers
    BY <2>1 DEF SolverOrder, Top
  <2> QED
    BY <2>2 DEF TypeOK
<1>3. Literals(Child) \in SUBSET Literal
  BY <1>1 DEF Literal
<1> DEFINE l == Len(solvers)
           scopes == Append(solvers[l], Literals(Child))
           asserted == [solvers EXCEPT ![l] = scopes]
<1>4. scopes \in Seq(SUBSET Literal)
  BY <1>2, <1>3 DEF TypeOK
<1>5. solvers' = IF NewInstant(Child) THEN Append(asserted, <<>>) ELSE asserted
  BY <1>2 DEF ChildOpened
<1> HIDE DEF scopes
<1>6. /\ asserted \in Seq(Seq(SUBSET Literal)) /\ Len(asserted) = l
      /\ \A s \in 1 .. l - 1 : asserted[s] = solvers[s]
      /\ asserted[l] = scopes
  BY <1>2, <1>4 DEF TypeOK
<1> HIDE DEF asserted
<1>7. <<>> \in Seq(SUBSET Literal)
  OBVIOUS
<1>8. CASE NewInstant(Child)
  <2>1. solvers' = Append(asserted, <<>>)
    BY <1>5, <1>8
  <2>2. /\ solvers' \in Seq(Seq(SUBSET Literal)) /\ Len(solvers') = l + 1
        /\ \A s \in 1 .. l : solvers'[s] = asserted[s]
        /\ solvers'[l + 1] = <<>>
    BY <1>2, <1>6, <1>7, <2>1
  <2>3. \A s \in 1 .. l - 1 : solvers'[s] = solvers[s]
    BY <1>2, <1>6, <2>2
  <2>4. solvers'[l] = scopes
    <3>1. l \in 1 .. l
      BY <1>2
    <3>2. solvers'[l] = asserted[l]
      BY <2>2, <3>1
    <3> QED
      BY <1>6, <3>2
  <2> QED
    BY <1>1, <1>2, <1>8, <2>2, <2>3, <2>4 DEF scopes
<1>9. CASE ~NewInstant(Child)
  BY <1>1, <1>2, <1>5, <1>6, <1>9 DEF scopes
<1> QED
  BY <1>8, <1>9

\* What opening a frame leaves alone, and where the new frame is checked
LEMMA OpenSpine ==
    ASSUME TypeOK, ChildOpened
    PROVE  /\ Len(stack) \in Nat /\ Len(stack) > 0 /\ Len(stack') = Len(stack) + 1
           /\ \A i \in 1 .. Len(stack) :
                stack'[i].node = stack[i].node /\ stack'[i].solver = stack[i].solver
           /\ \A i \in 1 .. Len(stack) : CheckedOn(i)' = CheckedOn(i)
           /\ stack'[Len(stack) + 1].node = Child
           /\ stack'[Len(stack) + 1].solver =
                IF NewInstant(Child) THEN Len(solvers) + 1 ELSE Top.solver
           /\ \A i \in Nat : i = Len(stack) + 1 => CheckedOn(i)' = Top.solver
<1> DEFINE n == Len(stack)
<1>1. n \in Nat /\ n > 0 /\ Top = stack[n] /\ Top \in Frame
  <2>1. HasChild
    BY DEF ChildOpened, WithinDepth
  <2> QED
    BY <2>1, TopType DEF HasChild, Top
<1>2. /\ Len(stack') = n + 1
      /\ \A i \in 1 .. n - 1 : stack'[i] = stack[i]
      /\ stack'[n] = [Top EXCEPT !.children = Siblings]
      /\ stack'[n + 1] = NewFrame(Child, Top.depth + 1,
                            IF NewInstant(Child) THEN Len(solvers) + 1 ELSE Top.solver)
  BY OpenShape
<1>3. ASSUME NEW i \in 1 .. n
      PROVE  stack'[i].node = stack[i].node /\ stack'[i].solver = stack[i].solver
  <2>1. CASE i = n
    BY <1>1, <1>2, <2>1 DEF Frame
  <2>2. CASE i # n
    <3>1. i \in 1 .. n - 1
      BY <1>1, <2>2
    <3> QED
      BY <1>2, <3>1
  <2> QED
    BY <2>1, <2>2
<1>4. ASSUME NEW i \in 1 .. n
      PROVE  CheckedOn(i)' = CheckedOn(i)
  <2>1. CASE i = 1
    BY <2>1 DEF CheckedOn
  <2>2. CASE i # 1
    <3>1. i - 1 \in 1 .. n
      BY <1>1, <2>2
    <3>2. stack'[i - 1].solver = stack[i - 1].solver
      BY <1>3, <3>1
    <3> QED
      BY <2>2, <3>2 DEF CheckedOn
  <2> QED
    BY <2>1, <2>2
<1>5. ASSUME NEW i \in Nat, i = n + 1
      PROVE  CheckedOn(i)' = Top.solver
  <2>1. i # 1 /\ i - 1 = n /\ n \in 1 .. n
    BY <1>1, <1>5
  <2>2. stack'[n].solver = Top.solver
    BY <1>1, <1>3, <2>1
  <2> QED
    BY <2>1, <2>2 DEF CheckedOn
<1>6. /\ stack'[n + 1].node = Child
      /\ stack'[n + 1].solver = IF NewInstant(Child) THEN Len(solvers) + 1 ELSE Top.solver
  BY <1>2 DEF NewFrame
<1> QED
  BY <1>1, <1>2, <1>3, <1>4, <1>5, <1>6

\* Pushing a scope with the frame that is opened keeps them paired.
LEMMA OpenMirrors ==
    ASSUME TypeOK, SolverOrder, Mirrors, ChildOpened
    PROVE  Mirrors'
\* Rigid names for the two lengths, which do not change under a prime
<1>b. PICK n \in Nat : n = Len(stack)
  BY DEF TypeOK
<1>c. PICK t \in Nat : t = Len(solvers)
  BY DEF TypeOK
<1>1. n > 0 /\ Len(stack') = n + 1
  BY <1>b, OpenSpine
<1>2. \A i \in 1 .. n : CheckedOn(i)' = CheckedOn(i) /\ stack'[i].node = stack[i].node
  BY <1>b, OpenSpine
<1>3. t >= 1 /\ Top.solver = t
  BY <1>c, OpenSolvers
<1>4. CheckedOn(n + 1)' = t /\ stack'[n + 1].node = Child
  <2>1. n + 1 \in Nat /\ n + 1 = Len(stack) + 1
    BY <1>b
  <2> QED
    BY <1>3, <2>1, OpenSpine
<1>5. \A s \in 1 .. t - 1 : solvers'[s] = solvers[s]
  BY <1>c, OpenSolvers
<1>6. solvers'[t] = Append(solvers[t], Literals(Child))
  BY <1>c, OpenSolvers
<1>7. /\ Len(solvers') = IF NewInstant(Child) THEN t + 1 ELSE t
      /\ NewInstant(Child) => solvers'[t + 1] = <<>>
  BY <1>c, OpenSolvers
<1>8. \A i \in 1 .. n : CheckedOn(i) <= t /\ CheckedOn(i) \in Nat
  BY <1>1, <1>b, <1>c, CheckedOrder
<1>9. \A i, j \in 1 .. n : i <= j => CheckedOn(i) <= CheckedOn(j)
  BY <1>1, <1>b, CheckedOrder
<1>a. \A i \in 1 .. n + 1 : i \in 1 .. n \/ i = n + 1
  BY <1>1
<1>10. ASSUME NEW s \in 1 .. t - 1
       PROVE  \E b \in Nat : ScopesFrom(s, b)'
  <2>1. s \in 1 .. t /\ s # t
    BY <1>3
  <2>2. PICK m \in Nat : m = Len(solvers[s])
    BY <1>c, <2>1 DEF TypeOK
  <2>3. PICK b \in Nat : ScopesFrom(s, b)
    BY <1>c, <2>1 DEF Mirrors
  <2>4. /\ b + m <= n
        /\ \A i \in 1 .. n : CheckedOn(i) = s <=> b < i /\ i <= b + m
        /\ \A k \in 1 .. m : solvers[s][k] = Literals(stack[b + k].node)
    BY <1>b, <2>2, <2>3 DEF ScopesFrom
  <2>5. solvers'[s] = solvers[s]
    BY <1>5
  <2>6. \A k \in 1 .. m : b + k \in 1 .. n
    BY <1>1, <2>4
  <2>7. \A k \in 1 .. m : solvers'[s][k] = Literals(stack'[b + k].node)
    BY <1>2, <2>4, <2>5, <2>6
  <2>8. ASSUME NEW i \in 1 .. n + 1
        PROVE  CheckedOn(i)' = s <=> b < i /\ i <= b + m
    <3>1. CASE i \in 1 .. n
      BY <1>2, <2>4, <3>1
    <3>2. CASE i = n + 1
      <4>1. ~(i <= b + m)
        BY <1>1, <2>4, <3>2
      <4> QED
        BY <1>4, <2>1, <3>2, <4>1
    <3> QED
      BY <1>a, <3>1, <3>2
  <2>9. ScopesFrom(s, b)'
    BY <1>1, <2>2, <2>4, <2>5, <2>7, <2>8 DEF ScopesFrom
  <2> QED
    BY <2>9
<1>11. \E b \in Nat : ScopesFrom(t, b)'
  <2>1. t \in 1 .. t
    BY <1>3
  <2>2. PICK m \in Nat : m = Len(solvers[t]) /\ solvers[t] \in Seq(SUBSET Literal)
    BY <1>c, <2>1 DEF TypeOK
  <2>3. PICK b \in Nat : ScopesFrom(t, b)
    BY <1>c, <2>1 DEF Mirrors
  <2>4. /\ b + m <= n
        /\ \A i \in 1 .. n : CheckedOn(i) = t <=> b < i /\ i <= b + m
        /\ \A k \in 1 .. m : solvers[t][k] = Literals(stack[b + k].node)
    BY <1>b, <2>2, <2>3 DEF ScopesFrom
  <2>5. /\ Len(solvers'[t]) = m + 1
        /\ \A k \in 1 .. m : solvers'[t][k] = solvers[t][k]
        /\ solvers'[t][m + 1] = Literals(Child)
    BY <1>6, <2>2
  \* The frames checked on the newest solver reach up to the top.
  <2>6. CASE m > 0
    <3>1. b + m \in 1 .. n /\ CheckedOn(b + m) = t
      <4>1. b + m \in 1 .. n /\ b < b + m
        BY <1>1, <2>4, <2>6
      <4>2. CheckedOn(b + m) = t <=> b < b + m /\ b + m <= b + m
        BY <2>4, <4>1
      <4> QED
        BY <4>1, <4>2
    <3>2. n \in 1 .. n /\ b + m <= n
      BY <1>1, <2>4
    <3>3. CheckedOn(n) = t
      <4>1. CheckedOn(b + m) <= CheckedOn(n) /\ CheckedOn(n) <= t /\ CheckedOn(n) \in Nat
        BY <1>8, <1>9, <3>1, <3>2
      <4> QED
        BY <1>3, <3>1, <4>1
    <3>4. b + m = n
      <4>1. CheckedOn(n) = t <=> b < n /\ n <= b + m
        BY <2>4, <3>2
      <4> QED
        BY <1>1, <3>2, <3>3, <4>1
    <3>5. ASSUME NEW k \in 1 .. m + 1
          PROVE  solvers'[t][k] = Literals(stack'[b + k].node)
      <4>1. CASE k = m + 1
        <5>1. b + k = n + 1
          BY <3>4, <4>1
        <5> QED
          BY <1>4, <2>5, <4>1, <5>1
      <4>2. CASE k # m + 1
        <5>1. k \in 1 .. m /\ b + k \in 1 .. n
          BY <3>4, <4>2
        <5> QED
          BY <1>2, <2>4, <2>5, <5>1
      <4> QED
        BY <4>1, <4>2
    <3>6. ASSUME NEW i \in 1 .. n + 1
          PROVE  CheckedOn(i)' = t <=> b < i /\ i <= b + (m + 1)
      <4>1. CASE i \in 1 .. n
        <5>1. CheckedOn(i) = t <=> b < i /\ i <= b + m
          BY <2>4, <4>1
        <5>2. i <= b + m /\ i <= b + (m + 1)
          BY <1>1, <3>4, <4>1
        <5> QED
          BY <1>2, <4>1, <5>1, <5>2
      <4>2. CASE i = n + 1
        BY <1>1, <1>4, <2>6, <3>4, <4>2
      <4> QED
        BY <1>a, <4>1, <4>2
    <3>7. b + (m + 1) <= n + 1
      BY <3>4
    <3>8. ScopesFrom(t, b)'
      BY <1>1, <2>5, <3>5, <3>6, <3>7 DEF ScopesFrom
    <3> QED
      BY <3>8
  <2>7. CASE m = 0
    <3>1. \A k \in 1 .. m + 1 : k = m + 1 /\ n + k = n + 1
      BY <1>1, <2>7
    <3>2. \A k \in 1 .. m + 1 : solvers'[t][k] = Literals(stack'[n + k].node)
      BY <1>4, <2>5, <3>1
    <3>3. ASSUME NEW i \in 1 .. n + 1
          PROVE  CheckedOn(i)' = t <=> n < i /\ i <= n + (m + 1)
      <4>1. CASE i \in 1 .. n
        <5>1. CheckedOn(i) = t <=> b < i /\ i <= b + m
          BY <2>4, <4>1
        <5> QED
          BY <1>1, <1>2, <2>7, <4>1, <5>1
      <4>2. CASE i = n + 1
        BY <1>1, <1>4, <2>7, <4>2
      <4> QED
        BY <1>a, <4>1, <4>2
    <3>4. n + (m + 1) <= n + 1
      BY <1>1, <2>7
    <3>5. ScopesFrom(t, n)'
      BY <1>1, <2>5, <3>2, <3>3, <3>4 DEF ScopesFrom
    <3> QED
      BY <1>1, <3>5
  <2> QED
    BY <2>6, <2>7
<1>12. ASSUME NewInstant(Child)
       PROVE  \E b \in Nat : ScopesFrom(t + 1, b)'
  <2>1. Len(solvers'[t + 1]) = 0
    BY <1>7, <1>12
  <2>2. ASSUME NEW i \in 1 .. n + 1
        PROVE  CheckedOn(i)' # t + 1
    <3>1. CASE i \in 1 .. n
      <4>1. CheckedOn(i)' = CheckedOn(i) /\ CheckedOn(i) <= t /\ CheckedOn(i) \in Nat
        BY <1>2, <1>8, <3>1
      <4> QED
        BY <1>3, <4>1
    <3>2. CASE i = n + 1
      BY <1>3, <1>4, <3>2
    <3> QED
      BY <1>a, <3>1, <3>2
  <2>3. ScopesFrom(t + 1, 0)'
    BY <1>1, <2>1, <2>2 DEF ScopesFrom
  <2> QED
    BY <2>3
<1> SUFFICES ASSUME NEW s \in 1 .. Len(solvers') PROVE \E b \in Nat : ScopesFrom(s, b)'
  BY DEF Mirrors
<1>13. s \in 1 .. t - 1 \/ s = t \/ (NewInstant(Child) /\ s = t + 1)
  BY <1>3, <1>7
<1> QED
  BY <1>10, <1>11, <1>12, <1>13

----------------------------------------------------------------------------
(* One step preserves the structural invariant. *)

\* The actions by what they do to the stack
Settles ==
    /\ HasChild
    /\ ChildCut \/ ChildInconsistent \/ ChildMemoized \/ ChildLeaf
    /\ UNCHANGED <<root, solvers, verdict>>

Returns ==
    /\ Finished
    /\ Len(stack) > 1
    /\ PropagateSat \/ PropagateSimpleSat \/ PropagateUnsat \/ PropagateUndefined
    /\ solvers' = PopParentScope
    /\ UNCHANGED <<root, verdict>>

\* A step starts or ends the search, settles a child, returns a result or opens a
\* child.
LEMMA NextSplit ==
    ASSUME [Next]_vars
    PROVE  \/ RootRejected \/ RootLeaf \/ RootOpened \/ FinishRoot
           \/ Settles \/ Returns \/ ChildOpened
           \/ UNCHANGED vars
<1>1. CASE PropagateSat
  BY <1>1 DEF PropagateSat, Returns
<1>2. CASE PropagateSimpleSat
  BY <1>2 DEF PropagateSimpleSat, Returns
<1>3. CASE PropagateUnsat
  BY <1>3 DEF PropagateUnsat, Returns
<1>4. CASE PropagateUndefined
  BY <1>4 DEF PropagateUndefined, Returns
<1>5. CASE ChildCut
  BY <1>5 DEF ChildCut, Settles
<1>6. CASE ChildInconsistent
  BY <1>6 DEF ChildInconsistent, WithinDepth, Settles
<1>7. CASE ChildMemoized
  BY <1>7 DEF ChildMemoized, WithinDepth, Settles
<1>8. CASE ChildLeaf
  BY <1>8 DEF ChildLeaf, WithinDepth, Settles
<1>9. CASE Returned
  BY <1>9 DEF Returned
<1> QED
  BY <1>1, <1>2, <1>3, <1>4, <1>5, <1>6, <1>7, <1>8, <1>9 DEF Next

\* The empty sequence is a sequence over every set.
LEMMA EmptyStack == ASSUME NEW S PROVE <<>> \in Seq(S)
OBVIOUS

\* The new list of children is a list of children of the frame's node.
LEMMA SettlesWith ==
    ASSUME StructInv, Settles
    PROVE  \E ch \in Seq(Nodes), r \in Result :
             /\ Settle(ch, r)
             /\ \A k \in DOMAIN ch : IsChild(ch[k], Top.node)
<1>1. /\ Siblings \in Seq(Nodes) /\ Top.result \in Result /\ <<>> \in Seq(Nodes)
      /\ \A k \in DOMAIN Siblings :
            k + 1 \in DOMAIN Top.children /\ Siblings[k] = Top.children[k + 1]
  BY TopType, EmptyStack DEF Settles, HasChild, StructInv
<1>2. {"undefined", "unsat", "sat"} \subseteq Result
  BY DEF Result, JobState
<1>3. Len(stack) \in DOMAIN stack
  BY DEF Settles, HasChild, StructInv, TypeOK
<1>4. \A k \in DOMAIN Siblings : IsChild(Siblings[k], Top.node)
  BY <1>1, <1>3 DEF StructInv, BranchOK, Top
<1>5. \A k \in DOMAIN << >> : IsChild(<< >>[k], Top.node)
  OBVIOUS
<1>6. \/ Settle(Siblings, "undefined")
      \/ Settle(Siblings, "unsat")
      \/ Settle(<<>>, "unsat")
      \/ Settle(Siblings, Top.result)
      \/ Settle(<<>>, "sat")
  BY DEF Settles, ChildCut, ChildInconsistent, ChildMemoized, SettleUnsat, ChildLeaf
<1> QED
  BY <1>1, <1>2, <1>4, <1>5, <1>6

\* The parent's new list of children is a list of children of its node.
LEMMA ReturnsWith ==
    ASSUME StructInv, Returns
    PROVE  \E ch \in Seq(Nodes) :
             /\ Return(ch)
             /\ \A k \in DOMAIN ch : IsChild(ch[k], Parent.node)
<1>1. Len(stack) - 1 \in DOMAIN stack
  BY DEF Returns, StructInv, TypeOK
<1>2. Parent.children \in Seq(Nodes)
  <2>1. Parent \in Frame
    BY <1>1 DEF StructInv, TypeOK, Parent
  <2> QED
    BY <2>1 DEF Frame
<1>3. \A k \in DOMAIN Parent.children : IsChild(Parent.children[k], Parent.node)
  BY <1>1 DEF StructInv, BranchOK, Parent
<1>4. <<>> \in Seq(Nodes) /\ \A k \in DOMAIN << >> : IsChild(<< >>[k], Parent.node)
  BY EmptyStack
<1>5. Return(<<>>) \/ Return(Parent.children)
  BY DEF Returns, PropagateSat, PropagateSimpleSat, PropagateUnsat, PropagateUndefined
<1> QED
  BY <1>2, <1>3, <1>4, <1>5

\* The scopes of a solver hold literals of nodes.
LEMMA CheckSetType ==
    ASSUME TypeOK, SolverOrder, HasChild
    PROVE  /\ Asserted(Top.solver) \subseteq Literal
           /\ Literals(Child) \subseteq Literal
           /\ CheckSet(Top.solver, Child) \subseteq Literal
<1>1. Child \in Nodes /\ Len(stack) \in DOMAIN stack
  BY TopType DEF HasChild, TypeOK
<1>2. Literals(Child) \subseteq Literal
  BY <1>1 DEF Literal
<1>3. Top.solver \in DOMAIN solvers
  BY <1>1 DEF SolverOrder, Top
<1>4. \A i \in DOMAIN solvers[Top.solver] : solvers[Top.solver][i] \subseteq Literal
  BY <1>3 DEF TypeOK
<1>5. Asserted(Top.solver) \subseteq Literal
  BY <1>4 DEF Asserted
<1> QED
  BY <1>2, <1>5 DEF CheckSet

\* One step preserves the types.
LEMMA TypeStep ==
    ASSUME StructInv, [Next]_vars
    PROVE  TypeOK'
<1>0. TypeOK /\ SolverOrder /\ SolverMirrorsBranch
  BY DEF StructInv
\* The variables that record history and the answer, action by action
<1>1. /\ root' \in Roots /\ store' \in SUBSET Nodes /\ verdict' \in Verdict
      /\ cut' \in BOOLEAN /\ skipped' \in BOOLEAN /\ misled' \in BOOLEAN
  <2>1. CASE RootRejected
    BY <1>0, <2>1 DEF RootRejected, TypeOK, Verdict
  <2>2. CASE RootLeaf
    BY <1>0, <2>2 DEF RootLeaf, TypeOK, Verdict
  <2>3. CASE RootOpened
    BY <1>0, <2>3 DEF RootOpened, TypeOK
  <2>4. CASE FinishRoot
    <3>1. Top.result \in JobState
      BY <1>0, <2>4, TopType DEF FinishRoot, Finished, OutOfChildren, Result
    <3>2. AnswerOf(Top.result) \in Verdict
      BY <3>1 DEF AnswerOf, JobState, Verdict
    <3> QED
      BY <1>0, <2>4, <3>2 DEF FinishRoot, TypeOK
  <2>5. CASE PropagateSat
    BY <1>0, <2>5 DEF PropagateSat, TypeOK
  <2>6. CASE PropagateSimpleSat
    BY <1>0, <2>6 DEF PropagateSimpleSat, TypeOK
  <2>7. CASE PropagateUnsat
    <3>1. Top.node \in Nodes
      BY <1>0, <2>7, TopType DEF PropagateUnsat, Finished, OutOfChildren
    <3>2. store' \in SUBSET Nodes
      BY <1>0, <2>7, <3>1 DEF PropagateUnsat, TypeOK
    <3> QED
      BY <1>0, <2>7, <3>2 DEF PropagateUnsat, TypeOK
  <2>8. CASE PropagateUndefined
    BY <1>0, <2>8 DEF PropagateUndefined, TypeOK
  <2>9. CASE ChildCut
    BY <1>0, <2>9 DEF ChildCut, TypeOK
  <2>10. CASE ChildInconsistent
    BY <1>0, <2>10 DEF ChildInconsistent, SettleUnsat, TypeOK
  <2>11. CASE ChildMemoized
    BY <1>0, <2>11 DEF ChildMemoized, SettleUnsat, TypeOK
  <2>12. CASE ChildLeaf
    BY <1>0, <2>12 DEF ChildLeaf, TypeOK
  <2>13. CASE ChildOpened
    BY <1>0, <2>13 DEF ChildOpened, TypeOK
  <2>14. CASE Returned
    BY <1>0, <2>14 DEF Returned, vars, TypeOK
  <2>15. CASE UNCHANGED vars
    BY <1>0, <2>15 DEF vars, TypeOK
  <2> QED
    BY <2>1, <2>2, <2>3, <2>4, <2>5, <2>6, <2>7, <2>8, <2>9, <2>10, <2>11, <2>12, <2>13,
       <2>14, <2>15 DEF Next
\* The trace grows at the front by a node, or is emptied.
<1>2. trace' \in Seq(Nodes)
  <2>1. trace \in Seq(Nodes) /\ root \in Nodes
    BY <1>0, OptionsAssumption DEF TypeOK
  <2>2. \A n \in Nodes : <<n>> \o trace \in Seq(Nodes)
    BY <2>1
  <2>3. CASE trace' = trace
    BY <2>1, <2>3
  <2>4. CASE RootLeaf
    BY <2>1, <2>4 DEF RootLeaf
  <2>5. CASE FinishRoot \/ PropagateSat
    <3>1. Top.node \in Nodes
      BY <1>0, <2>5, TopType DEF FinishRoot, PropagateSat, Finished, OutOfChildren
    <3> QED
      BY <2>1, <2>2, <2>5, <3>1 DEF FinishRoot, PropagateSat
  <2>6. CASE PropagateSimpleSat
    BY <2>6, EmptyStack DEF PropagateSimpleSat
  <2>7. CASE ChildLeaf
    <3>1. Child \in Nodes
      BY <1>0, <2>7, TopType DEF ChildLeaf, WithinDepth, HasChild
    <3> QED
      BY <2>2, <2>7, <3>1 DEF ChildLeaf
  <2>8. \/ trace' = trace \/ RootLeaf \/ FinishRoot \/ PropagateSat \/ PropagateSimpleSat
        \/ ChildLeaf
    BY DEF Next, vars, RootRejected, RootOpened, PropagateUnsat, PropagateUndefined,
           ChildCut, ChildInconsistent, ChildMemoized, ChildOpened, Returned
  <2> QED
    BY <2>3, <2>4, <2>5, <2>6, <2>7, <2>8
\* Only an inconsistent child adds to the core.
<1>3. core' \in SUBSET Literal
  <2>1. CASE core' = core
    BY <1>0, <2>1 DEF TypeOK
  <2>2. CASE ChildInconsistent
    <3>1. HasChild /\ ~Consistent(CheckSet(Top.solver, Child))
      BY <2>2 DEF ChildInconsistent, WithinDepth, CheckPasses
    <3>2. CheckSet(Top.solver, Child) \in SUBSET Literal
      BY <1>0, <3>1, CheckSetType
    <3>3. PICK c \in Cores(CheckSet(Top.solver, Child)) : core' = core \cup c
      BY <2>2 DEF ChildInconsistent
    <3>4. c \in SUBSET Literal
      BY <3>2, <3>3, SolverAssumption
    <3> QED
      BY <1>0, <3>3, <3>4 DEF TypeOK
  <2>3. core' = core \/ ChildInconsistent
    BY DEF Next, vars, RootRejected, RootLeaf, RootOpened, FinishRoot, PropagateSat,
           PropagateSimpleSat, PropagateUnsat, PropagateUndefined, ChildCut, ChildMemoized,
           ChildLeaf, ChildOpened, Returned
  <2> QED
    BY <2>1, <2>2, <2>3
\* The stack and the solvers
<1>4. stack' \in Seq(Frame) /\ solvers' \in Seq(Seq(SUBSET Literal))
  <2>1. CASE RootRejected \/ RootLeaf \/ UNCHANGED vars
    BY <1>0, <2>1 DEF RootRejected, RootLeaf, vars, TypeOK
  <2>2. CASE RootOpened
    <3>1. root \in Nodes /\ Children(root) \in Seq(Nodes) /\ Literals(root) \in SUBSET Literal
      BY <1>0, OptionsAssumption, NodeAssumption DEF TypeOK, Literal
    <3>2. NewFrame(root, 0, 1) \in Frame
      BY <3>1 DEF NewFrame, Frame, Result
    <3>3. <<Literals(root)>> \in Seq(SUBSET Literal)
      BY <3>1
    <3> QED
      BY <2>2, <3>2, <3>3 DEF RootOpened
  <2>3. CASE FinishRoot
    BY <2>3, EmptyStack DEF FinishRoot
  <2>4. CASE Settles
    <3>1. PICK ch \in Seq(Nodes), r \in Result : Settle(ch, r)
      BY <2>4, SettlesWith
    <3>2. stack' \in Seq(Frame)
      BY <1>0, <2>4, <3>1, SettleShape DEF Settles
    <3> QED
      BY <1>0, <2>4, <3>2 DEF Settles, TypeOK
  <2>5. CASE Returns
    <3>1. PICK ch \in Seq(Nodes) : Return(ch)
      BY <2>5, ReturnsWith
    <3>2. stack' \in Seq(Frame)
      BY <1>0, <2>5, <3>1, ReturnShape DEF Returns
    <3>3. solvers' \in Seq(Seq(SUBSET Literal))
      BY <1>0, <2>5, PopShape DEF Returns
    <3> QED
      BY <3>2, <3>3
  <2>6. CASE ChildOpened
    BY <1>0, <2>6, OpenShape, OpenSolvers
  <2> QED
    BY <2>1, <2>2, <2>3, <2>4, <2>5, <2>6, NextSplit
<1> QED
  BY <1>1, <1>2, <1>3, <1>4 DEF TypeOK

\* The frame that is opened is on the same solver as the one below, or on a newer
\* one.
LEMMA OpenOrder ==
    ASSUME TypeOK, TypeOK', SolverOrder, ChildOpened
    PROVE  SolverOrder'
<1> DEFINE n == Len(stack)
           t == Len(solvers)
<1>1. /\ n \in Nat /\ n > 0 /\ Len(stack') = n + 1 /\ DOMAIN stack' = 1 .. n + 1
      /\ DOMAIN stack = 1 .. n /\ stack # <<>>
  BY OpenSpine DEF TypeOK
<1>2. \A i \in 1 .. n : stack'[i].solver = stack[i].solver
  BY OpenSpine
<1>3. t \in Nat /\ t >= 1 /\ Top.solver = t
  BY OpenSolvers DEF TypeOK
<1>4. stack'[n + 1].solver = Len(solvers')
  BY <1>3, OpenSpine, OpenSolvers
<1>5. Len(solvers') \in Nat /\ Len(solvers') >= t /\ DOMAIN solvers' = 1 .. Len(solvers')
  <2>1. Len(solvers') = IF NewInstant(Child) THEN t + 1 ELSE t
    BY OpenSolvers
  <2>2. DOMAIN solvers' = 1 .. Len(solvers')
    BY DEF TypeOK
  <2> QED
    BY <1>3, <2>1, <2>2
<1>6. \A i \in 1 .. n : stack[i].solver \in Nat /\ stack[i].solver >= 1 /\ stack[i].solver <= t
  <2>1. DOMAIN solvers = 1 .. t
    BY DEF TypeOK
  <2>2. \A i \in 1 .. n : stack[i].solver \in 1 .. t
    BY <1>1, <2>1 DEF SolverOrder
  <2> QED
    BY <2>2
<1>7. \A i \in 1 .. n + 1 : i \in 1 .. n \/ i = n + 1
  BY <1>1
<1>8. ASSUME NEW i \in 1 .. n + 1
      PROVE  stack'[i].solver \in DOMAIN solvers'
  <2>1. CASE i \in 1 .. n
    <3>1. stack'[i].solver = stack[i].solver
      BY <1>2, <2>1
    <3> QED
      BY <1>3, <1>5, <1>6, <2>1, <3>1
  <2>2. CASE i = n + 1
    BY <1>3, <1>4, <1>5, <2>2
  <2> QED
    BY <1>7, <2>1, <2>2
<1>9. ASSUME NEW i \in 1 .. n + 1, NEW j \in 1 .. n + 1, i <= j
      PROVE  stack'[i].solver <= stack'[j].solver
  <2>1. CASE j \in 1 .. n
    <3>1. i \in 1 .. n
      BY <1>1, <1>9, <2>1
    <3>2. stack[i].solver <= stack[j].solver
      BY <1>1, <1>9, <2>1, <3>1 DEF SolverOrder
    <3>3. stack'[i].solver = stack[i].solver /\ stack'[j].solver = stack[j].solver
      BY <1>2, <2>1, <3>1
    <3> QED
      BY <3>2, <3>3
  <2>2. CASE j = n + 1
    <3>1. stack'[j].solver = Len(solvers')
      BY <1>4, <2>2
    <3>2. stack'[i].solver \in DOMAIN solvers'
      BY <1>8
    <3> QED
      BY <1>5, <3>1, <3>2
  <2> QED
    BY <1>7, <2>1, <2>2
<1>10. Top'.solver = Len(solvers') /\ stack'[1].solver = 1
  <2>1. Top' = stack'[n + 1]
    BY <1>1 DEF Top
  <2>2. stack[1].solver = 1
    BY <1>1 DEF SolverOrder
  <2> QED
    BY <1>1, <1>2, <1>4, <2>1, <2>2
<1> QED
  BY <1>1, <1>8, <1>9, <1>10 DEF SolverOrder

\* A node whose check passed is consistent.
LEMMA PassedConsistent ==
    ASSUME TypeOK, SolverOrder, HasChild, CheckPasses(Top.solver, Child)
    PROVE  Consistent(Literals(Child))
<1>1. CheckSet(Top.solver, Child) \in SUBSET Literal /\ Literals(Child) \in SUBSET Literal
  BY CheckSetType
<1>2. Literals(Child) \subseteq CheckSet(Top.solver, Child)
  BY DEF CheckSet
<1>3. Consistent(CheckSet(Top.solver, Child))
  BY DEF CheckPasses
<1> QED
  BY <1>1, <1>2, <1>3, SolverAssumption

\* A child of an open node: its time, and the literals it inherits.
LEMMA ChildFacts ==
    ASSUME StructInv, HasChild
    PROVE  /\ Top.node \in Nodes /\ ~Leaf(Top.node) /\ Consistent(Literals(Top.node))
           /\ Child \in Nodes
           /\ IsChild(Child, Top.node)
           /\ Time(Top.node) \in Nat /\ Time(Child) \in Nat /\ Time(Child) >= Time(Top.node)
           /\ ~NewInstant(Child) => Literals(Top.node) \subseteq Literals(Child)
           /\ NewInstant(Child) => Literals(Child) = {}
           /\ Simple(Child) => ~Leaf(Child) /\ (Open(Top.node) => Open(Child))
<1>1. /\ Top.node \in Nodes /\ Child \in Nodes /\ Child = Top.children[1]
      /\ 1 \in DOMAIN Top.children /\ Len(stack) \in DOMAIN stack
  <2>1. /\ Top.node \in Nodes /\ Child \in Nodes /\ Child = Top.children[1]
        /\ Len(Top.children) \in Nat \ {0} /\ Top.children \in Seq(Nodes)
        /\ Len(stack) \in Nat \ {0}
    BY TopType DEF HasChild, StructInv
  <2> QED
    BY <2>1 DEF StructInv, TypeOK
<1>2. ~Leaf(Top.node) /\ Consistent(Literals(Top.node)) /\ IsChild(Child, Top.node)
  BY <1>1 DEF StructInv, BranchOK, Top
<1>3. PICK k \in DOMAIN Children(Top.node) : Child = Children(Top.node)[k]
  BY <1>2 DEF IsChild
<1>4. /\ Simple(Child) => ~Leaf(Child) /\ (Open(Top.node) => Open(Child))
      /\ Time(Child) >= Time(Top.node)
      /\ Time(Child) = Time(Top.node) => Literals(Top.node) \subseteq Literals(Child)
      /\ Time(Child) > Time(Top.node) => Literals(Child) = {}
  BY <1>1, <1>2, <1>3, DecomposeAssumption
<1>5. Time(Top.node) \in Nat /\ Time(Child) \in Nat
  BY <1>1, NodeAssumption
<1> QED
  BY <1>1, <1>2, <1>4, <1>5 DEF NewInstant

\* The frame that is opened continues the branch of the tableau.
LEMMA OpenBranch ==
    ASSUME StructInv, TypeOK', ChildOpened
    PROVE  BranchOK'
<1> DEFINE n == Len(stack)
<1>0. TypeOK /\ SolverOrder /\ BranchOK /\ HasChild
  BY DEF StructInv, ChildOpened, WithinDepth
<1>1. /\ n \in Nat /\ n > 0 /\ Len(stack') = n + 1 /\ DOMAIN stack' = 1 .. n + 1
      /\ DOMAIN stack = 1 .. n /\ stack # <<>> /\ Top = stack[n]
  BY <1>0, OpenSpine DEF TypeOK, Top
<1>2. /\ \A i \in 1 .. n : stack'[i].node = stack[i].node /\ stack'[i].solver = stack[i].solver
      /\ stack'[n + 1].node = Child
  BY <1>0, OpenSpine
<1>3. /\ IsChild(Child, Top.node)
      /\ ~NewInstant(Child) => Literals(Top.node) \subseteq Literals(Child)
  BY <1>0, ChildFacts
<1>4. \A i \in 1 .. n + 1 : i \in 1 .. n \/ i = n + 1
  BY <1>1
<1>5. stack'[1].node = root'
  <2>1. root' = root
    BY DEF ChildOpened
  <2> QED
    BY <1>0, <1>1, <1>2, <2>1 DEF BranchOK
<1>6. ~Leaf(Child) /\ Consistent(Literals(Child))
  BY <1>0, PassedConsistent DEF ChildOpened
\* The children the frames still have
<1>7. ASSUME NEW i \in 1 .. n + 1
      PROVE  \A k \in DOMAIN stack'[i].children : IsChild(stack'[i].children[k], stack'[i].node)
  <2>1. CASE i \in 1 .. n - 1
    <3>1. stack'[i] = stack[i] /\ i \in 1 .. n
      BY <1>0, <1>1, <2>1, OpenShape
    <3> QED
      BY <1>0, <1>1, <3>1 DEF BranchOK
  <2>2. CASE i = n
    <3>1. stack'[n] = [Top EXCEPT !.children = Siblings] /\ Top \in Frame
      BY <1>0, <1>1, OpenShape, TopType
    <3>2. stack'[n].children = Siblings /\ stack'[n].node = Top.node
      BY <3>1 DEF Frame
    <3>3. \A k \in DOMAIN Siblings :
            k + 1 \in DOMAIN Top.children /\ Siblings[k] = Top.children[k + 1]
      BY <1>0, TopType DEF HasChild
    <3>4. \A k \in DOMAIN Top.children : IsChild(Top.children[k], Top.node)
      BY <1>0, <1>1 DEF BranchOK
    <3> QED
      BY <2>2, <3>2, <3>3, <3>4
  <2>3. CASE i = n + 1
    <3>1. stack'[i].children = Children(Child) /\ stack'[i].node = Child
      BY <1>0, <2>3, OpenShape DEF NewFrame
    <3> QED
      BY <3>1 DEF IsChild
  <2>4. i \in 1 .. n - 1 \/ i = n \/ i = n + 1
    <3>1. n \in Nat /\ n > 0
      BY <1>1
    <3> HIDE DEF n
    <3> QED
      BY <3>1
  <2> QED
    BY <2>1, <2>2, <2>3, <2>4
<1>8. ASSUME NEW i \in 1 .. n + 1
      PROVE  /\ ~Leaf(stack'[i].node) /\ Consistent(Literals(stack'[i].node))
             /\ i > 1 => IsChild(stack'[i].node, stack'[i - 1].node)
  <2>1. CASE i \in 1 .. n
    <3>1. i > 1 => i - 1 \in 1 .. n
      BY <1>1, <2>1
    <3> QED
      BY <1>0, <1>1, <1>2, <2>1, <3>1 DEF BranchOK
  <2>2. CASE i = n + 1
    <3>1. i - 1 = n /\ n \in 1 .. n
      BY <1>1, <2>2
    <3> QED
      BY <1>1, <1>2, <1>3, <1>6, <2>2, <3>1
  <2> QED
    BY <1>4, <2>1, <2>2
\* Literals are inherited along the frames of one instant.
<1>9. ASSUME NEW i \in 1 .. n + 1, NEW j \in 1 .. n + 1, i <= j,
             stack'[i].solver = stack'[j].solver
      PROVE  Literals(stack'[i].node) \subseteq Literals(stack'[j].node)
  <2>1. CASE j \in 1 .. n
    <3>1. i \in 1 .. n
      BY <1>1, <1>9, <2>1
    <3> QED
      BY <1>0, <1>1, <1>2, <1>9, <2>1, <3>1 DEF BranchOK
  <2>2. CASE i = n + 1
    <3>1. i = j
      BY <1>1, <1>9, <2>2
    <3> QED
      BY <3>1
  <2>3. CASE i \in 1 .. n /\ j = n + 1
    <3>1. stack[i].solver <= stack[n].solver /\ stack[i].solver \in Nat /\ i <= n
      <4>1. i \in DOMAIN stack /\ n \in DOMAIN stack /\ i <= n
        BY <1>1, <2>3
      <4>2. stack[i] \in Frame
        BY <1>0, <4>1 DEF TypeOK
      <4>3. stack[i].solver \in Nat
        BY <4>2 DEF Frame
      <4> QED
        BY <1>0, <4>1, <4>3 DEF SolverOrder
    <3>2. Top.solver = Len(solvers) /\ Len(solvers) \in Nat
      BY <1>0, OpenSolvers DEF TypeOK
    <3>3. stack'[n + 1].solver = IF NewInstant(Child) THEN Len(solvers) + 1 ELSE Top.solver
      BY <1>0, OpenSpine
    <3>4. stack'[i].solver = stack[i].solver
      BY <1>2, <2>3
    <3>5. ~NewInstant(Child) /\ stack[i].solver = stack[n].solver
      BY <1>1, <1>9, <2>3, <3>1, <3>2, <3>3, <3>4
    <3>6. Literals(stack[i].node) \subseteq Literals(stack[n].node)
      <4>1. i \in DOMAIN stack /\ n \in DOMAIN stack
        BY <1>1, <2>3
      <4> QED
        BY <1>0, <3>1, <3>5, <4>1 DEF BranchOK
    <3> QED
      BY <1>1, <1>2, <1>3, <2>3, <3>5, <3>6
  <2> QED
    BY <1>4, <2>1, <2>2, <2>3
<1> QED
  BY <1>1, <1>5, <1>7, <1>8, <1>9 DEF BranchOK

\* One step preserves the structural invariant.
LEMMA StructStep ==
    ASSUME StructInv, [Next]_vars
    PROVE  StructInv'
<1>0. TypeOK /\ SolverOrder /\ SolverMirrorsBranch /\ Mirrors /\ BranchOK
  BY MirrorsForm DEF StructInv
<1>1. TypeOK'
  BY TypeStep
<1>m. Mirrors' => SolverMirrorsBranch'
  <2>1. (TypeOK => (SolverMirrorsBranch <=> Mirrors))'
    BY MirrorsForm, PTL
  <2> QED
    BY <1>1, <2>1
<1>2. CASE UNCHANGED <<root, stack, solvers>>
  <2>1. stack' = stack /\ solvers' = solvers /\ root' = root
    BY <1>2
  <2>2. SolverOrder'
    BY <1>0, <2>1 DEF SolverOrder, Top
  <2>3. BranchOK'
    BY <1>0, <2>1 DEF BranchOK
  <2>4. \A i : CheckedOn(i)' = CheckedOn(i)
    BY <2>1 DEF CheckedOn
  <2>5. Mirrors'
    BY <1>0, <2>1, <2>4 DEF Mirrors, ScopesFrom
  <2> QED
    BY <1>1, <1>m, <2>2, <2>3, <2>5 DEF StructInv
<1>3. CASE RootRejected \/ RootLeaf
  BY <1>2, <1>3 DEF RootRejected, RootLeaf
<1>4. CASE FinishRoot
  <2>1. stack' = <<>> /\ solvers' = <<>>
    BY <1>4 DEF FinishRoot
  <2>2. SolverOrder' /\ BranchOK'
    BY <2>1 DEF SolverOrder, BranchOK
  <2>3. Mirrors'
    BY <2>1 DEF Mirrors
  <2> QED
    BY <1>1, <1>m, <2>2, <2>3 DEF StructInv
<1>5. CASE RootOpened
  <2>1. stack' = <<NewFrame(root, 0, 1)>> /\ solvers' = <<  <<Literals(root)>>  >> /\ root' = root
    BY <1>5 DEF RootOpened
  <2>2. /\ Len(stack') = 1 /\ DOMAIN stack' = 1 .. 1
        /\ stack'[1].node = root /\ stack'[1].children = Children(root) /\ stack'[1].solver = 1
        /\ Len(solvers') = 1 /\ DOMAIN solvers' = 1 .. 1 /\ solvers'[1] = <<Literals(root)>>
    BY <2>1 DEF NewFrame
  <2>3. ~Leaf(root) /\ Consistent(Literals(root))
    BY <1>5 DEF RootOpened
  <2>4. SolverOrder'
    BY <2>2 DEF SolverOrder, Top
  <2>5. BranchOK'
    BY <2>1, <2>2, <2>3 DEF BranchOK, IsChild
  <2>6. ScopesFrom(1, 0)'
    <3>1. CheckedOn(1)' = 1
      BY DEF CheckedOn
    <3>2. Len(solvers'[1]) = 1 /\ solvers'[1][1] = Literals(root)
      BY <2>2
    <3> QED
      BY <2>2, <3>1, <3>2 DEF ScopesFrom
  <2>7. Mirrors'
    BY <2>2, <2>6 DEF Mirrors
  <2> QED
    BY <1>1, <1>m, <2>4, <2>5, <2>7 DEF StructInv
<1>6. CASE Settles
  <2>1. PICK ch \in Seq(Nodes), r \in Result :
            Settle(ch, r) /\ \A k \in DOMAIN ch : IsChild(ch[k], Top.node)
    BY <1>6, SettlesWith
  <2>2. HasChild /\ UNCHANGED <<root, solvers>>
    BY <1>6 DEF Settles
  <2>3. SameSpine(Len(stack))
    BY <1>0, <2>1, <2>2, SettleSpine
  <2>4. /\ Len(stack) \in Nat \ {0} /\ Top = stack[Len(stack)] /\ Top \in Frame
        /\ stack # <<>>
    BY <1>0, <2>2, TopType DEF HasChild, Top
  <2>5. Len(solvers') = stack[Len(stack)].solver
    BY <1>0, <2>2, <2>4 DEF SolverOrder
  <2>6. SolverOrder'
    BY <1>0, <1>1, <2>3, <2>5, SpineOrder
  <2>7. \A i \in 1 .. Len(stack) : \A k \in DOMAIN stack'[i].children :
            IsChild(stack'[i].children[k], stack[i].node)
    <3>1. /\ \A i \in 1 .. Len(stack) - 1 : stack'[i] = stack[i]
          /\ stack'[Len(stack)] = [Top EXCEPT !.children = ch, !.result = r]
      BY <1>0, <2>1, <2>2, SettleShape
    <3>2. stack'[Len(stack)].children = ch
      BY <2>4, <3>1 DEF Frame
    <3>3. \A i \in 1 .. Len(stack) : i \in 1 .. Len(stack) - 1 \/ i = Len(stack)
      BY <2>4
    <3>4. DOMAIN stack = 1 .. Len(stack)
      BY <1>0 DEF TypeOK
    <3>5. ASSUME NEW i \in 1 .. Len(stack) - 1
          PROVE  \A k \in DOMAIN stack'[i].children :
                    IsChild(stack'[i].children[k], stack[i].node)
      <4>1. i \in DOMAIN stack /\ stack'[i] = stack[i]
        BY <2>4, <3>1, <3>4
      <4> QED
        BY <1>0, <4>1 DEF BranchOK
    <3> QED
      BY <2>1, <2>4, <3>2, <3>3, <3>5
  <2>8. BranchOK'
    BY <1>0, <1>1, <2>2, <2>3, <2>7, SpineBranch
  <2>9. Mirrors'
    BY <1>0, <2>2, <2>3, SettleMirrors
  <2> QED
    BY <1>1, <1>m, <2>6, <2>8, <2>9 DEF StructInv
<1>7. CASE Returns
  <2>1. PICK ch \in Seq(Nodes) : Return(ch) /\ \A k \in DOMAIN ch : IsChild(ch[k], Parent.node)
    BY <1>7, ReturnsWith
  <2>2. Finished /\ Len(stack) > 1 /\ solvers' = PopParentScope /\ root' = root
    BY <1>7 DEF Returns
  <2>3. SameSpine(Len(stack) - 1)
    BY <1>0, <2>1, <2>2, ReturnSpine
  <2>4. Len(stack) \in Nat /\ Parent = stack[Len(stack) - 1]
    BY <1>0 DEF TypeOK, Parent
  <2>5. Len(solvers') = stack[Len(stack) - 1].solver
    BY <1>0, <2>2, <2>4, PopShape
  <2>6. SolverOrder'
    BY <1>0, <1>1, <2>3, <2>5, SpineOrder
  <2>7. \A i \in 1 .. Len(stack) - 1 : \A k \in DOMAIN stack'[i].children :
            IsChild(stack'[i].children[k], stack[i].node)
    <3>1. /\ \A i \in 1 .. Len(stack) - 2 : stack'[i] = stack[i]
          /\ Parent \in Frame
          /\ stack'[Len(stack) - 1] =
                [Parent EXCEPT !.children = ch,
                     !.result = MergeResults(Parent.result, Top.result, Simple(Top.node))]
      BY <1>0, <2>1, <2>2, ReturnShape
    <3>2. stack'[Len(stack) - 1].children = ch
      BY <3>1 DEF Frame
    <3>3. \A i \in 1 .. Len(stack) - 1 : i \in 1 .. Len(stack) - 2 \/ i = Len(stack) - 1
      BY <2>4
    <3>4. DOMAIN stack = 1 .. Len(stack)
      BY <1>0 DEF TypeOK
    <3>5. ASSUME NEW i \in 1 .. Len(stack) - 2
          PROVE  \A k \in DOMAIN stack'[i].children :
                    IsChild(stack'[i].children[k], stack[i].node)
      <4>1. i \in DOMAIN stack /\ stack'[i] = stack[i]
        BY <2>4, <3>1, <3>4
      <4> QED
        BY <1>0, <4>1 DEF BranchOK
    <3> QED
      BY <2>1, <2>4, <3>2, <3>3, <3>5
  <2>8. BranchOK'
    BY <1>0, <1>1, <2>2, <2>3, <2>7, SpineBranch
  <2>9. Mirrors'
    BY <1>0, <2>2, <2>3, PopMirrors
  <2> QED
    BY <1>1, <1>m, <2>6, <2>8, <2>9 DEF StructInv
<1>8. CASE ChildOpened
  BY <1>0, <1>1, <1>8, <1>m, OpenOrder, OpenBranch, OpenMirrors DEF StructInv
<1>9. CASE UNCHANGED vars
  BY <1>2, <1>9 DEF vars
<1> QED
  BY <1>3, <1>4, <1>5, <1>6, <1>7, <1>8, <1>9, NextSplit

\* The structural invariant holds initially.
LEMMA StructInit == ASSUME Init PROVE StructInv
<1>1. TypeOK
  BY EmptyStack DEF Init, TypeOK, Verdict
<1>2. SolverOrder /\ BranchOK /\ SolverMirrorsBranch
  BY DEF Init, SolverOrder, BranchOK, SolverMirrorsBranch
<1> QED
  BY <1>1, <1>2 DEF StructInv

\* The structural invariant holds in every reachable state.
LEMMA Structure == Spec => []StructInv
BY StructInit, StructStep, PTL DEF Spec

\* Type correctness of the driver: frames, solver scopes, store and trace keep
\* their shapes through every push, pop, return and cut of tableau_loop.
THEOREM TypeCorrect == Spec => []TypeOK
<1>1. StructInv => TypeOK
  BY DEF StructInv
<1> QED
  BY <1>1, Structure, PTL

\* push and pop of tableau_loop stay paired for every tableau and every depth
\* limit: a solver holds the literals of the current branch and nothing else.
THEOREM ScopesPaired == Spec => []SolverMirrorsBranch
<1>1. StructInv => SolverMirrorsBranch
  BY DEF StructInv
<1> QED
  BY <1>1, Structure, PTL

----------------------------------------------------------------------------
(* Soundness of "sat": the results of the frames *)

\* Splitting an interval at its upper end
LEMMA UpperEnd ==
    ASSUME NEW n \in Nat
    PROVE  /\ \A i \in 1 .. n : i = n \/ i \in 1 .. n - 1
           /\ \A i \in 1 .. n - 1 : i \in 1 .. n /\ (i = n - 1 \/ i \in 1 .. n - 2)
           /\ \A i \in 1 .. n + 1 : i = n + 1 \/ i = n \/ i \in 1 .. n - 1
OBVIOUS

\* The fields of all frames after a child was settled.
LEMMA SettleFields ==
    ASSUME TypeOK, HasChild, NEW ch \in Seq(Nodes), NEW r \in Result, Settle(ch, r)
    PROVE  /\ Len(stack) \in Nat \ {0} /\ Top = stack[Len(stack)]
           /\ DOMAIN stack = 1 .. Len(stack) /\ DOMAIN stack' = 1 .. Len(stack)
           /\ \A i \in 1 .. Len(stack) - 1 : stack'[i] = stack[i]
           /\ stack'[Len(stack)].node = Top.node
           /\ stack'[Len(stack)].children = ch
           /\ stack'[Len(stack)].result = r
<1>1. Len(stack) \in Nat \ {0} /\ Top \in Frame
  BY TopType DEF HasChild
<1>2. /\ stack' \in Seq(Frame) /\ Len(stack') = Len(stack)
      /\ \A i \in 1 .. Len(stack) - 1 : stack'[i] = stack[i]
      /\ stack'[Len(stack)] = [Top EXCEPT !.children = ch, !.result = r]
  BY SettleShape
<1>3. /\ stack'[Len(stack)].node = Top.node
      /\ stack'[Len(stack)].children = ch
      /\ stack'[Len(stack)].result = r
  BY <1>1, <1>2 DEF Frame
<1> QED
  BY <1>1, <1>2, <1>3 DEF TypeOK, Top

\* Where a result returned to the parent comes from
MergedFrom(merged, previous, current, implies) ==
    /\ merged = "sat" => previous = "sat" \/ (current = "sat" /\ ~implies)
    /\ merged = "unsat" => previous = "unsat" \/ current = "unsat"
    /\ merged = "undefined" => previous = "undefined" \/ current = "undefined"
    /\ merged = None => previous = None /\ current = "sat" /\ implies

\* The fields of all frames after a result was returned.
LEMMA ReturnFields ==
    ASSUME TypeOK, Finished, Len(stack) > 1, NEW ch \in Seq(Nodes), Return(ch)
    PROVE  /\ Len(stack) \in Nat /\ Top = stack[Len(stack)] /\ Parent = stack[Len(stack) - 1]
           /\ DOMAIN stack = 1 .. Len(stack) /\ DOMAIN stack' = 1 .. Len(stack) - 1
           /\ \A i \in 1 .. Len(stack) - 2 : stack'[i] = stack[i]
           /\ stack'[Len(stack) - 1].node = Parent.node
           /\ stack'[Len(stack) - 1].children = ch
           /\ stack'[Len(stack) - 1].result =
                MergeResults(Parent.result, Top.result, Simple(Top.node))
           /\ MergedFrom(stack'[Len(stack) - 1].result, Parent.result, Top.result, Simple(Top.node))
           /\ Parent.result \in Result /\ Top.result \in JobState
           /\ Simple(Top.node) \in BOOLEAN
           /\ Top.node \in Nodes /\ Parent.node \in Nodes
<1>1. /\ stack' \in Seq(Frame) /\ Len(stack') = Len(stack) - 1
      /\ \A i \in 1 .. Len(stack) - 2 : stack'[i] = stack[i]
      /\ Parent \in Frame
      /\ stack'[Len(stack) - 1] =
           [Parent EXCEPT !.children = ch,
                !.result = MergeResults(Parent.result, Top.result, Simple(Top.node))]
  BY ReturnShape
<1>2. /\ stack'[Len(stack) - 1].node = Parent.node
      /\ stack'[Len(stack) - 1].children = ch
      /\ stack'[Len(stack) - 1].result =
           MergeResults(Parent.result, Top.result, Simple(Top.node))
      /\ Parent.result \in Result /\ Parent.node \in Nodes
  BY <1>1 DEF Frame
<1>3. Len(stack) \in Nat /\ Len(stack) > 0
  BY DEF TypeOK
<1>4. Top.result \in Result /\ Top.node \in Nodes /\ Simple(Top.node) \in BOOLEAN
  BY <1>3, TopType
<1>5. Top.result \in JobState
  BY <1>4 DEF Finished, Result
<1>6. /\ Len(stack) \in Nat /\ Top = stack[Len(stack)] /\ Parent = stack[Len(stack) - 1]
      /\ DOMAIN stack = 1 .. Len(stack)
  BY DEF TypeOK, Top, Parent
<1>7. DOMAIN stack' = 1 .. Len(stack) - 1
  BY <1>1
<1>8. MergedFrom(stack'[Len(stack) - 1].result, Parent.result, Top.result, Simple(Top.node))
  BY <1>2, <1>4, <1>5, MergeType DEF MergedFrom
<1> QED
  BY <1>1, <1>2, <1>4, <1>5, <1>6, <1>7, <1>8

\* The fields of all frames after a child was opened.
LEMMA OpenFields ==
    ASSUME TypeOK, ChildOpened
    PROVE  /\ Len(stack) \in Nat \ {0} /\ Top = stack[Len(stack)]
           /\ DOMAIN stack = 1 .. Len(stack) /\ DOMAIN stack' = 1 .. Len(stack) + 1
           /\ \A i \in 1 .. Len(stack) - 1 : stack'[i] = stack[i]
           /\ stack'[Len(stack)].node = Top.node
           /\ stack'[Len(stack)].children = Siblings
           /\ stack'[Len(stack)].result = Top.result
           /\ stack'[Len(stack) + 1].node = Child
           /\ stack'[Len(stack) + 1].children = Children(Child)
           /\ stack'[Len(stack) + 1].result = None
<1>1. Len(stack) \in Nat \ {0} /\ Top \in Frame
  BY TopType DEF ChildOpened, WithinDepth, HasChild
<1>2. /\ stack' \in Seq(Frame) /\ Len(stack') = Len(stack) + 1
      /\ \A i \in 1 .. Len(stack) - 1 : stack'[i] = stack[i]
      /\ stack'[Len(stack)] = [Top EXCEPT !.children = Siblings]
      /\ stack'[Len(stack) + 1] =
                NewFrame(Child, Top.depth + 1,
                         IF NewInstant(Child) THEN Len(solvers) + 1 ELSE Top.solver)
  BY OpenShape
<1>3. /\ stack'[Len(stack)].node = Top.node
      /\ stack'[Len(stack)].children = Siblings
      /\ stack'[Len(stack)].result = Top.result
  BY <1>1, <1>2 DEF Frame
<1>4. /\ stack'[Len(stack) + 1].node = Child
      /\ stack'[Len(stack) + 1].children = Children(Child)
      /\ stack'[Len(stack) + 1].result = None
  BY <1>2 DEF NewFrame
<1> QED
  BY <1>1, <1>2, <1>3, <1>4 DEF TypeOK, Top

\* A node with an open full child is open.
LEMMA FullChildModel ==
    ASSUME NEW m \in Nodes, ~Leaf(m), Consistent(Literals(m)), NEW c, IsChild(c, m),
           ~Simple(c), Open(c)
    PROVE  Open(m)
<1>1. PICK k \in DOMAIN Children(m) : c = Children(m)[k]
  BY DEF IsChild
<1> QED
  BY <1>1, DecomposeAssumption

\* One step preserves "a frame that is sat is open", and so does the answer.
LEMMA SatStep ==
    ASSUME StructInv, FrameSat, SatSound, [Next]_vars
    PROVE  FrameSat' /\ SatSound'
<1>0. TypeOK /\ BranchOK /\ SolverOrder
  BY DEF StructInv
<1> DEFINE n == Len(stack)
<1>1. CASE UNCHANGED vars
  BY <1>1 DEF vars, FrameSat, SatSound
<1>2. CASE RootRejected
  BY <1>2 DEF RootRejected, FrameSat, SatSound
<1>3. CASE RootLeaf
  <2>1. root \in Nodes
    BY <1>0, OptionsAssumption DEF TypeOK
  <2>2. Open(root)
    BY <1>3, <2>1, DecomposeAssumption DEF RootLeaf
  <2> QED
    BY <1>3, <2>2 DEF RootLeaf, FrameSat, SatSound
<1>4. CASE RootOpened
  <2>1. /\ stack' = <<NewFrame(root, 0, 1)>> /\ verdict' = verdict /\ root' = root
    BY <1>4 DEF RootOpened
  <2>2. DOMAIN stack' = 1 .. 1 /\ stack'[1].result = None
    BY <2>1 DEF NewFrame
  <2>3. FrameSat'
    BY <2>2 DEF FrameSat, None
  <2> QED
    BY <2>1, <2>3 DEF SatSound
<1>5. CASE FinishRoot
  <2>1. stack' = <<>> /\ root' = root /\ verdict' = AnswerOf(Top.result) /\ n = 1 /\ Finished
    BY <1>5 DEF FinishRoot
  <2>2. Top.result \in JobState /\ Top = stack[1] /\ 1 \in DOMAIN stack
    <3>1. n > 0
      BY <2>1
    <3>2. Top.result \in Result
      BY <1>0, <3>1, TopType
    <3>3. Top = stack[1] /\ 1 \in DOMAIN stack
      BY <1>0, <2>1 DEF Top, TypeOK
    <3> QED
      BY <2>1, <3>2, <3>3 DEF Finished, Result
  <2>3. verdict' = "sat" => Top.result = "sat"
    BY <2>1, <2>2 DEF AnswerOf, JobState
  <2>4. Top.node = root
    BY <1>0, <2>2 DEF BranchOK
  <2>5. SatSound'
    BY <2>1, <2>2, <2>3, <2>4 DEF FrameSat, SatSound
  <2> QED
    BY <2>1, <2>5 DEF FrameSat
<1>6. CASE Settles
  <2>1. verdict' = verdict /\ root' = root /\ HasChild
    BY <1>6 DEF Settles
  <2>2. PICK ch \in Seq(Nodes), r \in Result :
            Settle(ch, r) /\ (r = "sat" => Open(Top.node))
    <3>1. Siblings \in Seq(Nodes) /\ Top.result \in Result /\ <<>> \in Seq(Nodes)
          /\ {"undefined", "unsat", "sat"} \subseteq Result
      BY <1>0, <2>1, TopType, EmptyStack DEF HasChild, Result, JobState
    <3>2. Top.result = "sat" => Open(Top.node)
      <4>1. Len(stack) \in DOMAIN stack
        BY <1>0, <2>1 DEF HasChild, TypeOK
      <4> QED
        BY <4>1 DEF FrameSat, Top
    <3>3. CASE ChildLeaf
      <4>1. ~Simple(Child) => Open(Top.node)
        <5>1. Consistent(Literals(Child))
          BY <1>0, <2>1, <3>3, PassedConsistent DEF ChildLeaf
        <5>2. /\ Top.node \in Nodes /\ ~Leaf(Top.node) /\ Consistent(Literals(Top.node))
              /\ Child \in Nodes /\ IsChild(Child, Top.node)
          BY <2>1, ChildFacts
        <5>3. Open(Child)
          BY <3>3, <5>1, <5>2, DecomposeAssumption DEF ChildLeaf
        <5> QED
          BY <5>2, <5>3, FullChildModel
      <4>2. CASE Simple(Child)
        <5>1. Settle(Siblings, Top.result)
          BY <3>3, <4>2 DEF ChildLeaf
        <5> QED
          BY <3>1, <3>2, <5>1
      <4>3. CASE ~Simple(Child)
        <5>1. Settle(<<>>, "sat")
          BY <3>3, <4>3 DEF ChildLeaf
        <5> QED
          BY <3>1, <4>1, <4>3, <5>1
      <4> QED
        BY <4>2, <4>3
    <3>4. CASE ChildCut
      BY <3>1, <3>4 DEF ChildCut
    <3>5. CASE SettleUnsat
      BY <3>1, <3>5 DEF SettleUnsat
    <3>6. ChildLeaf \/ ChildCut \/ SettleUnsat
      BY <1>6 DEF Settles, ChildInconsistent, ChildMemoized
    <3> QED
      BY <3>3, <3>4, <3>5, <3>6
  <2>3. /\ n \in Nat \ {0} /\ DOMAIN stack = 1 .. n /\ DOMAIN stack' = 1 .. n
        /\ \A i \in 1 .. n - 1 : stack'[i] = stack[i]
        /\ stack'[n].node = Top.node /\ stack'[n].result = r
    BY <1>0, <2>1, <2>2, SettleFields
  <2>4. ASSUME NEW i \in 1 .. n, stack'[i].result = "sat"
        PROVE  Open(stack'[i].node)
    <3>1. CASE i = n
      BY <2>2, <2>3, <2>4, <3>1
    <3>2. CASE i # n
      <4>1. stack'[i] = stack[i] /\ i \in DOMAIN stack
        BY <2>3, <3>2, UpperEnd
      <4> QED
        BY <2>4, <4>1 DEF FrameSat
    <3> QED
      BY <3>1, <3>2
  <2>5. FrameSat'
    BY <2>3, <2>4 DEF FrameSat
  <2> QED
    BY <2>1, <2>5 DEF SatSound
<1>7. CASE Returns
  <2>1. verdict' = verdict /\ root' = root /\ Finished /\ n > 1
    BY <1>7 DEF Returns
  <2>2. PICK ch \in Seq(Nodes) : Return(ch)
    BY <1>7, ReturnsWith
  <2>3. /\ n \in Nat /\ DOMAIN stack = 1 .. n /\ DOMAIN stack' = 1 .. n - 1
        /\ \A i \in 1 .. n - 2 : stack'[i] = stack[i]
        /\ Top = stack[n] /\ Parent = stack[n - 1]
        /\ stack'[n - 1].node = Parent.node
        /\ MergedFrom(stack'[n - 1].result, Parent.result, Top.result, Simple(Top.node))
        /\ Parent.result \in Result /\ Top.result \in JobState /\ Simple(Top.node) \in BOOLEAN
        /\ Top.node \in Nodes /\ Parent.node \in Nodes
    BY <1>0, <2>1, <2>2, ReturnFields
  <2>4. n - 1 \in DOMAIN stack /\ n \in DOMAIN stack
    BY <2>1, <2>3
  <2>5. stack'[n - 1].result = "sat" => Open(Parent.node)
    <3>1. stack'[n - 1].result = "sat" =>
            Parent.result = "sat" \/ (Top.result = "sat" /\ ~Simple(Top.node))
      BY <2>3 DEF MergedFrom
    <3>2. Parent.result = "sat" => Open(Parent.node)
      BY <2>3, <2>4 DEF FrameSat
    <3>3. Top.result = "sat" => Open(Top.node)
      BY <2>3, <2>4 DEF FrameSat
    <3>4. ~Leaf(Parent.node) /\ Consistent(Literals(Parent.node)) /\ IsChild(Top.node, Parent.node)
      BY <1>0, <2>1, <2>3, <2>4 DEF BranchOK
    <3> QED
      BY <2>3, <3>1, <3>2, <3>3, <3>4, FullChildModel
  <2>6. ASSUME NEW i \in 1 .. n - 1, stack'[i].result = "sat"
        PROVE  Open(stack'[i].node)
    <3>1. CASE i = n - 1
      BY <2>3, <2>5, <2>6, <3>1
    <3>2. CASE i # n - 1
      <4>1. stack'[i] = stack[i] /\ i \in DOMAIN stack
        BY <2>3, <3>2, UpperEnd
      <4> QED
        BY <2>6, <4>1 DEF FrameSat
    <3> QED
      BY <3>1, <3>2
  <2>7. FrameSat'
    BY <2>3, <2>6 DEF FrameSat
  <2> QED
    BY <2>1, <2>7 DEF SatSound
<1>8. CASE ChildOpened
  <2>1. verdict' = verdict /\ root' = root
    BY <1>8 DEF ChildOpened
  <2>2. /\ n \in Nat \ {0} /\ DOMAIN stack = 1 .. n /\ DOMAIN stack' = 1 .. n + 1
        /\ Top = stack[n]
        /\ \A i \in 1 .. n - 1 : stack'[i] = stack[i]
        /\ stack'[n].node = Top.node /\ stack'[n].result = Top.result
        /\ stack'[n + 1].result = None
    BY <1>0, <1>8, OpenFields
  <2>3. ASSUME NEW i \in 1 .. n + 1, stack'[i].result = "sat"
        PROVE  Open(stack'[i].node)
    <3>1. CASE i = n
      BY <2>2, <2>3, <3>1 DEF FrameSat
    <3>2. CASE i = n + 1
      BY <2>2, <2>3, <3>2 DEF None
    <3>3. CASE i # n /\ i # n + 1
      <4>1. stack'[i] = stack[i] /\ i \in DOMAIN stack
        BY <2>2, <3>3, UpperEnd
      <4> QED
        BY <2>3, <4>1 DEF FrameSat
    <3> QED
      BY <3>1, <3>2, <3>3
  <2>4. FrameSat'
    BY <2>2, <2>3 DEF FrameSat
  <2> QED
    BY <2>1, <2>4 DEF SatSound
<1> QED
  BY <1>1, <1>2, <1>3, <1>4, <1>5, <1>6, <1>7, <1>8, NextSplit

\* A "sat" answer of the driver is right: for every tableau that meets the
\* assumptions, every depth limit, and every store, sound or not, solve_root
\* returns Some(true) only for a root from which an accepted branch leads.
THEOREM SatCorrect == Spec => []SatSound
<1>1. Init => FrameSat /\ SatSound
  BY DEF Init, FrameSat, SatSound
<1>2. StructInv /\ FrameSat /\ SatSound /\ [Next]_vars => FrameSat' /\ SatSound'
  BY SatStep
<1> QED
  BY <1>1, <1>2, Structure, PTL DEF Spec

----------------------------------------------------------------------------
(* A frame that runs out of children has a result. *)

\* The last of the remaining children is the last one that decompose returned.
LEMMA LastSibling ==
    ASSUME StructInv, LastChild, HasChild
    PROVE  Siblings # <<>> => ~Simple(Siblings[Len(Siblings)])
<1>1. /\ Len(Top.children) \in Nat \ {0} /\ Len(Siblings) = Len(Top.children) - 1
      /\ \A k \in DOMAIN Siblings : Siblings[k] = Top.children[k + 1]
      /\ Siblings \in Seq(Nodes) /\ Top.children # <<>>
  BY TopType DEF StructInv, HasChild
<1>2. ~Simple(Top.children[Len(Top.children)])
  <2>1. Len(stack) \in DOMAIN stack
    BY DEF HasChild, StructInv, TypeOK
  <2> QED
    BY <1>1, <2>1 DEF LastChild, Top
<1>3. ASSUME Siblings # <<>>
      PROVE  Siblings[Len(Siblings)] = Top.children[Len(Top.children)]
  <2>1. Len(Siblings) \in DOMAIN Siblings
    BY <1>1, <1>3
  <2>2. Len(Siblings) + 1 = Len(Top.children)
    BY <1>1
  <2> QED
    BY <1>1, <2>1, <2>2
<1> QED
  BY <1>2, <1>3

\* The only child left is a full one.
LEMMA OnlyChild ==
    ASSUME StructInv, LastChild, HasChild, Siblings = <<>>
    PROVE  ~Simple(Child)
<1>1. /\ Len(Top.children) \in Nat \ {0} /\ Len(Siblings) = Len(Top.children) - 1
      /\ Child = Top.children[1] /\ Top.children # <<>>
  BY TopType DEF StructInv, HasChild
<1>2. Len(Top.children) = 1
  <2>1. Len(Siblings) = 0
    OBVIOUS
  <2> QED
    BY <1>1, <2>1
<1>3. Len(stack) \in DOMAIN stack
  BY DEF HasChild, StructInv, TypeOK
<1> QED
  BY <1>1, <1>2, <1>3 DEF LastChild, Top

\* Settling a child gives the frame a result: a simple child is never a leaf.
LEMMA SettlesResult ==
    ASSUME StructInv, Settles
    PROVE  \E ch \in Seq(Nodes), r \in JobState :
             Settle(ch, r) /\ (ch = Siblings \/ ch = <<>>)
<1>1. /\ Siblings \in Seq(Nodes) /\ <<>> \in Seq(Nodes)
      /\ {"undefined", "unsat", "sat"} \subseteq JobState
  BY TopType, EmptyStack DEF Settles, HasChild, StructInv, JobState
<1>2. CASE ChildCut \/ ChildInconsistent \/ ChildMemoized
  BY <1>1, <1>2 DEF ChildCut, ChildInconsistent, ChildMemoized, SettleUnsat
<1>3. CASE ChildLeaf
  <2>1. ~Simple(Child)
    <3>1. Leaf(Child)
      BY <1>3 DEF ChildLeaf
    <3>2. Simple(Child) => ~Leaf(Child)
      BY ChildFacts DEF Settles
    <3> QED
      BY <3>1, <3>2
  <2> QED
    BY <1>1, <1>3, <2>1 DEF ChildLeaf
<1> QED
  BY <1>2, <1>3 DEF Settles

\* One step preserves "a frame without a result still has its last, full child".
LEMMA LastChildStep ==
    ASSUME StructInv, LastChild, [Next]_vars
    PROVE  LastChild'
<1>0. TypeOK /\ BranchOK
  BY DEF StructInv
<1> DEFINE n == Len(stack)
<1>1. CASE UNCHANGED vars
  BY <1>1 DEF vars, LastChild
<1>2. CASE RootRejected \/ RootLeaf \/ FinishRoot
  BY <1>2 DEF RootRejected, RootLeaf, FinishRoot, NotStarted, LastChild
<1>3. CASE RootOpened
  <2>1. DOMAIN stack' = 1 .. 1 /\ stack'[1].children = Children(root) /\ ~Leaf(root)
    BY <1>3 DEF RootOpened, NewFrame
  <2>2. root \in Nodes
    BY <1>0, OptionsAssumption DEF TypeOK
  <2>3. Children(root) # <<>> /\ ~Simple(Children(root)[Len(Children(root))])
    BY <2>1, <2>2, DecomposeAssumption
  <2> QED
    BY <2>1, <2>3 DEF LastChild
<1>4. CASE Settles
  <2>1. PICK ch \in Seq(Nodes), r \in JobState : Settle(ch, r) /\ (ch = Siblings \/ ch = <<>>)
    BY <1>4, SettlesResult
  <2>2. HasChild
    BY <1>4 DEF Settles
  <2>3. /\ n \in Nat \ {0} /\ DOMAIN stack = 1 .. n /\ DOMAIN stack' = 1 .. n
        /\ \A i \in 1 .. n - 1 : stack'[i] = stack[i]
        /\ stack'[n].node = Top.node /\ stack'[n].result = r /\ stack'[n].children = ch
        /\ Top = stack[n]
    BY <1>0, <2>1, <2>2, SettleFields DEF Result
  <2>4. ch # <<>> => ~Simple(ch[Len(ch)])
    BY <2>1, <2>2, LastSibling
  <2>5. r # None
    BY DEF JobState, None
  <2>6. ASSUME NEW i \in 1 .. n
        PROVE  /\ stack'[i].children # <<>> => ~Simple(stack'[i].children[Len(stack'[i].children)])
               /\ stack'[i].result = None /\ stack'[i].children = <<>> =>
                    i + 1 \in DOMAIN stack' /\ ~Simple(stack'[i + 1].node)
    <3>1. CASE i = n
      BY <2>3, <2>4, <2>5, <3>1
    <3>2. CASE i \in 1 .. n - 1
      <4>1. stack'[i] = stack[i] /\ i \in DOMAIN stack /\ i + 1 \in 1 .. n
        BY <2>3, <3>2
      <4>2. stack'[i + 1].node = stack[i + 1].node
        BY <2>3, <4>1, UpperEnd
      <4> QED
        BY <2>3, <4>1, <4>2 DEF LastChild
    <3> QED
      BY <2>3, <3>1, <3>2, UpperEnd
  <2> QED
    BY <2>3, <2>6 DEF LastChild
<1>5. CASE Returns
  <2>1. Finished /\ n > 1
    BY <1>5 DEF Returns
  <2>2. PICK ch \in Seq(Nodes) : Return(ch) /\ (ch = Parent.children \/ ch = <<>>)
            /\ (Top.result = "sat" /\ Simple(Top.node) => ch = Parent.children)
    <3>1. <<>> \in Seq(Nodes) /\ Parent.children \in Seq(Nodes)
      <4>1. n - 1 \in DOMAIN stack
        BY <1>0, <2>1 DEF TypeOK
      <4>2. Parent \in Frame
        BY <1>0, <4>1 DEF TypeOK, Parent
      <4> QED
        BY <4>2, EmptyStack DEF Frame
    <3>2. CASE PropagateSat
      BY <3>1, <3>2 DEF PropagateSat
    <3>3. CASE PropagateSimpleSat
      BY <3>1, <3>3 DEF PropagateSimpleSat
    <3>4. CASE PropagateUnsat
      BY <3>1, <3>4 DEF PropagateUnsat
    <3>5. CASE PropagateUndefined
      BY <3>1, <3>5 DEF PropagateUndefined
    <3> QED
      BY <1>5, <3>2, <3>3, <3>4, <3>5 DEF Returns
  <2>3. /\ n \in Nat /\ DOMAIN stack = 1 .. n /\ DOMAIN stack' = 1 .. n - 1
        /\ \A i \in 1 .. n - 2 : stack'[i] = stack[i]
        /\ Top = stack[n] /\ Parent = stack[n - 1]
        /\ stack'[n - 1].node = Parent.node /\ stack'[n - 1].children = ch
        /\ MergedFrom(stack'[n - 1].result, Parent.result, Top.result, Simple(Top.node))
        /\ Parent.result \in Result /\ Top.result \in JobState /\ Simple(Top.node) \in BOOLEAN
    BY <1>0, <2>1, <2>2, ReturnFields
  <2>4. n - 1 \in DOMAIN stack /\ (n - 1) + 1 = n
    BY <2>1, <2>3
  \* A simple child that is sat leaves its parent without a result, but a full
  \* sibling is still to come.
  <2>5. stack'[n - 1].result = None => ch # <<>>
    <3>1. ASSUME stack'[n - 1].result = None
          PROVE  Parent.result = None /\ Top.result = "sat" /\ Simple(Top.node)
      BY <2>3, <3>1 DEF MergedFrom
    <3>2. ASSUME stack'[n - 1].result = None
          PROVE  Parent.children # <<>>
      BY <2>3, <2>4, <3>1, <3>2 DEF LastChild
    <3> QED
      BY <2>2, <3>1, <3>2
  <2>6. ch # <<>> => ~Simple(ch[Len(ch)])
    BY <2>2, <2>3, <2>4 DEF LastChild
  <2>7. ASSUME NEW i \in 1 .. n - 1
        PROVE  /\ stack'[i].children # <<>> => ~Simple(stack'[i].children[Len(stack'[i].children)])
               /\ stack'[i].result = None /\ stack'[i].children = <<>> =>
                    i + 1 \in DOMAIN stack' /\ ~Simple(stack'[i + 1].node)
    <3>1. CASE i = n - 1
      BY <2>3, <2>5, <2>6, <3>1
    <3>2. CASE i \in 1 .. n - 2
      <4>1. stack'[i] = stack[i] /\ i \in DOMAIN stack /\ i + 1 \in 1 .. n - 1
        BY <2>3, <3>2
      <4>2. stack'[i + 1].node = stack[i + 1].node
        BY <2>3, <4>1, UpperEnd
      <4> QED
        BY <2>3, <4>1, <4>2 DEF LastChild
    <3> QED
      BY <2>3, <3>1, <3>2, UpperEnd
  <2> QED
    BY <2>3, <2>7 DEF LastChild
<1>6. CASE ChildOpened
  <2>1. HasChild /\ ~Leaf(Child)
    BY <1>6 DEF ChildOpened, WithinDepth
  <2>2. /\ n \in Nat \ {0} /\ DOMAIN stack = 1 .. n /\ DOMAIN stack' = 1 .. n + 1
        /\ \A i \in 1 .. n - 1 : stack'[i] = stack[i]
        /\ Top = stack[n]
        /\ stack'[n].node = Top.node /\ stack'[n].children = Siblings
        /\ stack'[n + 1].node = Child /\ stack'[n + 1].children = Children(Child)
    BY <1>0, <1>6, OpenFields
  <2>3. Child \in Nodes
    BY <2>1, ChildFacts
  <2>4. Children(Child) # <<>> /\ ~Simple(Children(Child)[Len(Children(Child))])
    BY <2>1, <2>3, DecomposeAssumption
  <2>5. Siblings # <<>> => ~Simple(Siblings[Len(Siblings)])
    BY <2>1, LastSibling
  <2>6. Siblings = <<>> => ~Simple(Child)
    BY <2>1, OnlyChild
  <2>7. ASSUME NEW i \in 1 .. n + 1
        PROVE  /\ stack'[i].children # <<>> => ~Simple(stack'[i].children[Len(stack'[i].children)])
               /\ stack'[i].result = None /\ stack'[i].children = <<>> =>
                    i + 1 \in DOMAIN stack' /\ ~Simple(stack'[i + 1].node)
    <3>1. CASE i = n + 1
      BY <2>2, <2>4, <3>1
    <3>2. CASE i = n
      BY <2>2, <2>5, <2>6, <3>2
    <3>3. CASE i \in 1 .. n - 1
      <4>1. stack'[i] = stack[i] /\ i \in DOMAIN stack /\ i + 1 \in 1 .. n
        BY <2>2, <3>3
      <4>2. stack'[i + 1].node = stack[i + 1].node
        BY <2>2, <4>1, UpperEnd
      <4>3. i + 1 \in DOMAIN stack'
        BY <2>2, <4>1
      <4> QED
        BY <2>2, <4>1, <4>2, <4>3 DEF LastChild
    <3> QED
      BY <2>2, <3>1, <3>2, <3>3, UpperEnd
  <2> QED
    BY <2>2, <2>7 DEF LastChild
<1> QED
  BY <1>1, <1>2, <1>3, <1>4, <1>5, <1>6, NextSplit

\* Neither the panic!() of Case 1.1 nor the expect("Job result should be set") of
\* Case 1.2 of tableau_loop is reachable, whatever the tableau.
THEOREM NoResultPanic == Spec => []ResultBeforeFinish
<1>1. Init => LastChild
  BY DEF Init, LastChild
<1>2. StructInv /\ LastChild /\ [Next]_vars => LastChild'
  BY LastChildStep
<1>3. StructInv /\ LastChild => ResultBeforeFinish
  <2> SUFFICES ASSUME StructInv, LastChild, OutOfChildren, Top.result = None PROVE FALSE
    BY DEF ResultBeforeFinish
  <2>1. PICK n \in Nat : n = Len(stack) /\ n > 0 /\ DOMAIN stack = 1 .. n
    BY DEF StructInv, TypeOK, OutOfChildren
  <2>2. n \in DOMAIN stack /\ ~(n + 1 \in DOMAIN stack)
    BY <2>1
  <2>3. n + 1 \in DOMAIN stack
    BY <2>1, <2>2 DEF LastChild, OutOfChildren, Top
  <2> QED
    BY <2>2, <2>3
<1> QED
  BY <1>1, <1>2, <1>3, Structure, PTL DEF Spec

----------------------------------------------------------------------------
(* Results that are not final, and frames that are *)

\* One step preserves "a frame that is sat has no children left".
LEMMA SatDoneStep ==
    ASSUME StructInv, SatDone, [Next]_vars
    PROVE  SatDone'
<1>0. TypeOK
  BY DEF StructInv
<1> DEFINE n == Len(stack)
<1>1. CASE UNCHANGED vars
  BY <1>1 DEF vars, SatDone
<1>2. CASE RootRejected \/ RootLeaf \/ FinishRoot
  BY <1>2 DEF RootRejected, RootLeaf, FinishRoot, NotStarted, SatDone
<1>3. CASE RootOpened
  <2>1. DOMAIN stack' = 1 .. 1 /\ stack'[1].result = None
    BY <1>3 DEF RootOpened, NewFrame
  <2> QED
    BY <2>1 DEF SatDone, None
<1>4. CASE Settles
  <2>1. HasChild
    BY <1>4 DEF Settles
  <2>2. n \in DOMAIN stack /\ Top = stack[n] /\ Top.children # <<>>
    BY <1>0, <2>1 DEF HasChild, TypeOK, Top
  <2>3. PICK ch \in Seq(Nodes), r \in Result : Settle(ch, r) /\ (r = "sat" => ch = <<>>)
    <3>1. /\ Siblings \in Seq(Nodes) /\ Top.result \in Result /\ <<>> \in Seq(Nodes)
          /\ {"undefined", "unsat", "sat"} \subseteq Result
      BY <1>0, <2>1, TopType, EmptyStack DEF HasChild, Result, JobState
    <3>2. Top.result # "sat"
      BY <2>2 DEF SatDone
    <3>3. CASE ChildLeaf
      BY <3>1, <3>2, <3>3 DEF ChildLeaf
    <3>4. CASE ChildCut \/ SettleUnsat
      BY <3>1, <3>4 DEF ChildCut, SettleUnsat
    <3> QED
      BY <1>4, <3>3, <3>4 DEF Settles, ChildInconsistent, ChildMemoized
  <2>4. /\ n \in Nat \ {0} /\ DOMAIN stack = 1 .. n /\ DOMAIN stack' = 1 .. n
        /\ \A i \in 1 .. n - 1 : stack'[i] = stack[i]
        /\ stack'[n].result = r /\ stack'[n].children = ch
    BY <1>0, <2>1, <2>3, SettleFields
  <2>5. \A i \in 1 .. n - 1 : stack'[i].result # "sat"
    BY <2>4 DEF SatDone
  <2>6. Len(stack') = n
    BY <1>0, <2>1, <2>3, SettleShape
  <2> QED
    BY <2>3, <2>4, <2>5, <2>6, UpperEnd DEF SatDone
<1>5. CASE Returns
  <2>1. Finished /\ n > 1
    BY <1>5 DEF Returns
  <2>2. PICK ch \in Seq(Nodes) :
            Return(ch) /\ (Top.result = "sat" /\ ~Simple(Top.node) => ch = <<>>)
    <3>1. <<>> \in Seq(Nodes) /\ Parent.children \in Seq(Nodes)
      <4>1. n - 1 \in DOMAIN stack
        BY <1>0, <2>1 DEF TypeOK
      <4>2. Parent \in Frame
        BY <1>0, <4>1 DEF TypeOK, Parent
      <4> QED
        BY <4>2, EmptyStack DEF Frame
    <3>2. CASE PropagateSat
      BY <3>1, <3>2 DEF PropagateSat
    <3>3. CASE PropagateSimpleSat
      BY <3>1, <3>3 DEF PropagateSimpleSat
    <3>4. CASE PropagateUnsat
      BY <3>1, <3>4 DEF PropagateUnsat
    <3>5. CASE PropagateUndefined
      BY <3>1, <3>5 DEF PropagateUndefined
    <3> QED
      BY <1>5, <3>2, <3>3, <3>4, <3>5 DEF Returns
  <2>3. /\ n \in Nat /\ DOMAIN stack = 1 .. n /\ DOMAIN stack' = 1 .. n - 1
        /\ \A i \in 1 .. n - 2 : stack'[i] = stack[i]
        /\ Top = stack[n] /\ Parent = stack[n - 1]
        /\ stack'[n - 1].children = ch
        /\ MergedFrom(stack'[n - 1].result, Parent.result, Top.result, Simple(Top.node))
        /\ Parent.result \in Result /\ Top.result \in JobState /\ Simple(Top.node) \in BOOLEAN
    BY <1>0, <2>1, <2>2, ReturnFields
  <2>4. \A i \in 1 .. n - 1 : stack[i].result # "sat"
    BY <2>3 DEF SatDone
  <2>5. n - 1 \in 1 .. n - 1
    BY <2>1, <2>3
  <2>6. stack'[n - 1].result = "sat" => ch = <<>>
    <3>1. stack'[n - 1].result = "sat" =>
            Parent.result = "sat" \/ (Top.result = "sat" /\ ~Simple(Top.node))
      BY <2>3 DEF MergedFrom
    <3>2. Parent.result # "sat"
      BY <2>3, <2>4, <2>5
    <3> QED
      BY <2>2, <3>1, <3>2
  <2>7. Len(stack') = n - 1
    BY <1>0, <2>1, <2>2, ReturnShape
  <2>8. \A i \in 1 .. n - 2 : stack'[i].result # "sat"
    BY <2>3, <2>4
  <2> QED
    BY <2>3, <2>6, <2>7, <2>8, UpperEnd DEF SatDone
<1>6. CASE ChildOpened
  <2>1. HasChild
    BY <1>6 DEF ChildOpened, WithinDepth
  <2>2. n \in DOMAIN stack /\ Top = stack[n] /\ Top.children # <<>>
    BY <1>0, <2>1 DEF HasChild, TypeOK, Top
  <2>3. /\ n \in Nat \ {0} /\ DOMAIN stack = 1 .. n /\ DOMAIN stack' = 1 .. n + 1
        /\ \A i \in 1 .. n - 1 : stack'[i] = stack[i]
        /\ stack'[n].result = Top.result
        /\ stack'[n + 1].result = None
    BY <1>0, <1>6, OpenFields
  <2>4. \A i \in 1 .. n : stack[i].result # "sat"
    BY <2>2, <2>3 DEF SatDone
  <2>5. ASSUME NEW i \in 1 .. n + 1
        PROVE  stack'[i].result # "sat"
    <3>1. CASE i = n + 1
      BY <2>3, <3>1 DEF None
    <3>2. CASE i = n
      BY <2>2, <2>3, <2>4, <3>2
    <3>3. CASE i \in 1 .. n - 1
      BY <2>3, <2>4, <3>3, UpperEnd
    <3> QED
      BY <2>3, <3>1, <3>2, <3>3, UpperEnd
  <2> QED
    BY <2>3, <2>5 DEF SatDone
<1> QED
  BY <1>1, <1>2, <1>3, <1>4, <1>5, <1>6, NextSplit

\* One step preserves "an undefined result comes from a cut".
LEMMA CutStep ==
    ASSUME StructInv, UndefinedOnlyIfCut, [Next]_vars
    PROVE  UndefinedOnlyIfCut'
<1>0. TypeOK
  BY DEF StructInv
<1> DEFINE n == Len(stack)
<1>1. CASE UNCHANGED vars
  BY <1>1 DEF vars, UndefinedOnlyIfCut, UnknownOnlyIfCut
<1>2. CASE RootRejected \/ RootLeaf
  BY <1>2 DEF RootRejected, RootLeaf, NotStarted, UndefinedOnlyIfCut, UnknownOnlyIfCut
<1>3. CASE RootOpened
  <2>1. /\ DOMAIN stack' = 1 .. 1 /\ stack'[1].result = None
        /\ verdict' = verdict /\ cut' = cut
    BY <1>3 DEF RootOpened, NewFrame
  <2> QED
    BY <2>1 DEF UndefinedOnlyIfCut, UnknownOnlyIfCut, None
<1>4. CASE FinishRoot
  <2>1. n > 0 /\ Top = stack[n] /\ n \in DOMAIN stack
    BY <1>0, <1>4 DEF FinishRoot, TypeOK, Top
  <2>2. Top.result \in JobState
    BY <1>0, <1>4, <2>1, TopType DEF FinishRoot, Finished, Result
  <2>3. AnswerOf(Top.result) = "unknown" => cut
    BY <2>1, <2>2 DEF AnswerOf, JobState, UndefinedOnlyIfCut
  <2> QED
    BY <1>4, <2>3 DEF FinishRoot, UndefinedOnlyIfCut, UnknownOnlyIfCut
<1>5. CASE Settles
  <2>1. HasChild /\ verdict' = verdict
    BY <1>5 DEF Settles
  <2>2. n \in DOMAIN stack /\ Top = stack[n]
    BY <1>0, <2>1 DEF HasChild, TypeOK, Top
  <2>3. (cut => cut') /\ \E ch \in Seq(Nodes), r \in Result :
            Settle(ch, r) /\ (r = "undefined" => cut')
    <3>1. /\ Siblings \in Seq(Nodes) /\ Top.result \in Result /\ <<>> \in Seq(Nodes)
          /\ {"undefined", "unsat", "sat"} \subseteq Result
      BY <1>0, <2>1, TopType, EmptyStack DEF HasChild, Result, JobState
    <3>2. Top.result = "undefined" => cut
      BY <2>2 DEF UndefinedOnlyIfCut
    <3>3. CASE ChildLeaf
      BY <3>1, <3>2, <3>3 DEF ChildLeaf
    <3>4. CASE ChildCut
      BY <3>1, <3>4 DEF ChildCut
    <3>5. CASE SettleUnsat /\ cut' = cut
      BY <3>1, <3>5 DEF SettleUnsat
    <3> QED
      BY <1>5, <3>3, <3>4, <3>5 DEF Settles, ChildInconsistent, ChildMemoized
  <2>4. PICK ch \in Seq(Nodes), r \in Result : Settle(ch, r) /\ (r = "undefined" => cut')
    BY <2>3
  <2>5. /\ n \in Nat \ {0} /\ DOMAIN stack = 1 .. n /\ DOMAIN stack' = 1 .. n
        /\ \A i \in 1 .. n - 1 : stack'[i] = stack[i]
        /\ stack'[n].result = r
    BY <1>0, <2>1, <2>4, SettleFields
  <2>6. ASSUME NEW i \in 1 .. n, stack'[i].result = "undefined"
        PROVE  cut'
    <3>1. CASE i = n
      BY <2>4, <2>5, <2>6, <3>1
    <3>2. CASE i \in 1 .. n - 1
      BY <2>3, <2>5, <2>6, <3>2 DEF UndefinedOnlyIfCut
    <3> QED
      BY <2>5, <3>1, <3>2, UpperEnd
  <2> QED
    BY <2>1, <2>3, <2>5, <2>6 DEF UndefinedOnlyIfCut, UnknownOnlyIfCut
<1>6. CASE Returns
  <2>1. Finished /\ n > 1 /\ verdict' = verdict /\ cut' = cut
    BY <1>6 DEF Returns, PropagateSat, PropagateSimpleSat, PropagateUnsat, PropagateUndefined
  <2>2. PICK ch \in Seq(Nodes) : Return(ch)
    BY <1>6, ReturnsWith
  <2>3. /\ n \in Nat /\ DOMAIN stack = 1 .. n /\ DOMAIN stack' = 1 .. n - 1
        /\ \A i \in 1 .. n - 2 : stack'[i] = stack[i]
        /\ Top = stack[n] /\ Parent = stack[n - 1]
        /\ MergedFrom(stack'[n - 1].result, Parent.result, Top.result, Simple(Top.node))
        /\ Parent.result \in Result /\ Top.result \in JobState /\ Simple(Top.node) \in BOOLEAN
    BY <1>0, <2>1, <2>2, ReturnFields
  <2>4. n - 1 \in DOMAIN stack /\ n \in DOMAIN stack
    BY <2>1, <2>3
  <2>5. stack'[n - 1].result = "undefined" => cut
    <3>1. stack'[n - 1].result = "undefined" =>
            Parent.result = "undefined" \/ Top.result = "undefined"
      BY <2>3 DEF MergedFrom
    <3> QED
      BY <2>3, <2>4, <3>1 DEF UndefinedOnlyIfCut
  <2>6. ASSUME NEW i \in 1 .. n - 1, stack'[i].result = "undefined"
        PROVE  cut'
    <3>1. CASE i = n - 1
      BY <2>1, <2>5, <2>6, <3>1
    <3>2. CASE i \in 1 .. n - 2
      <4>1. stack'[i] = stack[i] /\ i \in DOMAIN stack
        BY <2>3, <3>2
      <4> QED
        BY <2>1, <2>6, <4>1 DEF UndefinedOnlyIfCut
    <3> QED
      BY <2>3, <3>1, <3>2, UpperEnd
  <2> QED
    BY <2>1, <2>3, <2>6 DEF UndefinedOnlyIfCut, UnknownOnlyIfCut
<1>7. CASE ChildOpened
  <2>1. cut' = cut /\ verdict' = verdict
    BY <1>7 DEF ChildOpened
  <2>2. /\ n \in Nat \ {0} /\ DOMAIN stack = 1 .. n /\ DOMAIN stack' = 1 .. n + 1
        /\ \A i \in 1 .. n - 1 : stack'[i] = stack[i]
        /\ stack'[n].result = Top.result /\ Top = stack[n]
        /\ stack'[n + 1].result = None
    BY <1>0, <1>7, OpenFields
  <2>3. ASSUME NEW i \in 1 .. n + 1, stack'[i].result = "undefined"
        PROVE  cut
    <3>1. CASE i = n + 1
      BY <2>2, <2>3, <3>1 DEF None
    <3>2. CASE i = n
      BY <2>2, <2>3, <3>2 DEF UndefinedOnlyIfCut
    <3>3. CASE i \in 1 .. n - 1
      BY <2>2, <2>3, <3>3 DEF UndefinedOnlyIfCut
    <3> QED
      BY <2>2, <3>1, <3>2, <3>3, UpperEnd
  <2> QED
    BY <2>1, <2>2, <2>3 DEF UndefinedOnlyIfCut, UnknownOnlyIfCut
<1> QED
  BY <1>1, <1>2, <1>3, <1>4, <1>5, <1>6, <1>7, NextSplit

\* solve_root only answers None after a child was given up at max_depth.
THEOREM UnknownNeedsCut == Spec => []UnknownOnlyIfCut
<1>1. Init => UndefinedOnlyIfCut
  BY DEF Init, UndefinedOnlyIfCut, UnknownOnlyIfCut
<1>2. StructInv /\ UndefinedOnlyIfCut /\ [Next]_vars => UndefinedOnlyIfCut'
  BY CutStep
<1>3. UndefinedOnlyIfCut => UnknownOnlyIfCut
  BY DEF UndefinedOnlyIfCut
<1> QED
  BY <1>1, <1>2, <1>3, Structure, PTL DEF Spec

----------------------------------------------------------------------------
(* Soundness of "unsat" *)

\* What is asserted on the top frame's solver follows from its node.
LEMMA AssertedOnTop ==
    ASSUME StructInv, HasChild
    PROVE  Asserted(Top.solver) \subseteq Literals(Top.node)
<1>0. TypeOK /\ SolverOrder /\ Mirrors /\ BranchOK
  BY MirrorsForm DEF StructInv
<1>1. PICK n \in Nat : n = Len(stack) /\ n > 0 /\ DOMAIN stack = 1 .. n /\ Top = stack[n]
  BY <1>0 DEF HasChild, TypeOK, Top
<1>2. PICK t \in Nat : t = Len(solvers) /\ Top.solver = t /\ t \in 1 .. t
  <2>1. Top.solver = Len(solvers) /\ Top.solver \in DOMAIN solvers
    BY <1>0, <1>1 DEF SolverOrder
  <2> QED
    BY <1>0, <2>1 DEF TypeOK
<1>3. PICK b \in Nat : ScopesFrom(t, b)
  BY <1>0, <1>2 DEF Mirrors
<1>4. PICK m \in Nat : m = Len(solvers[t]) /\ DOMAIN solvers[t] = 1 .. m
  BY <1>0, <1>2 DEF TypeOK
<1>5. /\ b + m <= n
      /\ \A i \in 1 .. n : CheckedOn(i) = t <=> b < i /\ i <= b + m
      /\ \A k \in 1 .. m : solvers[t][k] = Literals(stack[b + k].node)
  BY <1>1, <1>3, <1>4 DEF ScopesFrom
<1>6. ASSUME NEW k \in 1 .. m
      PROVE  solvers[t][k] \subseteq Literals(Top.node)
  <2>1. b + k \in 1 .. n /\ b < b + k /\ b + k <= b + m
    BY <1>5
  <2>2. CheckedOn(b + k) = t
    BY <1>5, <2>1
  <2>3. stack[b + k].solver <= t /\ stack[b + k].solver \in Nat
    <3>1. stack[b + k].solver \in DOMAIN solvers
      BY <1>0, <1>1, <2>1 DEF SolverOrder
    <3> QED
      BY <1>0, <1>2, <3>1 DEF TypeOK
  <2>4. stack[b + k].solver >= t
    <3>1. CASE b + k = 1
      <4>1. stack[1].solver = 1
        BY <1>0, <1>1 DEF SolverOrder
      <4> QED
        BY <2>2, <3>1, <4>1 DEF CheckedOn
    <3>2. CASE b + k # 1
      <4>1. b + k - 1 \in 1 .. n /\ b + k - 1 <= b + k
        BY <2>1, <3>2
      <4>2. CheckedOn(b + k) = stack[b + k - 1].solver
        BY <3>2 DEF CheckedOn
      <4>3. stack[b + k - 1].solver <= stack[b + k].solver
        BY <1>0, <1>1, <2>1, <4>1 DEF SolverOrder
      <4> QED
        BY <2>2, <4>2, <4>3
    <3> QED
      BY <3>1, <3>2
  <2>5. stack[b + k].solver = stack[n].solver
    BY <1>1, <1>2, <2>3, <2>4
  <2>6. n \in 1 .. n /\ b + k <= n
    BY <1>1, <2>1
  <2> QED
    <3>1. Literals(stack[b + k].node) \subseteq Literals(stack[n].node)
      BY <1>0, <1>1, <2>1, <2>5, <2>6 DEF BranchOK
    <3>2. solvers[t][k] = Literals(stack[b + k].node)
      BY <1>5
    <3> QED
      BY <1>1, <3>1, <3>2
<1> QED
  BY <1>2, <1>4, <1>6 DEF Asserted

\* A child whose check fails is not open: the scopes of the solver add nothing
\* to the literals of a child of the same instant, and a child of a later instant
\* passes the check.
LEMMA FailedCheck ==
    ASSUME StructInv, HasChild, ~CheckPasses(Top.solver, Child)
    PROVE  ~Open(Child)
<1>0. TypeOK /\ SolverOrder
  BY DEF StructInv
<1>1. /\ Top.node \in Nodes /\ Child \in Nodes /\ Consistent(Literals(Top.node))
      /\ ~NewInstant(Child) => Literals(Top.node) \subseteq Literals(Child)
      /\ NewInstant(Child) => Literals(Child) = {}
  BY ChildFacts
<1>2. Asserted(Top.solver) \subseteq Literals(Top.node)
  BY AssertedOnTop
<1>3. ~Consistent(CheckSet(Top.solver, Child))
  BY DEF CheckPasses
<1>4. CASE NewInstant(Child)
  <2>1. CheckSet(Top.solver, Child) \subseteq Literals(Top.node)
    BY <1>1, <1>2, <1>4 DEF CheckSet
  <2>2. Literals(Top.node) \in SUBSET Literal /\ CheckSet(Top.solver, Child) \in SUBSET Literal
    BY <1>1, <2>1 DEF Literal
  <2> QED
    BY <1>1, <1>3, <2>1, <2>2, SolverAssumption
<1>5. CASE ~NewInstant(Child)
  <2>1. CheckSet(Top.solver, Child) = Literals(Child)
    BY <1>1, <1>2, <1>5 DEF CheckSet
  <2> QED
    BY <1>1, <1>3, <2>1, DecomposeAssumption
<1> QED
  BY <1>4, <1>5

\* An open node that is not a leaf has an open full child.
LEMMA OpenNodeModel ==
    ASSUME NEW m \in Nodes, ~Leaf(m), Open(m)
    PROVE  \E k \in DOMAIN Children(m) :
                ~Simple(Children(m)[k]) /\ Open(Children(m)[k])
BY DecomposeAssumption

\* The first child, or one of the others
LEMMA FirstOrLater ==
    ASSUME TypeOK, HasChild, NEW k \in DOMAIN Top.children
    PROVE  Top.children[k] = Child \/ \E l \in DOMAIN Siblings : Top.children[k] = Siblings[l]
<1>1. PICK m \in Nat : m = Len(Top.children) /\ m > 0 /\ DOMAIN Top.children = 1 .. m
  BY TopType DEF HasChild
<1>2. Child = Top.children[1] /\ DOMAIN Siblings = 1 .. m - 1
      /\ \A l \in DOMAIN Siblings : Siblings[l] = Top.children[l + 1]
  BY <1>1, TopType DEF HasChild
<1>3. CASE k = 1
  BY <1>2, <1>3
<1>4. CASE k # 1
  <2>1. k - 1 \in DOMAIN Siblings /\ (k - 1) + 1 = k
    BY <1>1, <1>2, <1>4
  <2> QED
    BY <1>2, <2>1
<1> QED
  BY <1>3, <1>4

\* A frame with nothing left to explore and no branch found is not open.
LEMMA ExhaustedUnsat ==
    ASSUME StructInv, FrameUnsat, Finished, Untroubled, Top.result # "sat"
    PROVE  ~Open(Top.node)
<1>1. PICK n \in Nat : n = Len(stack) /\ n > 0 /\ DOMAIN stack = 1 .. n /\ Top = stack[n]
  BY DEF StructInv, TypeOK, Finished, OutOfChildren, Top
<1>2. n \in DOMAIN stack /\ ~(n + 1 \in DOMAIN stack)
  BY <1>1
<1>3. stack[n].children = <<>>
  BY <1>1 DEF Finished, OutOfChildren
<1>4. ~Pending(n)
  BY <1>2, <1>3 DEF Pending
<1> QED
  BY <1>1, <1>2, <1>4 DEF FrameUnsat

\* Frames below the top keep what they have pending when the top is settled.
LEMMA SettleKeepsPending ==
    ASSUME StructInv, HasChild, NEW ch \in Seq(Nodes), NEW r \in Result, Settle(ch, r),
           FrameUnsat, Untroubled,
           r # "sat" /\ Open(Top.node) =>
                \E k \in DOMAIN ch : ~Simple(ch[k]) /\ Open(ch[k])
    PROVE  FrameUnsat'
<1> DEFINE n == Len(stack)
<1>1. /\ n \in Nat \ {0} /\ DOMAIN stack = 1 .. n /\ DOMAIN stack' = 1 .. n
      /\ \A i \in 1 .. n - 1 : stack'[i] = stack[i]
      /\ Top = stack[n]
      /\ stack'[n].node = Top.node /\ stack'[n].result = r /\ stack'[n].children = ch
  BY SettleFields DEF StructInv
<1>2. ASSUME NEW i \in 1 .. n, Open(stack'[i].node), stack'[i].result # "sat"
      PROVE  Pending(i)'
  <2>1. CASE i = n
    BY <1>1, <1>2, <2>1 DEF Pending
  <2>2. CASE i \in 1 .. n - 1
    <3>1. stack'[i] = stack[i] /\ i \in DOMAIN stack /\ i + 1 \in 1 .. n
      BY <1>1, <2>2
    <3>2. stack'[i + 1].node = stack[i + 1].node
      BY <1>1, <3>1, UpperEnd
    <3>3. Pending(i)
      BY <1>2, <3>1 DEF FrameUnsat
    <3> QED
      BY <1>1, <3>1, <3>2, <3>3 DEF Pending
  <2> QED
    BY <1>1, <2>1, <2>2, UpperEnd
<1> QED
  BY <1>1, <1>2 DEF FrameUnsat

\* A closed child takes nothing away from what is pending, and a simple
\* frame whose siblings are dropped is recorded in skipped.
LEMMA UnsatChildFrames ==
    ASSUME StructInv, HasChild, FrameUnsat, SatDone, SettleUnsat, ~Open(Child),
           Untroubled, ~skipped'
    PROVE  FrameUnsat'
<1> DEFINE ch == IF Simple(Top.node) THEN <<>> ELSE Siblings
<1>1. ch \in Seq(Nodes) /\ "unsat" \in Result /\ Settle(ch, "unsat")
  BY TopType, EmptyStack DEF StructInv, HasChild, SettleUnsat, Result, JobState
<1>2. ASSUME Open(Top.node)
      PROVE  \E k \in DOMAIN ch : ~Simple(ch[k]) /\ Open(ch[k])
  <2>1. PICK n \in Nat : n = Len(stack) /\ n > 0 /\ DOMAIN stack = 1 .. n /\ Top = stack[n]
    BY DEF StructInv, TypeOK, HasChild, Top
  <2>2. n \in DOMAIN stack /\ ~(n + 1 \in DOMAIN stack)
    BY <2>1
  <2>3. Top.result # "sat"
    BY <2>1, <2>2 DEF SatDone, HasChild
  <2>4. Pending(n)
    BY <1>2, <2>1, <2>2, <2>3 DEF FrameUnsat
  <2>5. PICK k \in DOMAIN Top.children :
            ~Simple(Top.children[k]) /\ Open(Top.children[k])
    BY <2>1, <2>2, <2>4 DEF Pending
  <2>6. PICK l \in DOMAIN Siblings : Top.children[k] = Siblings[l]
    BY <2>5, FirstOrLater DEF StructInv
  <2>7. Siblings # <<>>
    BY <2>6
  <2>8. ~Simple(Top.node)
    BY <2>7 DEF SettleUnsat
  <2> QED
    BY <2>5, <2>6, <2>8
<1> QED
  BY <1>1, <1>2, SettleKeepsPending

\* Frames below the parent keep what they have pending when a child returns.
LEMMA ReturnKeepsPending ==
    ASSUME StructInv, Finished, Len(stack) > 1, NEW ch \in Seq(Nodes), Return(ch),
           FrameUnsat, Untroubled,
           stack'[Len(stack) - 1].result # "sat" /\ Open(Parent.node) =>
                \E k \in DOMAIN ch : ~Simple(ch[k]) /\ Open(ch[k])
    PROVE  FrameUnsat'
<1> DEFINE n == Len(stack)
<1>1. /\ n \in Nat /\ n > 1 /\ DOMAIN stack = 1 .. n /\ DOMAIN stack' = 1 .. n - 1
      /\ \A i \in 1 .. n - 2 : stack'[i] = stack[i]
      /\ Parent = stack[n - 1]
      /\ stack'[n - 1].node = Parent.node /\ stack'[n - 1].children = ch
  BY ReturnFields DEF StructInv
<1>2. ASSUME NEW i \in 1 .. n - 1, Open(stack'[i].node), stack'[i].result # "sat"
      PROVE  Pending(i)'
  <2>1. CASE i = n - 1
    BY <1>1, <1>2, <2>1 DEF Pending
  <2>2. CASE i \in 1 .. n - 2
    <3>1. stack'[i] = stack[i] /\ i \in DOMAIN stack /\ i + 1 \in 1 .. n - 1
      BY <1>1, <2>2
    <3>2. stack'[i + 1].node = stack[i + 1].node
      BY <1>1, <3>1, UpperEnd
    <3>3. Pending(i)
      BY <1>2, <3>1 DEF FrameUnsat
    <3> QED
      BY <1>1, <3>1, <3>2, <3>3 DEF Pending
  <2> QED
    BY <1>1, <2>1, <2>2, UpperEnd
<1> QED
  BY <1>1, <1>2 DEF FrameUnsat

\* What the parent of the finished frame has pending
LEMMA ParentPending ==
    ASSUME StructInv, Finished, Len(stack) > 1, FrameUnsat, SatDone, Untroubled,
           Open(Parent.node)
    PROVE  \/ \E k \in DOMAIN Parent.children :
                ~Simple(Parent.children[k]) /\ Open(Parent.children[k])
           \/ ~Simple(Top.node) /\ Open(Top.node)
<1>1. PICK n \in Nat : /\ n = Len(stack) /\ n > 1 /\ DOMAIN stack = 1 .. n
                       /\ Top = stack[n] /\ Parent = stack[n - 1]
  BY DEF StructInv, TypeOK, Top, Parent
<1>2. n - 1 \in DOMAIN stack /\ (n - 1) + 1 = n /\ n - 1 # n
  BY <1>1
<1>3. Parent.result # "sat"
  BY <1>1, <1>2 DEF SatDone
<1>4. Pending(n - 1)
  BY <1>1, <1>2, <1>3 DEF FrameUnsat
<1> QED
  BY <1>1, <1>2, <1>4 DEF Pending

\* A child opened on top is what its parent has pending, or a sibling is.
LEMMA OpenKeepsPending ==
    ASSUME StructInv, FrameUnsat, ChildOpened, Untroubled
    PROVE  FrameUnsat'
<1> DEFINE n == Len(stack)
<1>0. TypeOK /\ HasChild /\ ~Leaf(Child)
  BY DEF StructInv, ChildOpened, WithinDepth
<1>1. /\ n \in Nat \ {0} /\ DOMAIN stack = 1 .. n /\ DOMAIN stack' = 1 .. n + 1
      /\ \A i \in 1 .. n - 1 : stack'[i] = stack[i]
      /\ Top = stack[n]
      /\ stack'[n].node = Top.node /\ stack'[n].children = Siblings
      /\ stack'[n].result = Top.result
      /\ stack'[n + 1].node = Child /\ stack'[n + 1].children = Children(Child)
  BY <1>0, OpenFields
<1>2. ASSUME NEW i \in 1 .. n + 1, Open(stack'[i].node), stack'[i].result # "sat"
      PROVE  Pending(i)'
  <2>1. CASE i = n + 1
    <3>1. Child \in Nodes
      BY <1>0, ChildFacts
    <3>2. \E k \in DOMAIN Children(Child) :
            ~Simple(Children(Child)[k]) /\ Open(Children(Child)[k])
      BY <1>0, <1>1, <1>2, <2>1, <3>1, OpenNodeModel
    <3> QED
      BY <1>1, <2>1, <3>2 DEF Pending
  <2>2. CASE i = n
    <3>1. n \in DOMAIN stack /\ ~(n + 1 \in DOMAIN stack) /\ n + 1 \in DOMAIN stack'
      BY <1>1
    <3>2. Pending(n)
      BY <1>1, <1>2, <2>2, <3>1 DEF FrameUnsat
    <3>3. PICK k \in DOMAIN Top.children :
            ~Simple(Top.children[k]) /\ Open(Top.children[k])
      BY <1>1, <3>1, <3>2 DEF Pending
    <3>4. Top.children[k] = Child \/ \E l \in DOMAIN Siblings : Top.children[k] = Siblings[l]
      BY <1>0, FirstOrLater
    <3> QED
      BY <1>1, <2>2, <3>1, <3>3, <3>4 DEF Pending
  <2>3. CASE i \in 1 .. n - 1
    <3>1. stack'[i] = stack[i] /\ i \in DOMAIN stack /\ i + 1 \in 1 .. n /\ i + 1 \in 1 .. n + 1
      BY <1>1, <2>3
    <3>2. stack'[i + 1].node = stack[i + 1].node
      BY <1>1, <3>1, UpperEnd
    <3>3. Pending(i)
      BY <1>2, <3>1 DEF FrameUnsat
    <3> QED
      BY <1>1, <3>1, <3>2, <3>3 DEF Pending
  <2> QED
    BY <1>1, <2>1, <2>2, <2>3, UpperEnd
<1> QED
  BY <1>1, <1>2 DEF FrameUnsat

\* One step preserves "an open node of a frame has an open node pending", as long
\* as nothing was cut or skipped and no open node was turned away.
LEMMA UnsatStep ==
    ASSUME StructInv, UndefinedOnlyIfCut, SatDone,
           FrameUnsat, StoreSound, UnsatSound, [Next]_vars
    PROVE  FrameUnsat' /\ StoreSound' /\ UnsatSound'
<1>0. TypeOK /\ BranchOK
  BY DEF StructInv
\* What history records is never taken back.
<1>1. (cut => cut') /\ (skipped => skipped') /\ (misled => misled')
  <2>1. CASE ChildCut
    BY <2>1 DEF ChildCut
  <2>2. CASE ChildInconsistent \/ ChildMemoized
    <3>1. /\ cut' = cut
          /\ skipped' = (skipped \/ (Simple(Top.node) /\ Siblings # <<>>))
          /\ misled' = misled \/ misled' = (misled \/ Open(Child))
      BY <2>2 DEF ChildInconsistent, ChildMemoized, SettleUnsat
    <3>2. skipped \in BOOLEAN /\ skipped' \in BOOLEAN
      BY <1>0, TypeStep DEF TypeOK
    <3>3. misled \in BOOLEAN /\ misled' \in BOOLEAN
      BY <1>0, TypeStep DEF TypeOK
    <3>4. skipped => skipped'
      BY <3>1, <3>2
    <3>5. misled => misled'
      BY <3>1, <3>3
    <3> QED
      BY <3>1, <3>4, <3>5
  <2>3. CASE UNCHANGED <<cut, skipped, misled>>
    BY <2>3
  <2> QED
    BY <2>1, <2>2, <2>3 DEF Next, vars, RootRejected, RootLeaf, RootOpened, FinishRoot,
       PropagateSat, PropagateSimpleSat, PropagateUnsat, PropagateUndefined, ChildLeaf,
       ChildOpened, Returned
<1>2. CASE UNCHANGED vars
  BY <1>2 DEF vars, FrameUnsat, StoreSound, UnsatSound, Pending, Untroubled
<1>3. CASE ~Untroubled'
  BY <1>3 DEF FrameUnsat, StoreSound, UnsatSound
<1> SUFFICES ASSUME Untroubled', ~UNCHANGED vars
             PROVE  FrameUnsat' /\ StoreSound' /\ UnsatSound'
  BY <1>2, <1>3
<1>4. Untroubled /\ ~cut /\ ~cut' /\ ~skipped' /\ ~misled'
  BY <1>1 DEF Untroubled
<1>5. root \in Nodes
  BY <1>0, OptionsAssumption DEF TypeOK
<1>6. CASE RootRejected
  <2>1. ~Open(root)
    BY <1>5, <1>6, DecomposeAssumption DEF RootRejected
  <2> QED
    BY <1>4, <1>6, <2>1 DEF RootRejected, NotStarted, FrameUnsat, StoreSound, UnsatSound
<1>7. CASE RootLeaf
  BY <1>4, <1>7 DEF RootLeaf, NotStarted, FrameUnsat, StoreSound, UnsatSound
<1>8. CASE RootOpened
  <2>1. /\ DOMAIN stack' = 1 .. 1 /\ stack'[1].node = root
        /\ stack'[1].children = Children(root) /\ ~Leaf(root)
        /\ UNCHANGED <<store, verdict, root>>
    BY <1>8 DEF RootOpened, NewFrame
  <2>2. FrameUnsat'
    BY <1>5, <2>1, OpenNodeModel DEF FrameUnsat, Pending
  <2> QED
    BY <1>4, <2>1, <2>2 DEF StoreSound, UnsatSound
<1>9. CASE FinishRoot
  <2>1. /\ stack' = <<>> /\ UNCHANGED <<store, root>> /\ verdict' = AnswerOf(Top.result)
        /\ Finished /\ Len(stack) = 1
    BY <1>9 DEF FrameUnsat, FinishRoot
  <2>2. Top.result \in JobState /\ Top = stack[1] /\ stack # <<>>
    <3>1. Len(stack) > 0
      BY <2>1
    <3>2. Top.result \in Result
      BY <1>0, <3>1, TopType
    <3> QED
      BY <2>1, <3>2 DEF Finished, Result, Top
  <2>3. Top.node = root
    BY <1>0, <2>2 DEF BranchOK
  <2>4. verdict' = "unsat" => ~Open(root)
    <3>1. verdict' = "unsat" => Top.result # "sat"
      BY <2>1, <2>2 DEF AnswerOf, JobState
    <3> QED
      BY <1>4, <2>1, <2>3, <3>1, ExhaustedUnsat
  <2> QED
    BY <1>4, <2>1, <2>4 DEF FrameUnsat, StoreSound, UnsatSound
<1>10. CASE ChildCut
  BY <1>4, <1>10 DEF ChildCut
<1>11. CASE ChildInconsistent
  <2>1. HasChild /\ SettleUnsat /\ UNCHANGED <<store, verdict, root>>
    BY <1>11 DEF ChildInconsistent, WithinDepth
  <2>2. ~Open(Child)
    BY <1>11, <2>1, FailedCheck DEF ChildInconsistent
  <2>3. FrameUnsat'
    BY <1>4, <2>1, <2>2, UnsatChildFrames
  <2> QED
    BY <1>4, <2>1, <2>3 DEF StoreSound, UnsatSound
<1>12. CASE ChildMemoized
  <2>1. HasChild /\ SettleUnsat /\ UNCHANGED <<store, verdict, root>>
    BY <1>12 DEF ChildMemoized, WithinDepth
  <2>2. ~Open(Child)
    <3>1. misled' = (misled \/ Open(Child))
      BY <1>12 DEF ChildMemoized
    <3>2. ~misled'
      BY <1>4
    <3> QED
      BY <3>1, <3>2
  <2>3. FrameUnsat'
    BY <1>4, <2>1, <2>2, UnsatChildFrames
  <2> QED
    BY <1>4, <2>1, <2>3 DEF StoreSound, UnsatSound
<1>13. CASE ChildLeaf
  <2>1. HasChild /\ UNCHANGED <<store, verdict, root>> /\ Leaf(Child)
    BY <1>13 DEF ChildLeaf, WithinDepth
  <2>2. ~Simple(Child)
    BY <2>1, ChildFacts
  <2>3. Settle(<<>>, "sat") /\ <<>> \in Seq(Nodes) /\ "sat" \in Result
    BY <1>13, <2>2, EmptyStack DEF ChildLeaf, Result, JobState
  <2>4. FrameUnsat'
    BY <1>4, <2>1, <2>3, SettleKeepsPending
  <2> QED
    BY <1>4, <2>1, <2>4 DEF StoreSound, UnsatSound
<1>14. CASE Returns
  <2>1. Finished /\ Len(stack) > 1 /\ UNCHANGED <<root, verdict>>
    BY <1>14 DEF Returns
  <2>2. PICK n \in Nat : /\ n = Len(stack) /\ n > 1 /\ DOMAIN stack = 1 .. n
                         /\ Top = stack[n] /\ Parent = stack[n - 1]
    BY <1>0, <2>1 DEF TypeOK, Top, Parent
  <2>3. <<>> \in Seq(Nodes) /\ Parent.children \in Seq(Nodes)
    <3>1. Parent \in Frame
      BY <1>0, <2>2 DEF TypeOK
    <3> QED
      BY <3>1, EmptyStack DEF Frame
  <2>4. CASE PropagateSat
    <3>1. Return(<<>>) /\ Top.result = "sat" /\ ~Simple(Top.node) /\ store' = store
      BY <2>4 DEF PropagateSat
    <3>2. stack'[Len(stack) - 1].result = "sat"
      BY <1>0, <2>1, <2>3, <3>1, ReturnFields DEF MergeResults
    <3>3. FrameUnsat'
      BY <1>4, <2>1, <2>3, <3>1, <3>2, ReturnKeepsPending
    <3> QED
      BY <1>4, <2>1, <3>1, <3>3 DEF StoreSound, UnsatSound
  <2>5. CASE PropagateSimpleSat
    <3>1. Return(Parent.children) /\ Simple(Top.node) /\ store' = store
      BY <2>5 DEF PropagateSimpleSat
    <3>2. Open(Parent.node) =>
            \E k \in DOMAIN Parent.children :
                ~Simple(Parent.children[k]) /\ Open(Parent.children[k])
      BY <1>4, <2>1, <3>1, ParentPending
    <3>3. FrameUnsat'
      BY <1>4, <2>1, <2>3, <3>1, <3>2, ReturnKeepsPending
    <3> QED
      BY <1>4, <2>1, <3>1, <3>3 DEF StoreSound, UnsatSound
  <2>6. CASE PropagateUnsat
    <3>1. Top.result = "unsat" /\ store' \subseteq store \cup {Top.node}
      BY <2>6 DEF PropagateUnsat
    <3>2. ~Open(Top.node)
      BY <1>4, <2>1, <3>1, ExhaustedUnsat
    <3>3. StoreSound'
      BY <1>4, <3>1, <3>2 DEF StoreSound
    <3>4. CASE Simple(Top.node)
      <4>1. Return(<<>>)
        BY <2>6, <3>4 DEF PropagateUnsat
      <4>2. ~Open(Parent.node)
        <5>1. n - 1 \in DOMAIN stack /\ n \in DOMAIN stack /\ n > 1
          BY <2>2
        <5>2. /\ IsChild(Top.node, Parent.node) /\ ~Leaf(Parent.node)
          BY <1>0, <2>2, <5>1 DEF BranchOK
        <5>3. Parent.node \in Nodes
          BY <1>0, <2>1, <2>3, <4>1, ReturnFields
        <5>4. PICK k \in DOMAIN Children(Parent.node) : Top.node = Children(Parent.node)[k]
          BY <5>2 DEF IsChild
        <5> QED
          BY <3>2, <3>4, <5>2, <5>3, <5>4, DecomposeAssumption
      <4>3. FrameUnsat'
        BY <1>4, <2>1, <2>3, <4>1, <4>2, ReturnKeepsPending
      <4> QED
        BY <1>4, <2>1, <3>3, <4>3 DEF UnsatSound
    <3>5. CASE ~Simple(Top.node)
      <4>1. Return(Parent.children)
        BY <2>6, <3>5 DEF PropagateUnsat
      <4>2. Open(Parent.node) =>
              \E k \in DOMAIN Parent.children :
                ~Simple(Parent.children[k]) /\ Open(Parent.children[k])
        BY <1>4, <2>1, <3>2, ParentPending
      <4>3. FrameUnsat'
        BY <1>4, <2>1, <2>3, <4>1, <4>2, ReturnKeepsPending
      <4> QED
        BY <1>4, <2>1, <3>3, <4>3 DEF UnsatSound
    <3> QED
      BY <3>4, <3>5
  <2>7. CASE PropagateUndefined
    <3>1. Top.result = "undefined" /\ n \in DOMAIN stack
      BY <2>2, <2>7 DEF PropagateUndefined
    <3> QED
      BY <1>4, <2>2, <3>1 DEF UndefinedOnlyIfCut
  <2> QED
    BY <1>14, <2>4, <2>5, <2>6, <2>7 DEF Returns
<1>15. CASE ChildOpened
  <2>1. FrameUnsat'
    BY <1>4, <1>15, OpenKeepsPending
  <2>2. UNCHANGED <<store, verdict, root>>
    BY <1>15 DEF ChildOpened
  <2> QED
    BY <1>4, <2>1, <2>2 DEF StoreSound, UnsatSound
<1> QED
  BY <1>6, <1>7, <1>8, <1>9, <1>10, <1>11, <1>12, <1>13, <1>14, <1>15, NextSplit DEF Settles

\* What the two theorems about "unsat" share
LEMMA UnsatInvariant == Spec => [](StoreSound /\ UnsatSound)
<1> DEFINE UInv == UndefinedOnlyIfCut /\ SatDone /\ FrameUnsat /\ StoreSound /\ UnsatSound
<1>1. Init => UInv
  BY DEF Init, UndefinedOnlyIfCut, UnknownOnlyIfCut, SatDone, FrameUnsat, StoreSound, UnsatSound
<1>2. StructInv /\ UInv /\ [Next]_vars => UInv'
  BY UnsatStep, CutStep, SatDoneStep
<1>3. UInv => StoreSound /\ UnsatSound
  OBVIOUS
<1> HIDE DEF UInv
<1> QED
  BY <1>1, <1>2, <1>3, Structure, PTL DEF Spec

\* An "unsat" answer of the driver is right for every tableau and every coverage
\* test of the memo store, unless a child was given up at max_depth, a simple frame
\* dropped siblings in Case 2.1, or a node was turned away although it is open.
\* No other step of tableau_loop, in whatever order results come back, closes a
\* frame with a branch below it.
THEOREM UnsatCorrect == Spec => []UnsatSound
<1>1. StoreSound /\ UnsatSound => UnsatSound
  OBVIOUS
<1> QED
  BY <1>1, UnsatInvariant, PTL

\* The store holds no open node unless one of the three happened before: what
\* propagate_result stores is closed, simple nodes and nodes whose own children were
\* memoized included.  So the first open node that is turned away is turned away by
\* a coverage test that is wrong about a closed node.
THEOREM StoreCorrect == Spec => []StoreSound
<1>1. StoreSound /\ UnsatSound => StoreSound
  OBVIOUS
<1> QED
  BY <1>1, UnsatInvariant, PTL

----------------------------------------------------------------------------
(* The core *)

\* One step preserves "what was found unsatisfiable has left a core behind".
LEMMA CoreStep ==
    ASSUME StructInv, CoreRecorded, [Next]_vars
    PROVE  CoreRecorded'
<1>0. TypeOK
  BY DEF StructInv
<1> DEFINE n == Len(stack)
\* The core only grows.
<1>1. core \subseteq core'
  BY DEF Next, vars, RootRejected, RootLeaf, RootOpened, FinishRoot, PropagateSat,
         PropagateSimpleSat, PropagateUnsat, PropagateUndefined, ChildCut, ChildInconsistent,
         ChildMemoized, ChildLeaf, ChildOpened, Returned
<1>2. CASE UNCHANGED vars
  BY <1>2 DEF vars, CoreRecorded, CoreAfterSearch, RootWasOpened
<1>3. CASE RootRejected \/ RootLeaf
  BY <1>3 DEF RootRejected, RootLeaf, NotStarted, CoreRecorded, CoreAfterSearch, RootWasOpened
<1>4. CASE RootOpened
  <2>1. /\ DOMAIN stack' = 1 .. 1 /\ stack'[1].result = None /\ Consistent(Literals(root))
        /\ UNCHANGED <<root, store, core, verdict>>
    BY <1>4 DEF RootOpened, NewFrame
  <2> QED
    BY <2>1 DEF CoreRecorded, CoreAfterSearch, RootWasOpened, None
<1>5. CASE FinishRoot
  <2>1. /\ n > 0 /\ Top = stack[n] /\ n \in DOMAIN stack
        /\ stack' = <<>> /\ UNCHANGED <<root, store, core>> /\ verdict' = AnswerOf(Top.result)
    BY <1>0, <1>5 DEF FinishRoot, TypeOK, Top
  <2>2. Top.result \in JobState
    BY <1>0, <1>5, <2>1, TopType DEF FinishRoot, Finished, Result
  <2>3. AnswerOf(Top.result) = "unsat" => core # {}
    BY <2>1, <2>2 DEF AnswerOf, JobState, CoreRecorded
  <2> QED
    BY <2>1, <2>3 DEF CoreRecorded, CoreAfterSearch
<1>6. CASE Settles
  <2>1. HasChild /\ UNCHANGED <<root, verdict>>
    BY <1>6 DEF Settles
  <2>2. n \in DOMAIN stack /\ Top = stack[n]
    BY <1>0, <2>1 DEF HasChild, TypeOK, Top
  <2>3. store' = store /\ \E ch \in Seq(Nodes), r \in Result :
            Settle(ch, r) /\ (r = "unsat" => core' # {})
    <3>1. /\ Siblings \in Seq(Nodes) /\ Top.result \in Result /\ <<>> \in Seq(Nodes)
          /\ {"undefined", "unsat", "sat"} \subseteq Result
      BY <1>0, <2>1, TopType, EmptyStack DEF HasChild, Result, JobState
    <3>2. CASE ChildLeaf
      <4>1. Top.result = "unsat" => core # {}
        BY <2>2 DEF CoreRecorded
      <4> QED
        BY <3>1, <3>2, <4>1 DEF ChildLeaf
    <3>3. CASE ChildCut
      BY <3>1, <3>3 DEF ChildCut
    <3>4. CASE ChildInconsistent
      <4>1. PICK c \in Cores(CheckSet(Top.solver, Child)) : core' = core \cup c
        BY <3>4 DEF ChildInconsistent
      <4>2. CheckSet(Top.solver, Child) \in SUBSET Literal
        BY <1>0, <2>1, CheckSetType DEF StructInv
      <4>3. c # {}
        BY <4>1, <4>2, SolverAssumption
      <4> QED
        BY <3>1, <3>4, <4>1, <4>3 DEF ChildInconsistent, SettleUnsat
    <3>5. CASE ChildMemoized
      <4>1. store # {}
        BY <3>5 DEF ChildMemoized, Memoized, Rejected
      <4>2. core' # {}
        BY <1>1, <4>1 DEF CoreRecorded
      <4> QED
        BY <3>1, <3>5, <4>2 DEF ChildMemoized, SettleUnsat
    <3> QED
      BY <1>6, <3>2, <3>3, <3>4, <3>5 DEF Settles
  <2>4. PICK ch \in Seq(Nodes), r \in Result : Settle(ch, r) /\ (r = "unsat" => core' # {})
    BY <2>3
  <2>5. /\ n \in Nat \ {0} /\ DOMAIN stack = 1 .. n /\ DOMAIN stack' = 1 .. n
        /\ \A i \in 1 .. n - 1 : stack'[i] = stack[i]
        /\ stack'[n].result = r
    BY <1>0, <2>1, <2>4, SettleFields
  <2>6. ASSUME NEW i \in 1 .. n, stack'[i].result = "unsat"
        PROVE  core' # {}
    <3>1. CASE i = n
      BY <2>4, <2>5, <2>6, <3>1
    <3>2. CASE i \in 1 .. n - 1
      <4>1. stack'[i] = stack[i] /\ i \in DOMAIN stack
        BY <2>5, <3>2, UpperEnd
      <4> QED
        BY <1>1, <2>6, <4>1 DEF CoreRecorded
    <3> QED
      BY <2>5, <3>1, <3>2, UpperEnd
  <2>7. RootWasOpened /\ stack # <<>> /\ (store # {} => core # {})
    BY <2>2 DEF CoreRecorded
  <2>8. RootWasOpened' /\ verdict' # "unsat"
    BY <2>1, <2>7 DEF RootWasOpened, HasChild
  <2> QED
    BY <1>1, <2>3, <2>5, <2>6, <2>7, <2>8 DEF CoreRecorded, CoreAfterSearch
<1>7. CASE Returns
  <2>1. Finished /\ n > 1 /\ UNCHANGED <<root, verdict, core>>
    BY <1>7 DEF Returns, PropagateSat, PropagateSimpleSat, PropagateUnsat, PropagateUndefined
  <2>2. PICK ch \in Seq(Nodes) : Return(ch)
    BY <1>7, ReturnsWith
  <2>3. /\ n \in Nat /\ DOMAIN stack = 1 .. n /\ DOMAIN stack' = 1 .. n - 1
        /\ \A i \in 1 .. n - 2 : stack'[i] = stack[i]
        /\ Top = stack[n] /\ Parent = stack[n - 1]
        /\ MergedFrom(stack'[n - 1].result, Parent.result, Top.result, Simple(Top.node))
    BY <1>0, <2>1, <2>2, ReturnFields
  <2>4. n - 1 \in DOMAIN stack /\ n \in DOMAIN stack
    BY <2>1, <2>3
  <2>5. stack'[n - 1].result = "unsat" => core # {}
    <3>1. stack'[n - 1].result = "unsat" => Parent.result = "unsat" \/ Top.result = "unsat"
      BY <2>3 DEF MergedFrom
    <3> QED
      BY <2>3, <2>4, <3>1 DEF CoreRecorded
  <2>6. ASSUME NEW i \in 1 .. n - 1, stack'[i].result = "unsat"
        PROVE  core # {}
    <3>1. CASE i = n - 1
      BY <2>5, <2>6, <3>1
    <3>2. CASE i \in 1 .. n - 2
      <4>1. stack'[i] = stack[i] /\ i \in DOMAIN stack
        BY <2>3, <3>2
      <4> QED
        BY <2>6, <4>1 DEF CoreRecorded
    <3> QED
      BY <2>3, <3>1, <3>2, UpperEnd
  <2>7. store' # {} => core # {}
    <3>1. store' = store \/ Top.result = "unsat"
      BY <1>7 DEF Returns, PropagateSat, PropagateSimpleSat, PropagateUnsat, PropagateUndefined
    <3> QED
      BY <2>3, <2>4, <3>1 DEF CoreRecorded
  <2>8. RootWasOpened /\ verdict # "unsat"
    BY <2>1, <2>4 DEF CoreRecorded, Finished, OutOfChildren
  <2> QED
    BY <2>1, <2>3, <2>6, <2>7, <2>8 DEF CoreRecorded, CoreAfterSearch, RootWasOpened
<1>8. CASE ChildOpened
  <2>1. UNCHANGED <<root, store, core, verdict>> /\ HasChild
    BY <1>8 DEF ChildOpened, WithinDepth
  <2>2. /\ n \in Nat \ {0} /\ DOMAIN stack = 1 .. n /\ DOMAIN stack' = 1 .. n + 1
        /\ \A i \in 1 .. n - 1 : stack'[i] = stack[i]
        /\ stack'[n].result = Top.result /\ Top = stack[n]
        /\ stack'[n + 1].result = None
    BY <1>0, <1>8, OpenFields
  <2>3. ASSUME NEW i \in 1 .. n + 1, stack'[i].result = "unsat"
        PROVE  core # {}
    <3>1. CASE i = n + 1
      BY <2>2, <2>3, <3>1 DEF None
    <3>2. CASE i = n
      BY <2>2, <2>3, <3>2 DEF CoreRecorded
    <3>3. CASE i \in 1 .. n - 1
      <4>1. stack'[i] = stack[i] /\ i \in DOMAIN stack
        BY <2>2, <3>3, UpperEnd
      <4> QED
        BY <2>3, <4>1 DEF CoreRecorded
    <3> QED
      BY <2>2, <3>1, <3>2, <3>3, UpperEnd
  <2>4. stack # <<>> /\ RootWasOpened
    BY <2>2 DEF CoreRecorded
  <2> QED
    BY <2>1, <2>2, <2>3, <2>4 DEF CoreRecorded, CoreAfterSearch, RootWasOpened, HasChild
<1> QED
  BY <1>2, <1>3, <1>4, <1>5, <1>6, <1>7, <1>8, NextSplit

\* An "unsat" answer of tableau_loop comes with a recorded core, memoized children
\* included: whatever filled the store had recorded a core before.
THEOREM CoreFound == Spec => []CoreAfterSearch
<1>1. Init => CoreRecorded
  BY DEF Init, CoreRecorded, CoreAfterSearch
<1>2. StructInv /\ CoreRecorded /\ [Next]_vars => CoreRecorded'
  BY CoreStep
<1>3. CoreRecorded => CoreAfterSearch
  BY DEF CoreRecorded
<1> QED
  BY <1>1, <1>2, <1>3, Structure, PTL DEF Spec

----------------------------------------------------------------------------
(* The trace *)

\* A nonempty stretch of a branch, down to its leaf
Stretch(t) ==
    /\ t # <<>>
    /\ Leaf(t[Len(t)])
    /\ \A i \in 1 .. Len(t) - 1 : ComesNext(t[i], t[i + 1])
    /\ \A i \in DOMAIN t : Poised(t[i]) /\ Consistent(Literals(t[i]))

\* The front frame is satisfiable: its result is on the way to the root.
Returning == verdict = "none" /\ stack # <<>> /\ stack[Len(stack)].result = "sat"

\* The trace is empty until a leaf is found; then it is what lies below the front frame.
TraceInv ==
    /\ verdict = "none" /\ ~Returning => trace = <<>>
    /\ Returning => Stretch(trace) /\ ComesNext(stack[Len(stack)].node, trace[1])
    /\ verdict = "sat" => Stretch(trace) /\ FollowsIn(root, trace[1])

----------------------------------------------------------------------------
(* Branches *)

\* One more node in front of a stretch.
LEMMA Lengthened ==
    ASSUME NEW t \in Seq(Nodes), Stretch(t), NEW n \in Nodes,
           ComesNext(n, t[1]), Poised(n), Consistent(Literals(n)),
           NEW u, u = <<n>> \o t
    PROVE  Stretch(u) /\ u[1] = n
<1>1. PICK k \in Nat \ {0} : k = Len(t)
  BY DEF Stretch
<1>2. /\ u \in Seq(Nodes) /\ Len(u) = k + 1 /\ DOMAIN u = 1 .. k + 1 /\ DOMAIN t = 1 .. k
      /\ u[1] = n
      /\ \A i \in 1 .. k : u[i + 1] = t[i]
  BY <1>1
<1>3. \A i \in 1 .. k + 1 : i = 1 \/ (i - 1 \in 1 .. k /\ i = (i - 1) + 1)
  OBVIOUS
<1>4. u # <<>>
  BY <1>2
<1>5. Leaf(u[k + 1])
  BY <1>1, <1>2 DEF Stretch
<1>6. \A i \in 1 .. k + 1 : Poised(u[i]) /\ Consistent(Literals(u[i]))
  BY <1>2, <1>3 DEF Stretch
<1>7. ASSUME NEW i \in 1 .. (k + 1) - 1 PROVE ComesNext(u[i], u[i + 1])
  <2>1. CASE i = 1
    BY <1>1, <1>2, <2>1
  <2>2. CASE i # 1
    <3>1. i - 1 \in 1 .. k - 1 /\ i - 1 \in 1 .. k /\ i \in 1 .. k
      BY <1>1, <1>7, <2>2
    <3>2. u[(i - 1) + 1] = t[i - 1] /\ u[i + 1] = t[i] /\ (i - 1) + 1 = i
      BY <1>2, <3>1
    <3>3. ComesNext(t[i - 1], t[(i - 1) + 1])
      BY <1>1, <3>1 DEF Stretch
    <3> QED
      BY <3>2, <3>3
  <2> QED
    BY <2>1, <2>2
<1> QED
  BY <1>2, <1>4, <1>5, <1>6, <1>7 DEF Stretch

\* A leaf alone is a stretch.
LEMMA LeafAlone ==
    ASSUME NEW n \in Nodes, Leaf(n), Consistent(Literals(n)), NEW u, u = <<n>>
    PROVE  Stretch(u) /\ u[1] = n
<1>1. Poised(n)
  BY DecomposeAssumption
<1>2. Len(u) = 1 /\ DOMAIN u = 1 .. 1 /\ u[1] = n /\ u # <<>>
  OBVIOUS
<1>3. \A i \in 1 .. 1 - 1 : FALSE
  OBVIOUS
<1> QED
  BY <1>1, <1>2, <1>3 DEF Stretch

\* Every node is on its own branch.
LEMMA FollowsSelf == ASSUME NEW n \in Nodes PROVE FollowsIn(n, n)
BY BranchAssumption DEF FollowsIn

\* What is in the instant of a full child comes next after the parent.
LEMMA NextThroughChild ==
    ASSUME NEW n \in Nodes, ~Leaf(n), NEW c, IsChild(c, n), ~Simple(c),
           NEW m, FollowsIn(c, m)
    PROVE  ComesNext(n, m)
<1>1. PICK i \in DOMAIN Children(n) : c = Children(n)[i]
  BY DEF IsChild
<1>2. Time(c) = Time(n) => Literals(n) \subseteq Literals(c)
  BY <1>1, DecomposeAssumption
<1> QED
  BY <1>1, <1>2 DEF ComesNext, FollowsIn

\* What comes next after a node that is not poised is in the same instant.
LEMMA NextOfUnpoised ==
    ASSUME NEW n \in Nodes, ~Leaf(n), ~Poised(n), NEW m, ComesNext(n, m)
    PROVE  FollowsIn(n, m)
<1>1. PICK i \in DOMAIN Children(n) :
        LET c == Children(n)[i] IN
        /\ ~Simple(c)
        /\ FollowsIn(c, m)
        /\ Time(c) = Time(n) => Literals(n) \subseteq Literals(m)
  BY DEF ComesNext
<1> DEFINE c == Children(n)[i]
<1>2. c \in Nodes /\ Time(c) \in Nat /\ Time(n) \in Nat
  BY NodeAssumption
<1>3. Time(c) >= Time(n)
  BY DecomposeAssumption
<1>4. ~(Time(c) > Time(n)) /\ Under(c) \subseteq Under(n)
  BY <1>1, BranchAssumption
<1>5. Time(c) = Time(n)
  BY <1>2, <1>3, <1>4
<1> QED
  BY <1>1, <1>4, <1>5 DEF FollowsIn

----------------------------------------------------------------------------
(* The steps *)

\* A satisfiable frame that ends adds its node if it is poised: the trace is then in
\* the instant of that node.
LEMMA TraceOfFrame ==
    ASSUME NEW n \in Nodes, ~Leaf(n), Consistent(Literals(n)),
           NEW t \in Seq(Nodes), Stretch(t), ComesNext(n, t[1]),
           NEW u, u = IF Poised(n) THEN <<n>> \o t ELSE t
    PROVE  Stretch(u) /\ FollowsIn(n, u[1])
<1>1. CASE Poised(n)
  <2>1. u = <<n>> \o t
    BY <1>1
  <2>2. Stretch(u) /\ u[1] = n
    BY <1>1, <2>1, Lengthened
  <2> QED
    BY <2>2, FollowsSelf
<1>2. CASE ~Poised(n)
  BY <1>2, NextOfUnpoised
<1> QED
  BY <1>1, <1>2

\* While results go up the trace grows along the branch; what a simple node found is
\* thrown away; and a search that goes on has none.
LEMMA TraceStep ==
    ASSUME StructInv, SatDone, TraceInv, [Next]_vars
    PROVE  TraceInv'
<1> DEFINE n == Len(stack)
<1>0. TypeOK /\ trace \in Seq(Nodes) /\ root \in Nodes
  BY OptionsAssumption DEF StructInv, TypeOK
<1>a. ASSUME HasChild PROVE ~Returning /\ trace = <<>> /\ verdict = "none" /\ n \in DOMAIN stack
  <2>1. n \in DOMAIN stack /\ stack[n].children # <<>>
    BY <1>0, <1>a DEF HasChild, TypeOK, Top
  <2>2. ~Returning
    BY <2>1 DEF SatDone, Returning
  <2> QED
    BY <1>a, <2>1, <2>2 DEF TraceInv, HasChild
<1>b. ASSUME Finished
      PROVE  /\ n \in Nat \ {0} /\ n \in DOMAIN stack /\ Top = stack[n]
             /\ verdict = "none"
             /\ Top.node \in Nodes /\ ~Leaf(Top.node) /\ Consistent(Literals(Top.node))
             /\ Top.result = "sat" <=> Returning
  <2>1. n \in Nat \ {0} /\ n \in DOMAIN stack /\ Top = stack[n] /\ Top.node \in Nodes
    BY <1>0, <1>b, TopType DEF Finished, OutOfChildren, TypeOK, Top
  <2>2. ~Leaf(Top.node) /\ Consistent(Literals(Top.node))
    BY <2>1 DEF StructInv, BranchOK
  <2>3. stack # <<>> /\ verdict = "none"
    BY <1>b, <2>1 DEF Finished, OutOfChildren
  <2> QED
    BY <2>1, <2>2, <2>3 DEF Returning
<1>1. CASE UNCHANGED vars
  BY <1>1 DEF vars, TraceInv, Returning
<1>2. CASE RootRejected
  BY <1>2 DEF RootRejected, TraceInv, Returning
<1>3. CASE RootLeaf
  <2>1. /\ trace' = <<root>> /\ verdict' = "sat" /\ root' = root
        /\ Leaf(root) /\ Consistent(Literals(root))
    BY <1>3 DEF RootLeaf
  <2>2. Stretch(trace') /\ FollowsIn(root, trace'[1])
    BY <1>0, <2>1, LeafAlone, FollowsSelf
  <2> QED
    BY <2>1, <2>2 DEF TraceInv, Returning
<1>4. CASE RootOpened
  <2>1. /\ Len(stack') = 1 /\ stack'[1].result = None
        /\ trace' = trace /\ verdict' = "none" /\ stack = <<>>
    BY <1>4 DEF RootOpened, NewFrame, NotStarted
  <2>2. trace = <<>>
    BY <1>4 DEF RootOpened, NotStarted, TraceInv, Returning
  <2> QED
    BY <2>1, <2>2 DEF TraceInv, Returning, None
<1>5. CASE FinishRoot
  <2>1. /\ Finished /\ n = 1
        /\ verdict' = AnswerOf(Top.result)
        /\ trace' = IF Top.result = "sat" /\ Poised(Top.node) THEN <<Top.node>> \o trace ELSE trace
        /\ root' = root
    BY <1>5 DEF FinishRoot
  <2>2. Top.node = root
    BY <1>b, <2>1 DEF StructInv, BranchOK
  <2>3. Top.result \in JobState
    BY <1>0, <1>b, <2>1, TopType DEF Finished, Result
  <2>4. verdict' # "none" /\ (verdict' = "sat" => Top.result = "sat")
    BY <2>1, <2>3 DEF AnswerOf, JobState
  <2>5. ASSUME Top.result = "sat" PROVE Stretch(trace') /\ FollowsIn(root, trace'[1])
    <3>1. Stretch(trace) /\ ComesNext(Top.node, trace[1])
      BY <1>b, <2>1, <2>5 DEF TraceInv
    <3>2. trace' = IF Poised(Top.node) THEN <<Top.node>> \o trace ELSE trace
      BY <2>1, <2>5
    <3> QED
      BY <1>0, <1>b, <2>1, <2>2, <3>1, <3>2, TraceOfFrame
  <2> QED
    BY <2>1, <2>4, <2>5 DEF TraceInv, Returning
<1>6. CASE Settles
  <2>1. HasChild /\ root' = root /\ verdict' = verdict
    BY <1>6 DEF Settles
  <2>2. n \in Nat \ {0} /\ Child \in Nodes /\ ~Leaf(Top.node) /\ Top.node \in Nodes
        /\ IsChild(Child, Top.node) /\ (Simple(Child) => ~Leaf(Child))
    BY <1>0, <1>a, <2>1, ChildFacts DEF TypeOK
  <2>3. ASSUME ChildCut \/ ChildInconsistent \/ ChildMemoized PROVE TraceInv'
    <3>1. PICK ch \in Seq(Nodes), r \in Result : Settle(ch, r) /\ r # "sat"
      <4>1. /\ Siblings \in Seq(Nodes) /\ <<>> \in Seq(Nodes)
            /\ "undefined" \in Result /\ "unsat" \in Result
        BY <1>0, <1>a, <2>1, TopType, EmptyStack DEF HasChild, Result, JobState
      <4>2. \/ Settle(Siblings, "undefined")
            \/ Settle(Siblings, "unsat")
            \/ Settle(<<>>, "unsat")
        BY <2>3 DEF ChildCut, ChildInconsistent, ChildMemoized, SettleUnsat
      <4> QED
        BY <4>1, <4>2
    <3>2. stack'[n].result = r /\ Len(stack') = n
      BY <1>0, <2>1, <3>1, SettleFields, SettleShape
    <3>3. trace' = trace
      BY <2>3 DEF ChildCut, ChildInconsistent, ChildMemoized
    <3> QED
      BY <1>a, <2>1, <3>1, <3>2, <3>3 DEF TraceInv, Returning
  <2>4. ASSUME ChildLeaf PROVE TraceInv'
    <3>1. Leaf(Child) /\ CheckPasses(Top.solver, Child) /\ trace' = <<Child>> \o trace
      BY <2>4 DEF ChildLeaf
    <3>2. ~Simple(Child) /\ Settle(<<>>, "sat")
      BY <2>2, <2>4, <3>1 DEF ChildLeaf
    <3>3. Consistent(Literals(Child))
      BY <2>1, <3>1, PassedConsistent DEF StructInv
    <3>4. trace' = <<Child>>
      BY <1>a, <2>1, <2>2, <3>1
    <3>5. Stretch(trace') /\ trace'[1] = Child
      BY <2>2, <3>1, <3>3, <3>4, LeafAlone
    <3>6. ComesNext(Top.node, Child)
      BY <2>2, <3>2, FollowsSelf, NextThroughChild
    <3>7. <<>> \in Seq(Nodes) /\ "sat" \in Result
      BY EmptyStack DEF Result, JobState
    <3>8. stack'[n].result = "sat" /\ stack'[n].node = Top.node /\ Len(stack') = n
      BY <1>0, <2>1, <3>2, <3>7, SettleFields, SettleShape
    <3>9. stack' # <<>>
      BY <2>2, <3>8
    <3> QED
      BY <1>a, <2>1, <3>5, <3>6, <3>8, <3>9 DEF TraceInv, Returning
  <2> QED
    BY <1>6, <2>3, <2>4 DEF Settles
<1>7. CASE Returns
  <2>1. Finished /\ n > 1 /\ root' = root /\ verdict' = "none"
    BY <1>7, <1>b DEF Returns
  <2>2. PICK ch \in Seq(Nodes) : Return(ch)
    BY <1>7, ReturnsWith
  <2>a. n \in Nat /\ n - 1 \in 1 .. n /\ n - 1 # n /\ n - 1 # 0 /\ DOMAIN stack = 1 .. n
    BY <1>b, <2>1 DEF StructInv, TypeOK
  <2>3. /\ Parent = stack[n - 1]
        /\ stack'[n - 1].node = Parent.node
        /\ stack'[n - 1].result = MergeResults(Parent.result, Top.result, Simple(Top.node))
        /\ MergedFrom(stack'[n - 1].result, Parent.result, Top.result, Simple(Top.node))
        /\ Simple(Top.node) \in BOOLEAN /\ Parent.node \in Nodes
    BY <1>0, <2>1, <2>2, ReturnFields
  <2>4. Len(stack') = n - 1 /\ stack' # <<>>
    <3>1. stack' \in Seq(Frame) /\ Len(stack') = n - 1
      BY <1>0, <2>1, <2>2, ReturnShape
    <3> QED
      BY <2>a, <3>1
  <2>5. n - 1 \in DOMAIN stack /\ n - 1 # n
    BY <2>a
  <2>6. Parent.result # "sat"
    BY <2>3, <2>5 DEF SatDone
  <2>7. Returning' <=> Top.result = "sat" /\ ~Simple(Top.node)
    <3>1. Returning' <=> stack'[n - 1].result = "sat"
      BY <2>1, <2>4 DEF Returning
    <3>2. stack'[n - 1].result = "sat" => Top.result = "sat" /\ ~Simple(Top.node)
      BY <2>3, <2>6 DEF MergedFrom
    <3>3. Top.result = "sat" /\ ~Simple(Top.node) => stack'[n - 1].result = "sat"
      BY <2>3 DEF MergeResults
    <3> QED
      BY <3>1, <3>2, <3>3
  <2>8. CASE PropagateSat
    <3>1. /\ Top.result = "sat" /\ ~Simple(Top.node)
          /\ trace' = IF Poised(Top.node) THEN <<Top.node>> \o trace ELSE trace
      BY <2>8 DEF PropagateSat
    <3>2. Stretch(trace) /\ ComesNext(Top.node, trace[1])
      BY <1>b, <2>1, <3>1 DEF TraceInv
    <3>3. Stretch(trace') /\ FollowsIn(Top.node, trace'[1])
      BY <1>0, <1>b, <2>1, <3>1, <3>2, TraceOfFrame
    <3>4. IsChild(Top.node, Parent.node) /\ ~Leaf(Parent.node)
      BY <1>b, <2>1, <2>3, <2>5 DEF StructInv, BranchOK
    <3>5. ComesNext(Parent.node, trace'[1])
      BY <2>3, <3>1, <3>3, <3>4, NextThroughChild
    <3> QED
      BY <2>1, <2>3, <2>4, <2>7, <3>1, <3>3, <3>5 DEF TraceInv
  <2>9. CASE PropagateSimpleSat \/ PropagateUnsat \/ PropagateUndefined
    <3>1. Top.result = "sat" => trace' = <<>> /\ Simple(Top.node)
      BY <2>9 DEF PropagateSimpleSat, PropagateUnsat, PropagateUndefined
    <3>2. Top.result # "sat" => trace' = trace /\ trace = <<>>
      <4>1. Top.result # "sat" => trace' = trace
        BY <2>9 DEF PropagateSimpleSat, PropagateUnsat, PropagateUndefined
      <4> QED
        BY <1>b, <2>1, <4>1 DEF TraceInv
    <3> QED
      BY <2>1, <2>7, <3>1, <3>2 DEF TraceInv
  <2> QED
    BY <1>7, <2>8, <2>9 DEF Returns
<1>8. CASE ChildOpened
  <2>1. HasChild /\ trace' = trace /\ verdict' = verdict /\ root' = root
    BY <1>8 DEF ChildOpened, WithinDepth
  <2>2. Len(stack') = n + 1
    BY <1>0, <1>8, OpenShape
  <2>3. stack'[n + 1].result = None
    BY <1>0, <1>8, OpenFields
  <2> QED
    BY <1>a, <2>1, <2>2, <2>3 DEF TraceInv, Returning, None
<1> QED
  BY <1>1, <1>2, <1>3, <1>4, <1>5, <1>6, <1>7, <1>8, NextSplit

\* The trace of a "sat" answer is one branch of the tableau, whatever branches and
\* simple nodes were tried before: no instant is missing in it, and what full_trace
\* leaves out of two nodes at one instant is in the other.
THEOREM TraceCorrect == Spec => []TraceIsBranch
<1>1. Init => TraceInv /\ SatDone
  BY DEF Init, TraceInv, Returning, SatDone
<1>2. StructInv /\ SatDone /\ TraceInv /\ [Next]_vars => TraceInv' /\ SatDone'
  BY TraceStep, SatDoneStep
<1>3. TraceInv => TraceIsBranch
  BY DEF TraceInv, TraceIsBranch, Stretch
<1> QED
  BY <1>1, <1>2, <1>3, Structure, PTL DEF Spec

----------------------------------------------------------------------------
(* The driver as a client of its solvers *)

\* A frame knows how deep it is, and its solver is that of the frame below or the next;
\* without a frame there is no solver.
FramesNumbered ==
    /\ \A i \in DOMAIN stack :
        /\ stack[i].depth = i - 1
        /\ i > 1 => stack[i].solver <= stack[i - 1].solver + 1
    /\ stack = <<>> => solvers = <<>>

\* The frames that stay keep their depths and their solvers.
KeptFrames(m) ==
    /\ m \in 1 .. Len(stack)
    /\ DOMAIN stack' = 1 .. m
    /\ \A i \in 1 .. m : stack'[i].depth = stack[i].depth /\ stack'[i].solver = stack[i].solver

LEMMA KeptNumbered ==
    ASSUME TypeOK, FramesNumbered, NEW m, KeptFrames(m)
    PROVE  FramesNumbered'
<1> SUFFICES ASSUME NEW i \in 1 .. m
             PROVE  /\ stack'[i].depth = i - 1
                    /\ i > 1 => stack'[i].solver <= stack'[i - 1].solver + 1
  <2>1. DOMAIN stack' = 1 .. m /\ 1 \in 1 .. m
    BY DEF KeptFrames, TypeOK
  <2>2. stack' # <<>>
    <3>1. 1 \in DOMAIN stack' /\ 1 \notin DOMAIN <<>>
      BY <2>1
    <3> QED
      BY <3>1, Zenon
  <2> QED
    BY <2>1, <2>2 DEF FramesNumbered
<1>1. PICK n \in Nat : n = Len(stack) /\ DOMAIN stack = 1 .. n
  BY DEF TypeOK
<1>2. m \in 1 .. n /\ i \in 1 .. n
  BY <1>1 DEF KeptFrames
<1>3. stack'[i].depth = stack[i].depth /\ stack'[i].solver = stack[i].solver
  BY DEF KeptFrames
<1>4. stack[i].depth = i - 1 /\ (i > 1 => stack[i].solver <= stack[i - 1].solver + 1)
  BY <1>1, <1>2 DEF FramesNumbered
<1>5. ASSUME i > 1 PROVE stack'[i - 1].solver = stack[i - 1].solver
  <2>1. i - 1 \in 1 .. m
    BY <1>2, <1>5
  <2> QED
    BY <2>1 DEF KeptFrames
<1> QED
  BY <1>3, <1>4, <1>5

\* The numbering is kept by every step.
LEMMA NumberedStep ==
    ASSUME StructInv, FramesNumbered, [Next]_vars
    PROVE  FramesNumbered'
<1>0. TypeOK /\ SolverOrder
  BY DEF StructInv
<1>1. PICK n \in Nat : n = Len(stack) /\ DOMAIN stack = 1 .. n
  BY <1>0 DEF TypeOK
<1>2. CASE UNCHANGED <<stack, solvers>>
  BY <1>2 DEF FramesNumbered
<1>3. CASE RootOpened
  <2>1. DOMAIN stack' = 1 .. 1 /\ stack'[1].depth = 0 /\ stack' # <<>>
    BY <1>3 DEF RootOpened, NewFrame
  <2> QED
    BY <2>1 DEF FramesNumbered
<1>4. CASE FinishRoot
  <2>1. stack' = <<>> /\ solvers' = <<>>
    BY <1>4 DEF FinishRoot
  <2> QED
    BY <2>1 DEF FramesNumbered
<1>5. CASE Settles
  <2>1. PICK ch \in Seq(Nodes), r \in Result : Settle(ch, r)
    BY <1>5, SettlesWith
  <2>2. HasChild
    BY <1>5 DEF Settles
  <2>3. /\ stack' \in Seq(Frame) /\ Len(stack') = n
        /\ \A i \in 1 .. n - 1 : stack'[i] = stack[i]
        /\ stack'[n] = [Top EXCEPT !.children = ch, !.result = r]
    BY <1>0, <1>1, <2>1, <2>2, SettleShape
  <2>4. n # 0 /\ Top = stack[n] /\ Top \in Frame
    BY <1>0, <1>1, <2>2, TopType DEF HasChild, Top
  <2>5. stack'[n].depth = stack[n].depth /\ stack'[n].solver = stack[n].solver
    BY <2>3, <2>4 DEF Frame
  <2>6. \A i \in 1 .. n : i \in 1 .. n - 1 \/ i = n
    BY <1>1
  <2>7. DOMAIN stack' = 1 .. n
    BY <2>3
  <2>8. \A i \in 1 .. n : stack'[i].depth = stack[i].depth /\ stack'[i].solver = stack[i].solver
    BY <2>3, <2>5, <2>6
  <2>9. KeptFrames(n)
    BY <1>1, <2>4, <2>7, <2>8 DEF KeptFrames
  <2> QED
    BY <1>0, <2>9, KeptNumbered
<1>6. CASE Returns
  <2>1. PICK ch \in Seq(Nodes) : Return(ch)
    BY <1>0, <1>6, ReturnsWith
  <2>2. Finished /\ n > 1
    BY <1>1, <1>6 DEF Returns
  <2> DEFINE merged == MergeResults(Parent.result, Top.result, Simple(Top.node))
  <2>3. /\ stack' \in Seq(Frame) /\ Len(stack') = n - 1
        /\ \A i \in 1 .. n - 2 : stack'[i] = stack[i]
        /\ Parent \in Frame
        /\ stack'[n - 1] = [Parent EXCEPT !.children = ch, !.result = merged]
    BY <1>0, <1>1, <2>1, <2>2, ReturnShape
  <2>4. Parent = stack[n - 1]
    BY <1>1 DEF Parent
  <2>5. stack'[n - 1].depth = stack[n - 1].depth /\ stack'[n - 1].solver = stack[n - 1].solver
    <3> HIDE DEF merged
    <3> QED
      BY <2>3, <2>4 DEF Frame
  <2>6. \A i \in 1 .. n - 1 : i \in 1 .. n - 2 \/ i = n - 1
    BY <1>1
  <2>7. DOMAIN stack' = 1 .. n - 1 /\ n - 1 \in 1 .. n
    BY <2>2, <2>3
  <2>8. \A i \in 1 .. n - 1 :
            stack'[i].depth = stack[i].depth /\ stack'[i].solver = stack[i].solver
    BY <2>3, <2>5, <2>6
  <2>9. KeptFrames(n - 1)
    BY <1>1, <2>7, <2>8 DEF KeptFrames
  <2> QED
    BY <1>0, <2>9, KeptNumbered
<1>7. CASE ChildOpened
  <2>1. /\ stack' \in Seq(Frame) /\ Len(stack') = n + 1
        /\ \A i \in 1 .. n - 1 : stack'[i] = stack[i]
        /\ stack'[n] = [Top EXCEPT !.children = Siblings]
        /\ stack'[n + 1] =
             NewFrame(Child, Top.depth + 1,
                      IF NewInstant(Child) THEN Len(solvers) + 1 ELSE Top.solver)
    BY <1>0, <1>1, <1>7, OpenShape
  <2>2. HasChild
    BY <1>7 DEF ChildOpened, WithinDepth
  <2>3. n # 0 /\ n \in 1 .. n /\ Top = stack[n] /\ Top \in Frame /\ Top.solver = Len(solvers)
    BY <1>0, <1>1, <2>2, TopType DEF HasChild, Top, SolverOrder
  <2>4. stack'[n].depth = stack[n].depth /\ stack'[n].solver = stack[n].solver
    BY <2>1, <2>3 DEF Frame
  <2>5. Top.depth = n - 1 /\ Top.solver \in Nat
    BY <1>1, <2>3 DEF FramesNumbered, Frame
  <2>6. stack'[n + 1].depth = n /\ stack'[n + 1].solver <= stack'[n].solver + 1
    <3>1. stack'[n + 1].depth = Top.depth + 1
      BY <2>1 DEF NewFrame
    <3>2. stack'[n + 1].solver = IF NewInstant(Child) THEN Top.solver + 1 ELSE Top.solver
      BY <2>1, <2>3 DEF NewFrame
    <3> QED
      BY <2>3, <2>4, <2>5, <3>1, <3>2
  <2>7. ASSUME NEW i \in 1 .. n + 1
        PROVE  /\ stack'[i].depth = i - 1
               /\ i > 1 => stack'[i].solver <= stack'[i - 1].solver + 1
    <3>1. CASE i = n + 1
      <4>1. i - 1 = n
        BY <3>1
      <4> QED
        BY <2>6, <3>1, <4>1
    <3>2. CASE i # n + 1
      <4>1. i \in 1 .. n /\ i \in DOMAIN stack
        BY <1>1, <3>2
      <4>2. \A j \in 1 .. n : stack'[j].depth = stack[j].depth /\ stack'[j].solver = stack[j].solver
        <5>1. \A j \in 1 .. n : j \in 1 .. n - 1 \/ j = n
          BY <1>1
        <5> QED
          BY <2>1, <2>4, <5>1
      <4>3. i > 1 => i - 1 \in 1 .. n
        BY <4>1
      <4> QED
        BY <4>1, <4>2, <4>3 DEF FramesNumbered
    <3> QED
      BY <3>1, <3>2
  <2>8. DOMAIN stack' = 1 .. n + 1 /\ stack' # <<>>
    BY <2>1
  <2> QED
    BY <2>7, <2>8 DEF FramesNumbered
<1>8. CASE RootRejected \/ RootLeaf \/ UNCHANGED vars
  BY <1>2, <1>8 DEF RootRejected, RootLeaf, vars
<1> QED
  BY <1>3, <1>4, <1>5, <1>6, <1>7, <1>8, NextSplit

\* The numbering holds in every reachable state.
LEMMA FramesStayNumbered == Spec => []FramesNumbered
<1>1. Init => FramesNumbered
  BY DEF Init, FramesNumbered
<1>2. StructInv /\ FramesNumbered /\ [Next]_vars => FramesNumbered'
  BY NumberedStep
<1> QED
  BY <1>1, <1>2, Structure, PTL DEF Spec

----------------------------------------------------------------------------
(* How many scopes a solver has *)

\* At most one for each frame
LEMMA ScopesFew ==
    ASSUME TypeOK, SolverMirrorsBranch, NEW s \in DOMAIN solvers
    PROVE  Len(solvers[s]) \in 0 .. Len(stack)
<1>1. PICK n \in Nat : n = Len(stack) /\ DOMAIN stack = 1 .. n
  BY DEF TypeOK
<1>2. PICK l \in Nat : l = Len(solvers[s])
  BY DEF TypeOK
<1>3. PICK b \in 0 .. n : {i \in DOMAIN stack : CheckedOn(i) = s} = (b + 1) .. (b + l)
  BY <1>1, <1>2 DEF SolverMirrorsBranch
<1>4. CASE l = 0
  BY <1>1, <1>2, <1>4
<1>5. CASE l # 0
  <2>1. b + l \in (b + 1) .. (b + l)
    BY <1>2, <1>3, <1>5
  <2>2. b + l \in 1 .. n
    BY <1>1, <1>3, <2>1
  <2> QED
    BY <1>1, <1>2, <1>3, <2>2
<1> QED
  BY <1>4, <1>5

\* None on the solver of the first frame of an instant: its children are checked there.
LEMMA NewSolverEmpty ==
    ASSUME TypeOK, SolverOrder, SolverMirrorsBranch, Len(stack) > 1,
           Top.solver # Parent.solver
    PROVE  Top.solver \in DOMAIN solvers /\ solvers[Top.solver] = <<>>
<1>1. PICK n \in Nat : n = Len(stack) /\ DOMAIN stack = 1 .. n /\ n > 1
  BY DEF TypeOK
<1> DEFINE t == Top.solver
           p == Parent.solver
<1>2. Top = stack[n] /\ Parent = stack[n - 1] /\ n - 1 \in 1 .. n /\ n \in 1 .. n /\ 1 \in 1 .. n
  BY <1>1 DEF Top, Parent
<1>3. t \in DOMAIN solvers /\ \A i \in 1 .. n : stack[i].solver \in Nat
  <2>1. \A i \in 1 .. n : stack[i] \in Frame /\ stack[i].solver \in DOMAIN solvers
    BY <1>1 DEF SolverOrder, TypeOK
  <2> QED
    BY <1>2, <2>1 DEF Frame
<1>4. p < t /\ 1 <= p
  <2>1. p <= t /\ p # t /\ p \in Nat /\ t \in Nat
    BY <1>1, <1>2, <1>3 DEF SolverOrder
  <2>2. stack[1].solver = 1 /\ stack[1].solver <= p
    <3>1. 1 <= n - 1 /\ stack # <<>>
      BY <1>1
    <3> QED
      BY <1>1, <1>2, <3>1 DEF SolverOrder
  <2> QED
    BY <2>1, <2>2
<1>5. ASSUME NEW i \in 1 .. n PROVE CheckedOn(i) # t
  <2>1. CASE i = 1
    <3>1. CheckedOn(i) = 1
      BY <2>1 DEF CheckedOn
    <3>2. t \in Nat /\ p \in Nat
      BY <1>2, <1>3
    <3> QED
      BY <1>4, <3>1, <3>2
  <2>2. CASE i # 1
    <3>1. i - 1 \in 1 .. n /\ i - 1 <= n - 1
      BY <1>1, <2>2
    <3>2. stack[i - 1].solver <= p /\ stack[i - 1].solver \in Nat
      BY <1>1, <1>2, <1>3, <3>1 DEF SolverOrder
    <3>3. CheckedOn(i) = stack[i - 1].solver
      BY <2>2 DEF CheckedOn
    <3> QED
      BY <1>2, <1>3, <1>4, <3>2, <3>3
  <2> QED
    BY <2>1, <2>2
<1>6. PICK l \in Nat : l = Len(solvers[t]) /\ solvers[t] \in Seq(SUBSET Literal)
  BY <1>3 DEF TypeOK
<1>7. PICK b \in 0 .. n : {i \in DOMAIN stack : CheckedOn(i) = t} = (b + 1) .. (b + l)
  BY <1>1, <1>3, <1>6 DEF SolverMirrorsBranch
<1>8. l = 0
  <2> SUFFICES ASSUME l # 0 PROVE FALSE
    OBVIOUS
  <2>1. b + 1 \in (b + 1) .. (b + l)
    BY <1>6, <1>7
  <2> QED
    BY <1>1, <1>5, <1>7, <2>1
<1> QED
  <2>1. solvers[t] = <<>>
    BY <1>6, <1>8, EmptySeq
  <2> QED
    BY <1>3, <2>1

\* Just the root's when the root frame is the only one
LEMMA RootScope ==
    ASSUME TypeOK, SolverOrder, SolverMirrorsBranch, Len(stack) = 1
    PROVE  Len(solvers) = 1 /\ solvers[1] \in Seq(SUBSET Literal) /\ Len(solvers[1]) = 1
<1>a. stack \in Seq(Frame) /\ solvers \in Seq(Seq(SUBSET Literal))
  BY DEF TypeOK
<1>1. DOMAIN stack = 1 .. 1 /\ stack # <<>> /\ Top = stack[1]
  BY <1>a DEF Top
<1>2. 1 \in DOMAIN solvers /\ Len(solvers) = 1
  <2>1. stack[1].solver \in DOMAIN solvers /\ stack[1].solver = 1 /\ Top.solver = Len(solvers)
    BY <1>1 DEF SolverOrder
  <2> QED
    BY <1>1, <2>1
<1>3. PICK l \in Nat : l = Len(solvers[1]) /\ solvers[1] \in Seq(SUBSET Literal)
  <2>1. solvers[1] \in Seq(SUBSET Literal)
    BY <1>a, <1>2
  <2> QED
    BY <2>1
<1>4. PICK b \in 0 .. 1 : {i \in DOMAIN stack : CheckedOn(i) = 1} = (b + 1) .. (b + l)
  BY <1>2, <1>3 DEF SolverMirrorsBranch
<1>5. {i \in DOMAIN stack : CheckedOn(i) = 1} = 1 .. 1
  BY <1>1 DEF CheckedOn
<1>6. 1 \in (b + 1) .. (b + l)
  BY <1>4, <1>5
<1>7. l >= 2 => b + 2 \in 1 .. 1
  BY <1>3, <1>4, <1>5
<1>8. l = 1
  <2>1. b = 0 /\ l >= 1
    BY <1>3, <1>4, <1>6
  <2>2. l \in Nat /\ l < 2
    <3>1. ~(l >= 2)
      BY <1>7, <2>1
    <3> QED
      BY ONLY <3>1, l \in Nat
  <2> QED
    BY ONLY <2>1, <2>2
<1> QED
  BY <1>2, <1>3, <1>8

----------------------------------------------------------------------------
(* Each step of the driver, as a step of the solver that is followed *)

\* Where its scopes stay and it is not left behind or returned to, nothing happens to it.
LEMMA Untouched ==
    ASSUME Scopes' = Scopes, LeftBehind' = LeftBehind
    PROVE  [Stack!Next]_(Stack!vars)
BY DEF Stack!vars

\* Its scopes
LEMMA ScopesType ==
    ASSUME TypeOK
    PROVE  /\ Scopes \in Seq(SUBSET Literal)
           /\ Followed \in DOMAIN solvers => Stack!Asserted = Asserted(Followed)
<1>1. Scopes \in Seq(SUBSET Literal)
  <2>1. CASE Followed \in DOMAIN solvers
    <3>1. solvers[Followed] \in Seq(SUBSET Literal)
      BY <2>1 DEF TypeOK
    <3> QED
      BY <2>1, <3>1 DEF Scopes
  <2>2. CASE Followed \notin DOMAIN solvers
    BY <2>2, EmptySeq DEF Scopes
  <2> QED
    BY <2>1, <2>2
<1>2. Followed \in DOMAIN solvers => Stack!Asserted = Asserted(Followed)
  BY DEF Stack!Asserted, Scopes, Asserted
<1> QED
  BY <1>1, <1>2

\* Returning to the frame below pops a scope of that frame's solver.
LEMMA ReturnIsPop ==
    ASSUME StructInv, FramesNumbered, Returns
    PROVE  [Stack!Next]_(Stack!vars)
<1>0. TypeOK /\ SolverOrder /\ SolverMirrorsBranch
  BY DEF StructInv
<1>1. Len(stack) > 1 /\ solvers' = PopParentScope
  BY DEF Returns
<1> DEFINE p == Parent.solver
<1>2. /\ solvers' \in Seq(Seq(SUBSET Literal))
      /\ Len(solvers') = p
      /\ \A s \in 1 .. p - 1 : solvers'[s] = solvers[s]
      /\ Len(solvers'[p]) = Len(solvers[p]) - 1
      /\ \A k \in 1 .. Len(solvers[p]) - 1 : solvers'[p][k] = solvers[p][k]
  BY <1>0, <1>1, PopShape
<1>3. /\ p \in DOMAIN solvers /\ solvers[p] \in Seq(SUBSET Literal)
      /\ Len(solvers[p]) \in Nat \ {0}
  BY <1>0, <1>1, LastScope
<1>4. PICK t \in Nat : t = Len(solvers) /\ DOMAIN solvers = 1 .. t
  BY <1>0 DEF TypeOK
<1>5. p \in 1 .. t /\ DOMAIN solvers' = 1 .. p
  BY <1>2, <1>3, <1>4
<1>6. Top.solver = t /\ t <= p + 1
  <2>1. PICK n \in Nat : n = Len(stack) /\ DOMAIN stack = 1 .. n /\ n > 1
    BY <1>0, <1>1 DEF TypeOK
  <2>2. stack # <<>> /\ Top = stack[n] /\ Parent = stack[n - 1]
    BY <2>1 DEF Top, Parent
  <2>3. Top.solver = t
    BY <1>4, <2>2 DEF SolverOrder, StructInv
  <2>4. stack[n].solver <= stack[n - 1].solver + 1
    BY <2>1 DEF FramesNumbered
  <2> QED
    BY <2>2, <2>3, <2>4
<1>7. Followed \in Nat \ {0}
  BY FollowedAssumption
<1>8. CASE Followed < p
  <2>1. Followed \in 1 .. t /\ Followed \in 1 .. p /\ Followed \in 1 .. p - 1 /\ Followed < t
    BY <1>5, <1>7, <1>8
  <2>2. Scopes' = Scopes
    BY <1>2, <1>4, <1>5, <2>1 DEF Scopes
  <2>3. LeftBehind' = TRUE /\ LeftBehind = TRUE
    BY <1>2, <1>4, <1>8, <2>1 DEF LeftBehind
  <2> QED
    BY <2>2, <2>3, Untouched
<1>9. CASE Followed = p
  <2>1. Scopes = solvers[p] /\ Scopes' = solvers'[p]
    BY <1>4, <1>5, <1>9 DEF Scopes
  <2>2. LeftBehind' = FALSE
    BY <1>2, <1>5, <1>9 DEF LeftBehind
  <2>3. PICK l \in Nat \ {0} : l = Len(solvers[p])
    BY <1>3
  <2> DEFINE front == SubSeq(solvers[p], 1, l - 1)
  <2>4. /\ front \in Seq(SUBSET Literal) /\ Len(front) = l - 1
        /\ \A k \in 1 .. l - 1 : front[k] = solvers[p][k]
    <3>1. l - 1 \in Nat /\ l - 1 <= Len(solvers[p])
      BY <2>3
    <3> QED
      BY <1>3, <3>1, PrefixType
  <2>5. solvers'[p] \in Seq(SUBSET Literal) /\ Len(solvers'[p]) = l - 1
    BY <1>2, <1>5, <2>3
  <2>6. \A k \in 1 .. l - 1 : solvers'[p][k] = front[k]
    BY <1>2, <2>3, <2>4
  <2>7. solvers'[p] = front
    <3> HIDE DEF front
    <3> QED
      BY <2>4, <2>5, <2>6, SeqEqual
  <2>8. solvers[p] # <<>>
    BY <1>3
  <2>9. Stack!Pop
    BY <2>1, <2>2, <2>3, <2>7, <2>8 DEF Stack!Pop
  <2> QED
    BY <2>9 DEF Stack!Next
<1>10. CASE p < Followed
  <2>1. Followed \notin 1 .. p /\ ~(Followed < p) /\ ~(Followed < t)
    BY <1>4, <1>5, <1>6, <1>7, <1>10
  <2>2. LeftBehind' = FALSE /\ LeftBehind = FALSE
    BY <1>2, <1>4, <2>1 DEF LeftBehind
  <2>3. Scopes' = <<>>
    BY <1>5, <2>1 DEF Scopes
  <2>4. Scopes = <<>>
    <3>1. CASE Followed = t
      <4>1. Top.solver # Parent.solver
        BY <1>5, <1>6, <1>10, <3>1
      <4>2. solvers[Top.solver] = <<>>
        BY <1>0, <1>1, <4>1, NewSolverEmpty
      <4> QED
        BY <1>6, <3>1, <4>2 DEF Scopes
    <3>2. CASE Followed # t
      <4>1. Followed \notin 1 .. t
        BY <1>4, <1>7, <2>1, <3>2
      <4> QED
        BY <1>4, <4>1 DEF Scopes
    <3> QED
      BY <3>1, <3>2
  <2> QED
    BY <2>2, <2>3, <2>4, Untouched
<1> QED
  BY <1>5, <1>7, <1>8, <1>9, <1>10

\* The checks of process_job are those of a client.
LEMMA ClientChecks ==
    ASSUME StructInv, FramesNumbered
    PROVE  ChecksAllowed
<1> SUFFICES ASSUME WithinDepth
             PROVE  /\ Top.solver = Len(solvers)
                    /\ Len(solvers[Top.solver]) <= MaxDepth
                    /\ Consistent(Asserted(Top.solver))
                    /\ IF NewInstant(Child) THEN Literals(Child) = {}
                       ELSE Asserted(Top.solver) \subseteq Literals(Child)
  BY DEF ChecksAllowed
<1>0. TypeOK /\ SolverOrder /\ SolverMirrorsBranch /\ HasChild
  BY DEF StructInv, WithinDepth
<1>1. PICK n \in Nat \ {0} : n = Len(stack) /\ DOMAIN stack = 1 .. n
  BY <1>0, TopType DEF HasChild, TypeOK
<1>2. stack # <<>> /\ Top = stack[n] /\ n \in 1 .. n
  BY <1>1 DEF Top
<1>3. Top.solver = Len(solvers) /\ Top.solver \in DOMAIN solvers
  BY <1>0, <1>1, <1>2 DEF SolverOrder
<1>4. Len(solvers[Top.solver]) <= MaxDepth
  <2>1. Top.depth = n - 1
    BY <1>1, <1>2 DEF FramesNumbered
  <2>2. Top.depth < MaxDepth /\ MaxDepth \in Nat
    BY OptionsAssumption DEF WithinDepth
  <2>3. Len(solvers[Top.solver]) \in 0 .. n
    BY <1>0, <1>1, <1>3, ScopesFew
  <2> QED
    BY <1>1, <2>1, <2>2, <2>3
<1>5. Asserted(Top.solver) \subseteq Literals(Top.node)
  BY <1>0, AssertedOnTop
<1>6. /\ Top.node \in Nodes /\ Consistent(Literals(Top.node))
      /\ ~NewInstant(Child) => Literals(Top.node) \subseteq Literals(Child)
      /\ NewInstant(Child) => Literals(Child) = {}
  BY <1>0, ChildFacts
<1>7. Consistent(Asserted(Top.solver))
  <2>1. Literals(Top.node) \in SUBSET Literal /\ Asserted(Top.solver) \in SUBSET Literal
    BY <1>5, <1>6 DEF Literal
  <2> QED
    BY <1>5, <1>6, <2>1, SolverAssumption
<1> QED
  BY <1>3, <1>4, <1>5, <1>6, <1>7

\* Opening a child is a check that passed, on the solver of the frame.
LEMMA OpeningIsCheck ==
    ASSUME StructInv, FramesNumbered, ChildOpened
    PROVE  [Stack!Next]_(Stack!vars)
<1>0. TypeOK /\ SolverOrder /\ WithinDepth /\ HasChild /\ CheckPasses(Top.solver, Child)
  BY DEF StructInv, ChildOpened, WithinDepth
<1>1. PICK t \in Nat \ {0} : t = Len(solvers) /\ DOMAIN solvers = 1 .. t /\ t \in 1 .. t
  BY <1>0, OpenSolvers DEF TypeOK
<1>2. PICK u \in Nat : u = Len(solvers') /\ DOMAIN solvers' = 1 .. u
  BY <1>0, OpenSolvers
<1>3. /\ Top.solver = t
      /\ u = IF NewInstant(Child) THEN t + 1 ELSE t
      /\ \A s \in 1 .. t - 1 : solvers'[s] = solvers[s]
      /\ solvers'[t] = Append(solvers[t], Literals(Child))
      /\ NewInstant(Child) => solvers'[t + 1] = <<>>
  BY <1>0, <1>1, <1>2, OpenSolvers
<1>4. Followed \in Nat \ {0}
  BY FollowedAssumption
<1>5. /\ Len(solvers[t]) <= MaxDepth
      /\ Consistent(Asserted(t))
      /\ IF NewInstant(Child) THEN Literals(Child) = {} ELSE Asserted(t) \subseteq Literals(Child)
  BY <1>0, <1>3, ClientChecks DEF ChecksAllowed
<1>6. Consistent(Asserted(t) \cup Literals(Child))
  BY <1>0, <1>3 DEF CheckPasses, CheckSet
<1>7. CASE Followed < t
  <2>1. Followed \in 1 .. t /\ Followed \in 1 .. u /\ Followed \in 1 .. t - 1 /\ Followed < u
    BY <1>1, <1>3, <1>4, <1>7
  <2>2. Scopes' = Scopes
    BY <1>1, <1>2, <1>3, <2>1 DEF Scopes
  <2>3. LeftBehind = TRUE /\ LeftBehind' = TRUE
    BY <1>1, <1>2, <1>7, <2>1 DEF LeftBehind
  <2> QED
    BY <2>2, <2>3, Untouched
<1>8. CASE Followed = t
  <2>1. Followed \in 1 .. t /\ Followed \in 1 .. u /\ ~(Followed < t)
    BY <1>1, <1>3, <1>8
  <2>2. Scopes = solvers[t] /\ Scopes' = Append(Scopes, Literals(Child))
    BY <1>1, <1>2, <1>3, <1>8, <2>1 DEF Scopes
  <2>3. Stack!Asserted = Asserted(t)
    BY <1>0, <1>1, <1>8, ScopesType
  <2>4. LeftBehind = FALSE
    BY <1>1, <2>1 DEF LeftBehind
  <2>5. CASE NewInstant(Child)
    <3>1. Literals(Child) = {} /\ Consistent(Stack!Asserted)
      BY <1>5, <2>3, <2>5
    <3>2. LeftBehind' = TRUE
      <4>1. Followed < u
        BY <1>3, <1>8, <2>5
      <4> QED
        BY <1>2, <4>1 DEF LeftBehind
    <3>3. Stack!CheckLater
      <4>1. Consistent(Stack!Asserted) = TRUE
        BY <3>1
      <4> QED
        BY <2>2, <2>4, <3>1, <3>2, <4>1 DEF Stack!CheckLater
    <3> QED
      BY <3>3 DEF Stack!Next
  <2>6. CASE ~NewInstant(Child)
    <3>1. LeftBehind' = FALSE
      <4>1. ~(Followed < u)
        BY <1>3, <2>1, <2>6
      <4> QED
        BY <1>2, <4>1 DEF LeftBehind
    <3>2. Len(Scopes) < MaxDepth + 1
      <4>1. Len(solvers[t]) \in Nat /\ MaxDepth \in Nat
        BY <1>0, <1>1, OptionsAssumption DEF TypeOK
      <4> QED
        BY <1>5, <2>2, <4>1
    <3>3. Stack!MayCheck(Literals(Child))
      BY <1>5, <2>3, <2>4, <2>6, <3>2 DEF Stack!MayCheck
    <3>4. Child \in Nodes /\ Literals(Child) \in SUBSET Literal
      BY <1>0, ChildFacts DEF Literal
    <3>5. Stack!Check(Literals(Child))
      BY <1>6, <2>2, <2>3, <2>4, <3>1, <3>3 DEF Stack!Check
    <3> QED
      BY <3>4, <3>5 DEF Stack!Next
  <2> QED
    BY <2>5, <2>6
<1>9. CASE t < Followed
  <2>1. Followed \notin 1 .. t /\ ~(Followed < t) /\ ~(Followed < u)
    BY <1>1, <1>3, <1>4, <1>9
  <2>2. LeftBehind = FALSE /\ LeftBehind' = FALSE
    BY <1>1, <1>2, <2>1 DEF LeftBehind
  <2>3. Scopes = <<>>
    BY <1>1, <2>1 DEF Scopes
  <2>4. Scopes' = <<>>
    <3>1. CASE Followed \in 1 .. u
      <4>1. NewInstant(Child) /\ Followed = t + 1
        BY <1>1, <1>3, <1>4, <1>9, <3>1
      <4> QED
        BY <1>2, <1>3, <3>1, <4>1 DEF Scopes
    <3>2. CASE Followed \notin 1 .. u
      BY <1>2, <3>2 DEF Scopes
    <3> QED
      BY <3>1, <3>2
  <2> QED
    BY <2>2, <2>3, <2>4, Untouched
<1> QED
  BY <1>1, <1>4, <1>7, <1>8, <1>9

\* The root is checked by the client's first check.
LEMMA RootIsCheck ==
    ASSUME StructInv, FramesNumbered, RootOpened
    PROVE  [Stack!Next]_(Stack!vars)
<1>1. /\ solvers = <<>> /\ solvers' = <<  <<Literals(root)>>  >>
      /\ Consistent(Literals(root)) /\ root \in Nodes
  BY OptionsAssumption DEF RootOpened, NotStarted, FramesNumbered, StructInv, TypeOK
<1>2. Scopes = <<>> /\ LeftBehind = FALSE /\ Followed \in Nat \ {0}
  BY <1>1, FollowedAssumption DEF Scopes, LeftBehind
<1>3. DOMAIN solvers' = 1 .. 1 /\ Len(solvers') = 1 /\ solvers'[1] = <<Literals(root)>>
  BY <1>1
<1>4. LeftBehind' = FALSE
  BY <1>2, <1>3 DEF LeftBehind
<1>5. CASE Followed = 1
  <2>1. Scopes' = Append(Scopes, Literals(root))
    <3>1. Scopes' = <<Literals(root)>>
      BY <1>3, <1>5 DEF Scopes
    <3>2. Append(<<>>, Literals(root)) = <<Literals(root)>>
      OBVIOUS
    <3> QED
      BY <1>2, <3>1, <3>2
  <2>2. Stack!Asserted = {} /\ Stack!Asserted \cup Literals(root) = Literals(root)
    BY <1>2 DEF Stack!Asserted
  <2>3. Stack!MayCheck(Literals(root))
    <3>1. Len(Scopes) < MaxDepth + 1
      BY <1>2, OptionsAssumption
    <3> QED
      BY <1>2, <2>2, <3>1 DEF Stack!MayCheck
  <2>4. Literals(root) \in SUBSET Literal
    BY <1>1 DEF Literal
  <2>5. Consistent(Stack!Asserted \cup Literals(root))
    BY <1>1, <2>2
  <2>6. Stack!Check(Literals(root))
    BY <1>2, <1>4, <2>1, <2>3, <2>5 DEF Stack!Check
  <2> QED
    BY <2>4, <2>6 DEF Stack!Next
<1>6. CASE Followed # 1
  <2>1. Scopes' = <<>>
    BY <1>2, <1>3, <1>6 DEF Scopes
  <2> QED
    BY <1>2, <1>4, <2>1, Untouched
<1> QED
  BY <1>5, <1>6

\* The root frame ends with the client's last pop.
LEMMA FinishIsPop ==
    ASSUME StructInv, FinishRoot
    PROVE  [Stack!Next]_(Stack!vars)
<1>1. Len(stack) = 1 /\ solvers' = <<>> /\ Followed \in Nat \ {0}
  BY FollowedAssumption DEF FinishRoot
<1>2. Len(solvers) = 1 /\ solvers[1] \in Seq(SUBSET Literal) /\ Len(solvers[1]) = 1
  BY <1>1, RootScope DEF StructInv
<1>3. DOMAIN solvers = 1 .. 1
  BY <1>2 DEF StructInv, TypeOK
<1>4. LeftBehind = FALSE /\ LeftBehind' = FALSE /\ Scopes' = <<>>
  BY <1>1, <1>2 DEF LeftBehind, Scopes
<1>5. CASE Followed = 1
  <2>1. Scopes = solvers[1]
    BY <1>3, <1>5 DEF Scopes
  <2> DEFINE front == SubSeq(solvers[1], 1, 0)
  <2>2. Scopes # <<>> /\ SubSeq(Scopes, 1, Len(Scopes) - 1) = <<>>
    <3>1. front \in Seq(SUBSET Literal) /\ Len(front) = 0
      BY <1>2, PrefixType
    <3>2. front = <<>>
      <4> HIDE DEF front
      <4> QED
        BY <3>1, EmptySeq
    <3>3. SubSeq(Scopes, 1, Len(Scopes) - 1) = front
      <4>1. Len(Scopes) - 1 = 0
        BY <1>2, <2>1
      <4> QED
        BY <2>1, <4>1, Zenon
    <3>4. solvers[1] # <<>>
      BY <1>2
    <3> QED
      BY <2>1, <3>2, <3>3, <3>4
  <2>3. Stack!Pop
    BY <1>4, <2>2 DEF Stack!Pop
  <2> QED
    BY <2>3 DEF Stack!Next
<1>6. CASE Followed # 1
  <2>1. Scopes = <<>>
    BY <1>1, <1>3, <1>6 DEF Scopes
  <2> QED
    BY <1>4, <2>1, Untouched
<1> QED
  BY <1>5, <1>6

\* Every step of the driver is a step of the client of the solver, or none.
LEMMA ProtocolStep ==
    ASSUME StructInv, FramesNumbered, [Next]_vars
    PROVE  [Stack!Next]_(Stack!vars)
<1>1. CASE UNCHANGED solvers
  <2>1. Scopes' = Scopes /\ LeftBehind' = LeftBehind
    BY <1>1 DEF Scopes, LeftBehind
  <2> QED
    BY <2>1, Untouched
<1>2. CASE RootRejected \/ RootLeaf \/ Settles \/ UNCHANGED vars
  BY <1>1, <1>2 DEF RootRejected, RootLeaf, Settles, vars
<1> QED
  BY <1>2, RootIsCheck, FinishIsPop, ReturnIsPop, OpeningIsCheck, NextSplit

\* The driver is a client of each of its solvers as AssertionStack has it: scopes are
\* pushed with a check that passed, on the solver of the current instant only, and
\* popped one by one until none is left.
THEOREM DriverKeepsProtocol == Spec => KeepsProtocol
<1>1. ASSUME Init PROVE Stack!Init
  <2>1. Scopes = <<>> /\ LeftBehind = FALSE
    BY <1>1, FollowedAssumption DEF Init, Scopes, LeftBehind
  <2> QED
    BY <2>1 DEF Stack!Init
<1>2. StructInv /\ FramesNumbered /\ [Next]_vars => [Stack!Next]_(Stack!vars)
  BY ProtocolStep
<1> QED
  BY <1>1, <1>2, Structure, FramesStayNumbered, PTL DEF Spec, KeepsProtocol, Stack!Spec

\* process_job never asks a solver for a check that its client may not ask for: each
\* check that decides about a child is one that the solvers are proved to answer right.
THEOREM ChecksAreAllowed == Spec => []ChecksAllowed
<1>1. StructInv /\ FramesNumbered => ChecksAllowed
  BY ClientChecks
<1> QED
  BY <1>1, Structure, FramesStayNumbered, PTL
=============================================================================
