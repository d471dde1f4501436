----------------------- MODULE AssertionSolverProofs -----------------------
(***************************************************************************)
(* The incremental solver keeps the promise the driver relies on, for      *)
(* every set of literals: it implements AssertionStack.                    *)
(***************************************************************************)
EXTENDS AssertionSolver, TLAPS

All(s) == UNION {s[i] : i \in DOMAIN s}
Front(s) == SubSeq(s, 1, Len(s) - 1)

----------------------------------------------------------------------------
(* The inductive invariant, in parts *)

\* The three stacks have a scope for every node, which records no more than what
\* the node asserts.
Paired ==
    /\ Len(scopes) = Len(branch) /\ Len(relationScopes) = Len(branch)
    /\ \A i \in DOMAIN branch :
        scopes[i] \subseteq branch[i] /\ relationScopes[i] \subseteq RelationsOf(branch[i])

\* What is recorded for atoms is in some scope; a relation is in exactly one.
Recorded ==
    /\ pos \subseteq AtomsOf(All(scopes), FALSE)
    /\ neg \subseteq AtomsOf(All(scopes), TRUE)
    /\ relations = All(relationScopes)
    /\ \A i, j \in DOMAIN relationScopes :
        i # j => relationScopes[i] \cap relationScopes[j] = {}

\* Everything below the last node has a model, and the last node as well if its
\* check passed.
Decided ==
    /\ branch # <<>> => Consistent(All(Front(branch)))
    /\ passed => Consistent(All(branch))

\* No negative result and no clash of atoms is left once the failed node is gone.
BooleanClean ==
    /\ passed => cache # "unsat" /\ pos \cap neg = {}
    /\ ~passed =>
        /\ branch # <<>>
        /\ pos \cap neg \subseteq AddedAtoms(scopes[Len(scopes)])
        /\ cache = "unsat" => scopes[Len(scopes)] # {}

RelationsClean ==
    /\ relationCache = "sat" => RelationsConsistent(relations)
    /\ passed => relationCache # "unsat"

Inv == TypeOK /\ Paired /\ Recorded /\ Decided /\ BooleanClean /\ RelationsClean

----------------------------------------------------------------------------
(* Sequences of sets *)

\* The indices of a sequence that is longer by one
LEMMA OneMore ==
    ASSUME NEW T, NEW s \in Seq(T)
    PROVE  /\ DOMAIN s = 1 .. Len(s)
           /\ \A i : i \in 1 .. Len(s) + 1 <=> i \in 1 .. Len(s) \/ i = Len(s) + 1
OBVIOUS

\* Appending a set to a sequence of sets adds it to their union.
LEMMA AppendAll ==
    ASSUME NEW T, NEW s \in Seq(T), NEW x \in T, NEW t, t = Append(s, x)
    PROVE  /\ t \in Seq(T)
           /\ t # <<>>
           /\ Len(s) \in Nat
           /\ Len(t) = Len(s) + 1
           /\ DOMAIN s = 1 .. Len(s)
           /\ DOMAIN t = 1 .. Len(s) + 1
           /\ \A i \in 1 .. Len(s) : t[i] = s[i]
           /\ t[Len(s) + 1] = x
           /\ All(t) = All(s) \cup x
           /\ Front(t) = s
<1>1. /\ t \in Seq(T)
      /\ t # <<>>
      /\ Len(t) = Len(s) + 1
      /\ DOMAIN t = 1 .. Len(s) + 1
      /\ DOMAIN s = 1 .. Len(s)
      /\ \A i \in 1 .. Len(s) : t[i] = s[i]
      /\ t[Len(s) + 1] = x
      /\ Len(s) \in Nat
  OBVIOUS
<1>2. \A i : i \in 1 .. Len(s) + 1 <=> i \in 1 .. Len(s) \/ i = Len(s) + 1
  BY <1>1
<1>3. All(t) = All(s) \cup x
  BY <1>1, <1>2 DEF All
<1>4. Front(Append(s, x)) = s
  BY DEF Front
<1> QED
  BY <1>1, <1>3, <1>4

\* The front of a nonempty sequence of sets, and what its last set adds to the
\* union.
LEMMA FrontAll ==
    ASSUME NEW T, NEW s \in Seq(T), s # <<>>
    PROVE  /\ Front(s) \in Seq(T)
           /\ Len(s) \in Nat /\ Len(s) > 0
           /\ Len(s) \in DOMAIN s /\ s[Len(s)] \in T
           /\ Len(Front(s)) = Len(s) - 1
           /\ DOMAIN s = 1 .. Len(s)
           /\ DOMAIN Front(s) = 1 .. Len(s) - 1
           /\ \A i \in 1 .. Len(s) - 1 : Front(s)[i] = s[i]
           /\ All(s) = All(Front(s)) \cup s[Len(s)]
<1>1. PICK n \in Nat : n = Len(s) /\ n > 0
  OBVIOUS
<1>2. /\ DOMAIN s = 1 .. n /\ n \in DOMAIN s /\ s[n] \in T
      /\ \A i \in 1 .. n : s[i] \in T
      /\ n - 1 \in Nat
  BY <1>1
<1>3. /\ SubSeq(s, 1, n - 1) \in Seq(T)
      /\ Len(SubSeq(s, 1, n - 1)) = n - 1
      /\ DOMAIN SubSeq(s, 1, n - 1) = 1 .. n - 1
      /\ \A i \in 1 .. n - 1 : SubSeq(s, 1, n - 1)[i] = s[i]
  BY <1>1, <1>2
<1>4. \A i : i \in 1 .. n <=> i \in 1 .. n - 1 \/ i = n
  BY <1>1
<1>5. All(s) = All(SubSeq(s, 1, n - 1)) \cup s[n]
  BY <1>2, <1>3, <1>4 DEF All
<1> QED
  BY <1>1, <1>2, <1>3, <1>5 DEF Front

\* A union is a subset of what its members are subsets of.
LEMMA AllWithin ==
    ASSUME NEW S, NEW s \in Seq(SUBSET S)
    PROVE  All(s) \in SUBSET S
BY DEF All

----------------------------------------------------------------------------
(* Consistency *)

\* What is left of a consistent set is consistent.
LEMMA ConsistentMonotone ==
    ASSUME NEW S \in SUBSET Literal, NEW T \in SUBSET S, Consistent(S)
    PROVE  Consistent(T)
<1>1. RelationsOf(S) \in SUBSET Literal /\ RelationsOf(T) \in SUBSET RelationsOf(S)
  BY DEF RelationsOf
<1>2. RelationsConsistent(RelationsOf(T))
  BY <1>1, RelationsAssumption DEF Consistent
<1> QED
  BY <1>2 DEF Consistent, AtomsOf

\* What the maps of the Boolean solver and the constraints of the real solver hold
\* was asserted.
LEMMA RecordedAsserted ==
    ASSUME Inv
    PROVE  /\ All(branch) \in SUBSET Literal
           /\ pos \subseteq AtomsOf(All(branch), FALSE)
           /\ neg \subseteq AtomsOf(All(branch), TRUE)
           /\ relations \subseteq RelationsOf(All(branch))
<1>1. /\ branch \in Seq(SUBSET Literal) /\ scopes \in Seq(SUBSET Literal)
      /\ relationScopes \in Seq(SUBSET Literal)
  BY DEF Inv, TypeOK, Stack!TypeOK
<1>2. All(branch) \in SUBSET Literal
  BY <1>1, AllWithin
<1>3. DOMAIN scopes = DOMAIN branch /\ DOMAIN relationScopes = DOMAIN branch
  BY <1>1 DEF Inv, Paired
<1>4. All(scopes) \subseteq All(branch)
  BY <1>3 DEF Inv, Paired, All
<1>5. All(relationScopes) \subseteq RelationsOf(All(branch))
  BY <1>3 DEF Inv, Paired, All, RelationsOf
<1>6. \A b \in BOOLEAN : AtomsOf(All(scopes), b) \subseteq AtomsOf(All(branch), b)
  BY <1>4 DEF AtomsOf
<1> QED
  BY <1>2, <1>5, <1>6 DEF Inv, Recorded

\* BooleanSolver::check answers for all atoms that are asserted, and a clash always
\* involves an atom that was just added.
LEMMA BooleanDecides ==
    ASSUME Inv, passed, NEW n \in SUBSET Literal, All(branch) \subseteq n
    PROVE  /\ Clashes(n) = AtomsOf(n, FALSE) \cap AtomsOf(n, TRUE)
           /\ Clashes(n) \subseteq AddedAtoms(n)
           /\ BooleanPasses(n) <=> Clashes(n) = {}
<1>1. pos \subseteq AtomsOf(n, FALSE) /\ neg \subseteq AtomsOf(n, TRUE)
  BY RecordedAsserted DEF AtomsOf
<1>2. Clashes(n) = AtomsOf(n, FALSE) \cap AtomsOf(n, TRUE)
  BY <1>1 DEF Clashes
<1>3. Clashes(n) \subseteq AddedAtoms(n)
  BY <1>2 DEF AddedAtoms
<1>4. cache = "none" \/ cache = "sat"
  BY DEF Inv, TypeOK, Cache, BooleanClean
<1>5. Clashes(n) = {} => BooleanPasses(n)
  BY <1>4 DEF BooleanPasses, CacheAfterAdding
<1>6. Clashes(n) # {} => ~BooleanPasses(n)
  BY <1>3 DEF BooleanPasses, CacheAfterAdding
<1> QED
  BY <1>2, <1>3, <1>5, <1>6

\* Z3RealSolver::check answers for all relations that are asserted.
LEMMA RelationsDecide ==
    ASSUME Inv, passed, NEW n \in SUBSET Literal
    PROVE  /\ relations \cup RelationsOf(n) \in SUBSET Literal
           /\ RelationsPass(n) <=> RelationsConsistent(relations \cup RelationsOf(n))
           /\ RelationCacheAfterAdding(n) \in {"none", "sat"}
           /\ RelationCacheAfterAdding(n) = "sat" =>
                relationCache = "sat" /\ relations \cup RelationsOf(n) = relations
<1> DEFINE all == relations \cup RelationsOf(n)
<1>1. all \in SUBSET Literal
  BY DEF Inv, TypeOK, RelationsOf
<1>2. relationCache = "none" \/ relationCache = "sat"
  BY DEF Inv, TypeOK, Cache, RelationsClean
<1>3. /\ RelationCacheAfterAdding(n) \in {"none", "sat"}
      /\ RelationCacheAfterAdding(n) = "sat" => relationCache = "sat" /\ all = relations
  BY <1>2 DEF RelationCacheAfterAdding, NewRelations
<1>4. RelationCacheAfterAdding(n) = "sat" => RelationsConsistent(all)
  BY <1>3 DEF Inv, RelationsClean
<1>5. RelationsConsistent({}) /\ RelationsConsistent(all) \in BOOLEAN
  BY <1>1, RelationsAssumption
<1>6. all = {} => RelationsPass(n) /\ RelationsConsistent(all)
  BY <1>5 DEF RelationsPass
<1>7. RelationCacheAfterAdding(n) = "sat" => RelationsPass(n) /\ RelationsConsistent(all)
  BY <1>4 DEF RelationsPass
<1>8. RelationCacheAfterAdding(n) = "none" /\ all # {} =>
        (RelationsPass(n) <=> RelationsConsistent(all))
  BY <1>5 DEF RelationsPass
<1>9. RelationsPass(n) <=> RelationsConsistent(all)
  BY <1>3, <1>6, <1>7, <1>8
<1> QED
  BY <1>1, <1>3, <1>9

\* A check of a node of the same instant decides whether everything asserted has a
\* model.
LEMMA CheckDecides ==
    ASSUME Inv, passed, NEW n \in SUBSET Literal, All(branch) \subseteq n,
           \A l \in n : ~Absurd(l)
    PROVE  (BooleanPasses(n) /\ RelationsPass(n)) <=> Consistent(n)
<1>1. relations \cup RelationsOf(n) = RelationsOf(n)
  BY RecordedAsserted DEF RelationsOf
<1>2. BooleanPasses(n) <=> AtomsOf(n, TRUE) \cap AtomsOf(n, FALSE) = {}
  BY BooleanDecides
<1>3. RelationsPass(n) <=> RelationsConsistent(RelationsOf(n))
  BY <1>1, RelationsDecide
<1> QED
  BY <1>2, <1>3 DEF Consistent

\* A check of the first node of a later instant passes.
LEMMA LaterPasses ==
    ASSUME Inv, passed
    PROVE  BooleanPasses({}) /\ RelationsPass({})
<1>1. Clashes({}) = {} /\ AddedAtoms({}) = {} /\ RelationsOf({}) = {}
  BY DEF Inv, BooleanClean, Clashes, AddedAtoms, AtomsOf, RelationsOf
<1>2. cache = "none" \/ cache = "sat"
  BY DEF Inv, TypeOK, Cache, BooleanClean
<1>3. BooleanPasses({})
  BY <1>1, <1>2 DEF BooleanPasses, CacheAfterAdding
<1>4. /\ RelationsOf(All(branch)) \in SUBSET Literal
      /\ relations \in SUBSET RelationsOf(All(branch))
      /\ RelationsConsistent(RelationsOf(All(branch)))
  BY RecordedAsserted DEF Inv, Decided, Consistent, RelationsOf
<1>5. RelationsConsistent(relations \cup RelationsOf({}))
  <2>1. relations \cup RelationsOf({}) = relations
    BY <1>1
  <2> QED
    BY <1>4, <2>1, RelationsAssumption
<1>6. RelationsPass({})
  BY <1>5, RelationsDecide
<1> QED
  BY <1>3, <1>6

----------------------------------------------------------------------------
(* Cores *)

\* A failed check left a core, and the right one if a constant or an atom is to
\* blame.
CoreRight == CoreAvailable /\ AtomCoreRight

\* The two literals of an atom are in every set that asserts the atom both ways, and
\* contradict each other.
LEMMA PairInconsistent ==
    ASSUME NEW S \in SUBSET Literal, NEW a \in AtomsOf(S, TRUE) \cap AtomsOf(S, FALSE)
    PROVE  /\ a \in Atoms
           /\ Pair(a) \subseteq S
           /\ ~Consistent(Pair(a))
           /\ Pair(a) \in SUBSET [expr : Atoms \cup {True, False}, negated : BOOLEAN]
<1>1. PICK l \in S : l.expr = a /\ a \in Atoms /\ l.negated = TRUE
  BY DEF AtomsOf
<1>2. PICK m \in S : m.expr = a /\ a \in Atoms /\ m.negated = FALSE
  BY DEF AtomsOf
<1>3. l = [expr |-> a, negated |-> TRUE] /\ m = [expr |-> a, negated |-> FALSE]
  BY <1>1, <1>2, ExprAssumption
<1>4. l \in Pair(a) /\ m \in Pair(a)
  BY <1>3 DEF Pair
<1>5. ~Consistent(Pair(a))
  <2>1. a \in AtomsOf(Pair(a), TRUE) /\ a \in AtomsOf(Pair(a), FALSE)
    BY <1>1, <1>2, <1>4 DEF AtomsOf
  <2> QED
    BY <2>1 DEF Consistent
<1> QED
  BY <1>1, <1>3, <1>5 DEF Pair

----------------------------------------------------------------------------
(* The steps preserve the invariant *)

\* The invariant holds of a new solver.
LEMMA InitInv == Init => Inv /\ CoreRight
<1> SUFFICES ASSUME Init PROVE Inv /\ CoreRight
  OBVIOUS
<1>1. All(<<>>) = {}
  BY DEF All
<1>2. Consistent({})
  BY RelationsAssumption DEF Consistent, AtomsOf, RelationsOf
<1>3. TypeOK
  <2>1. <<>> \in Seq(SUBSET Literal)
    OBVIOUS
  <2> QED
    BY <2>1 DEF Init, Stack!Init, TypeOK, Stack!TypeOK, Cache
<1>4. Paired /\ Recorded
  BY <1>1 DEF Init, Stack!Init, Paired, Recorded, AtomsOf
<1>5. Decided
  BY <1>1, <1>2 DEF Init, Stack!Init, Decided
<1>6. BooleanClean /\ RelationsClean
  BY RelationsAssumption DEF Init, Stack!Init, BooleanClean, RelationsClean
<1> QED
  BY <1>3, <1>4, <1>5, <1>6
     DEF Inv, CoreRight, CoreAvailable, AtomCoreRight, Init, Stack!Init

\* Pushing a scope for a node keeps the stacks paired.
LEMMA PushPairs ==
    ASSUME Inv, NEW n \in SUBSET Literal, NEW a \in SUBSET n, NEW r \in SUBSET RelationsOf(n),
           r \cap relations = {},
           branch' = Append(branch, n), scopes' = Append(scopes, a),
           relationScopes' = Append(relationScopes, r)
    PROVE  /\ branch' \in Seq(SUBSET Literal) /\ scopes' \in Seq(SUBSET Literal)
           /\ relationScopes' \in Seq(SUBSET Literal)
           /\ branch' # <<>>
           /\ All(branch') = All(branch) \cup n /\ Front(branch') = branch
           /\ All(scopes') = All(scopes) \cup a /\ scopes'[Len(scopes')] = a
           /\ All(relationScopes') = relations \cup r
           /\ Paired'
           /\ \A i, j \in DOMAIN relationScopes' :
                i # j => relationScopes'[i] \cap relationScopes'[j] = {}
<1>1. /\ branch \in Seq(SUBSET Literal) /\ scopes \in Seq(SUBSET Literal)
      /\ relationScopes \in Seq(SUBSET Literal)
      /\ a \in SUBSET Literal /\ r \in SUBSET Literal
  BY DEF Inv, TypeOK, Stack!TypeOK, RelationsOf
<1>2. /\ branch' \in Seq(SUBSET Literal)
      /\ branch' # <<>>
      /\ Len(branch') = Len(branch) + 1
      /\ DOMAIN branch' = 1 .. Len(branch) + 1
      /\ \A i \in 1 .. Len(branch) : branch'[i] = branch[i]
      /\ branch'[Len(branch) + 1] = n
  BY <1>1
<1>3. All(branch') = All(branch) \cup n
  BY <1>1, <1>2, OneMore DEF All
<1>4. Front(branch') = branch
  BY <1>1, AppendAll DEF Front
<1>5. /\ scopes' \in Seq(SUBSET Literal)
      /\ Len(scopes') = Len(scopes) + 1
      /\ DOMAIN scopes' = 1 .. Len(scopes) + 1
      /\ \A i \in 1 .. Len(scopes) : scopes'[i] = scopes[i]
      /\ scopes'[Len(scopes) + 1] = a
  BY <1>1, AppendAll
<1>6. /\ relationScopes' \in Seq(SUBSET Literal)
      /\ Len(relationScopes') = Len(relationScopes) + 1
      /\ DOMAIN relationScopes' = 1 .. Len(relationScopes) + 1
      /\ \A i \in 1 .. Len(relationScopes) : relationScopes'[i] = relationScopes[i]
      /\ relationScopes'[Len(relationScopes) + 1] = r
  BY <1>1, AppendAll
<1>7. All(scopes') = All(scopes) \cup a
  BY <1>1, <1>5, OneMore DEF All
<1>8. All(relationScopes') = relations \cup r
  <2>1. All(relationScopes') = All(relationScopes) \cup r
    BY <1>1, <1>6, OneMore DEF All
  <2> QED
    BY <2>1 DEF Inv, Recorded
<1>9. Paired'
  <2>1. /\ Len(scopes) = Len(branch) /\ Len(relationScopes) = Len(branch)
        /\ DOMAIN branch = 1 .. Len(branch)
    BY <1>1 DEF Inv, Paired
  <2>2. ASSUME NEW i \in DOMAIN branch'
        PROVE  scopes'[i] \subseteq branch'[i]
               /\ relationScopes'[i] \subseteq RelationsOf(branch'[i])
    <3>1. i \in 1 .. Len(branch) \/ i = Len(branch) + 1
      BY <1>1, <1>2
    <3>2. CASE i \in 1 .. Len(branch)
      <4>1. /\ branch'[i] = branch[i] /\ scopes'[i] = scopes[i]
            /\ relationScopes'[i] = relationScopes[i]
        BY <1>2, <1>5, <1>6, <2>1, <3>2
      <4>2. scopes[i] \subseteq branch[i] /\ relationScopes[i] \subseteq RelationsOf(branch[i])
        BY <2>1, <3>2 DEF Inv, Paired
      <4> QED
        BY <4>1, <4>2 DEF RelationsOf
    <3>3. CASE i = Len(branch) + 1
      BY <1>2, <1>5, <1>6, <2>1, <3>3 DEF RelationsOf
    <3> QED
      BY <3>1, <3>2, <3>3
  <2> QED
    BY <1>2, <1>5, <1>6, <2>1, <2>2 DEF Paired
<1>10. ASSUME NEW i \in DOMAIN relationScopes', NEW j \in DOMAIN relationScopes', i # j
       PROVE  relationScopes'[i] \cap relationScopes'[j] = {}
  <2>1. DOMAIN relationScopes = 1 .. Len(relationScopes) /\ Len(relationScopes) \in Nat
    BY <1>1
  <2>2. /\ i \in DOMAIN relationScopes \/ i = Len(relationScopes) + 1
        /\ j \in DOMAIN relationScopes \/ j = Len(relationScopes) + 1
    BY <1>6, <2>1
  <2>3. \A k \in DOMAIN relationScopes : relationScopes[k] \subseteq relations
    BY DEF Inv, Recorded, All
  <2> QED
    BY <1>6, <1>10, <2>1, <2>2, <2>3 DEF Inv, Recorded
<1>11. scopes'[Len(scopes')] = a
  BY <1>5
<1> QED
  BY <1>2, <1>3, <1>4, <1>5, <1>6, <1>7, <1>8, <1>9, <1>10, <1>11

\* A node with a contradictory constant gets an empty scope in both solvers, and the
\* constant is the core.
LEMMA RejectKeeps ==
    ASSUME Inv, passed, NEW n \in SUBSET Literal, RejectConstant(n),
           branch' = Append(branch, n), UNCHANGED ahead
    PROVE  Inv' /\ CoreRight'
<1>1. scopes' = Append(scopes, {}) /\ relationScopes' = Append(relationScopes, {})
  BY DEF RejectConstant
<1>2. {} \in SUBSET n /\ {} \in SUBSET RelationsOf(n) /\ {} \cap relations = {}
  OBVIOUS
<1>3. /\ branch' \in Seq(SUBSET Literal) /\ scopes' \in Seq(SUBSET Literal)
      /\ relationScopes' \in Seq(SUBSET Literal)
      /\ branch' # <<>>
      /\ All(branch') = All(branch) \cup n /\ Front(branch') = branch
      /\ All(scopes') = All(scopes) \cup {}
      /\ All(relationScopes') = relations \cup {}
      /\ Paired'
      /\ \A i, j \in DOMAIN relationScopes' :
           i # j => relationScopes'[i] \cap relationScopes'[j] = {}
  BY <1>1, <1>2, PushPairs
<1>4. PICK l \in n : Absurd(l) /\ booleanCore' = {l}
  BY DEF RejectConstant
<1>5. {l} \in SUBSET [expr : Atoms \cup {True, False}, negated : BOOLEAN]
  BY <1>4, ExprAssumption DEF Absurd
<1>6. TypeOK'
  BY <1>3, <1>4, <1>5 DEF Inv, TypeOK, Stack!TypeOK, RejectConstant
<1>7. Recorded'
  <2>1. UNCHANGED <<pos, neg, relations>>
    BY DEF RejectConstant
  <2>2. All(scopes') = All(scopes) /\ All(relationScopes') = relations
    BY <1>3
  <2> QED
    BY <1>3, <2>1, <2>2 DEF Inv, Recorded
<1>8. Decided'
  BY <1>3 DEF Inv, Decided, RejectConstant
<1>9. BooleanClean' /\ RelationsClean'
  BY <1>3 DEF Inv, BooleanClean, RelationsClean, RejectConstant
<1>10. CoreRight'
  <2>1. ~Consistent({l})
    BY <1>4 DEF Consistent
  <2>2. ExtractedCore' = {l} /\ {l} # {}
    BY <1>4 DEF ExtractedCore
  <2>3. Stack!Asserted' = All(branch')
    BY DEF Stack!Asserted, All
  <2>4. ExtractedCore' \subseteq Stack!Asserted' /\ ~Consistent(ExtractedCore')
    BY <1>3, <1>4, <2>1, <2>2, <2>3
  <2> QED
    BY <2>2, <2>4 DEF CoreRight, CoreAvailable, AtomCoreRight
<1> QED
  BY <1>3, <1>6, <1>7, <1>8, <1>9, <1>10 DEF Inv

\* A check that was carried out leaves the results of the solvers right, and a core
\* if it failed.
LEMMA AssertKeeps ==
    ASSUME Inv, passed, NEW n \in SUBSET Literal, AssertAndCheck(n),
           branch' = Append(branch, n), ahead' \in BOOLEAN,
           Clashes(n) \subseteq AtomsOf(n, TRUE) \cap AtomsOf(n, FALSE),
           BooleanPasses(n) <=> Clashes(n) = {},
           BooleanPasses(n) /\ RelationsPass(n) => Consistent(All(branch) \cup n),
           AtomsOf(All(branch) \cup n, TRUE) \cap AtomsOf(All(branch) \cup n, FALSE)
             \subseteq Clashes(n)
    PROVE  Inv' /\ CoreRight'
<1> DEFINE a == {l \in n : l.expr \in Atoms}
           r == NewRelations(n)
           all == relations \cup RelationsOf(n)
<1>1. scopes' = Append(scopes, a) /\ relationScopes' = Append(relationScopes, r)
  BY DEF AssertAndCheck, BooleanCheck, RelationCheck
<1>2. a \in SUBSET n /\ r \in SUBSET RelationsOf(n) /\ r \cap relations = {}
  BY DEF NewRelations
<1>3. /\ branch' \in Seq(SUBSET Literal) /\ scopes' \in Seq(SUBSET Literal)
      /\ relationScopes' \in Seq(SUBSET Literal)
      /\ branch' # <<>>
      /\ All(branch') = All(branch) \cup n /\ Front(branch') = branch
      /\ All(scopes') = All(scopes) \cup a /\ scopes'[Len(scopes')] = a
      /\ All(relationScopes') = relations \cup r
      /\ Paired'
      /\ \A i, j \in DOMAIN relationScopes' :
           i # j => relationScopes'[i] \cap relationScopes'[j] = {}
  <2> HIDE DEF a, r
  <2> QED
    BY <1>1, <1>2, PushPairs
<1>4. /\ pos' = pos \cup AtomsOf(n, FALSE) /\ neg' = neg \cup AtomsOf(n, TRUE)
      /\ pos' \cap neg' = Clashes(n)
      /\ cache' = CacheOf(BooleanPasses(n))
      /\ relations' = all
      /\ passed' = (BooleanPasses(n) /\ RelationsPass(n))
  BY DEF AssertAndCheck, BooleanCheck, RelationCheck, Clashes
<1>5. \A b \in BOOLEAN : AtomsOf(a, b) = AtomsOf(n, b) /\ AtomsOf(n, b) \subseteq Atoms
  BY DEF AtomsOf
<1>6. AddedAtoms(a) = AddedAtoms(n)
  BY <1>5 DEF AddedAtoms
<1>7. Clashes(n) \subseteq AddedAtoms(n)
  BY DEF AddedAtoms
<1>8. /\ all \in SUBSET Literal
      /\ RelationsPass(n) <=> RelationsConsistent(all)
      /\ RelationCacheAfterAdding(n) \in {"none", "sat"}
      /\ RelationCacheAfterAdding(n) = "sat" => relationCache = "sat" /\ all = relations
  BY RelationsDecide
<1>9. \/ \E x \in Clashes(n) : booleanCore' = Pair(x)
      \/ Clashes(n) = {} /\ UNCHANGED booleanCore
  <2>1. CASE Clashes(n) = {}
    BY <2>1 DEF AssertAndCheck, BooleanCheck
  <2>2. CASE Clashes(n) # {}
    <3>1. Clashes(n) \cap AddedAtoms(n) # {}
      BY <1>7, <2>2
    <3>2. \E x \in Clashes(n) \cap AddedAtoms(n) : booleanCore' = Pair(x)
      BY <3>1 DEF AssertAndCheck, BooleanCheck
    <3> QED
      BY <3>2
  <2> QED
    BY <2>1, <2>2
<1>10. \A x \in Clashes(n) :
          /\ x \in Atoms /\ Pair(x) \subseteq n /\ ~Consistent(Pair(x))
          /\ Pair(x) \in SUBSET [expr : Atoms \cup {True, False}, negated : BOOLEAN]
  BY PairInconsistent
<1>11. RelationsPass(n) \/ (relationCore' \in SUBSET Literal /\ relationCore' # {})
  <2>1. SUFFICES ASSUME ~RelationsPass(n)
                 PROVE  relationCore' \in SUBSET Literal /\ relationCore' # {}
    OBVIOUS
  <2>2. all # {} /\ ~RelationsConsistent(all) /\ RelationCacheAfterAdding(n) = "none"
    BY <1>8, <2>1 DEF RelationsPass
  <2>3. \E c \in RelationCores(all) : relationCore' = c
    BY <2>2 DEF AssertAndCheck, RelationCheck
  <2>4. RelationCores(all) \subseteq (SUBSET all) \ {{}}
    BY <1>8, RelationsAssumption
  <2> QED
    BY <1>8, <2>3, <2>4
<1>12. relationCore' \in SUBSET Literal
  <2>1. \/ UNCHANGED relationCore
        \/ \E c \in RelationCores(all) : relationCore' = c
    BY DEF AssertAndCheck, RelationCheck
  <2>2. RelationCores(all) \subseteq (SUBSET all) \ {{}}
    BY <1>8, RelationsAssumption
  <2>3. relationCore \in SUBSET Literal
    BY DEF Inv, TypeOK
  <2>4. \A c \in RelationCores(all) : c \in SUBSET Literal
    BY <1>8, <2>2
  <2> QED
    BY <2>1, <2>3, <2>4
<1>13. relationCache' = (IF all = {} THEN relationCache ELSE CacheOf(RelationsPass(n)))
  BY DEF AssertAndCheck, RelationCheck
<1> HIDE DEF a, r, all
<1>14. TypeOK'
  <2>1. Stack!TypeOK'
    BY <1>3, <1>4 DEF Stack!TypeOK
  <2>2. pos' \subseteq Atoms /\ neg' \subseteq Atoms
    BY <1>4, <1>5 DEF Inv, TypeOK
  <2>3. cache' \in Cache /\ relationCache' \in Cache
    BY <1>4, <1>13 DEF Inv, TypeOK, Cache, CacheOf
  <2>4. booleanCore' \in SUBSET [expr : Atoms \cup {True, False}, negated : BOOLEAN]
    BY <1>9, <1>10 DEF Inv, TypeOK
  <2> QED
    BY <1>3, <1>4, <1>8, <1>12, <2>1, <2>2, <2>3, <2>4 DEF TypeOK
<1>15. Recorded'
  <2>1. relations' = All(relationScopes')
    BY <1>3, <1>4 DEF all, r, NewRelations
  <2>2. \A b \in BOOLEAN : AtomsOf(All(scopes) \cup a, b) = AtomsOf(All(scopes), b) \cup AtomsOf(a, b)
    BY DEF AtomsOf
  <2>3. pos' \subseteq AtomsOf(All(scopes'), FALSE) /\ neg' \subseteq AtomsOf(All(scopes'), TRUE)
    BY <1>3, <1>4, <1>5, <2>2 DEF Inv, Recorded
  <2> QED
    BY <1>3, <2>1, <2>3 DEF Recorded
<1>16. Decided'
  BY <1>3, <1>4 DEF Inv, Decided
<1>17. BooleanClean'
  <2>1. passed' => cache' # "unsat" /\ pos' \cap neg' = {}
    BY <1>4 DEF CacheOf
  <2>2. pos' \cap neg' \subseteq AddedAtoms(scopes'[Len(scopes')])
    BY <1>3, <1>4, <1>6, <1>7
  <2>3. cache' = "unsat" => Clashes(n) # {}
    BY <1>4 DEF CacheOf
  <2>4. Clashes(n) # {} => a # {}
    BY <1>6, <1>7 DEF AddedAtoms, AtomsOf
  <2> QED
    BY <1>3, <2>1, <2>2, <2>3, <2>4 DEF BooleanClean
<1>18. RelationsClean'
  BY <1>4, <1>8, <1>13, RelationsAssumption DEF Inv, RelationsClean, CacheOf
<1>19. CoreRight'
  <2>1. Stack!Asserted' = All(branch) \cup n
    BY <1>3 DEF Stack!Asserted, All
  <2>2. CASE Clashes(n) = {}
    <3>1. ~passed' => ExtractedCore' # {}
      BY <1>4, <1>11, <2>2 DEF ExtractedCore
    <3>2. ~AtomsToBlame'
      <4>1. \A l \in n : ~Absurd(l)
        BY DEF AssertAndCheck
      <4>2. \A l \in All(branch) : ~Absurd(l)
        BY DEF Inv, Decided, Consistent
      <4> QED
        BY <2>1, <2>2, <4>1, <4>2 DEF AtomsToBlame
    <3> QED
      BY <3>1, <3>2 DEF CoreRight, CoreAvailable, AtomCoreRight
  <2>3. CASE Clashes(n) # {}
    <3>1. PICK x \in Clashes(n) : booleanCore' = Pair(x)
      BY <1>9, <2>3
    <3>2. booleanCore' # {} /\ booleanCore' \subseteq n /\ ~Consistent(booleanCore')
      BY <1>10, <3>1 DEF Pair
    <3>3. ExtractedCore' = booleanCore'
      BY <3>2 DEF ExtractedCore
    <3> QED
      BY <2>1, <3>2, <3>3 DEF CoreRight, CoreAvailable, AtomCoreRight
  <2> QED
    BY <2>2, <2>3
<1> QED
  BY <1>3, <1>14, <1>15, <1>16, <1>17, <1>18, <1>19 DEF Inv

\* Popping the last scope takes away exactly what it recorded, and with it the
\* contradiction, if there was one.
LEMMA PopKeeps ==
    ASSUME Inv, Pop
    PROVE  Inv' /\ CoreRight'
<1>1. /\ branch \in Seq(SUBSET Literal) /\ scopes \in Seq(SUBSET Literal)
      /\ relationScopes \in Seq(SUBSET Literal)
      /\ branch # <<>> /\ scopes # <<>> /\ relationScopes # <<>>
      /\ Len(scopes) = Len(branch) /\ Len(relationScopes) = Len(branch)
      /\ DOMAIN scopes = DOMAIN branch /\ DOMAIN relationScopes = DOMAIN branch
  BY DEF Inv, TypeOK, Stack!TypeOK, Paired, Pop
<1>2. PICK k \in Nat : k = Len(branch) /\ k > 0
  BY <1>1, FrontAll
<1> DEFINE last == scopes[Len(scopes)]
           gone == relationScopes[Len(relationScopes)]
<1>3. /\ branch' = Front(branch) /\ ahead' = FALSE /\ passed' = TRUE
      /\ scopes' = Front(scopes)
      /\ pos' = pos \ AtomsOf(last, FALSE) /\ neg' = neg \ AtomsOf(last, TRUE)
      /\ cache' = (IF cache = "unsat" /\ last # {} THEN "none" ELSE cache)
      /\ UNCHANGED booleanCore
      /\ relationScopes' = Front(relationScopes)
      /\ relations' = relations \ gone
      /\ relationCache' = (IF relationCache = "unsat" THEN "none" ELSE relationCache)
      /\ UNCHANGED relationCore
  BY DEF Pop, BooleanPop, RelationPop, Front
<1> HIDE DEF last, gone
<1>4. /\ Front(branch) \in Seq(SUBSET Literal)
      /\ Len(Front(branch)) = k - 1
      /\ DOMAIN Front(branch) = 1 .. k - 1 /\ DOMAIN branch = 1 .. k
      /\ \A i \in 1 .. k - 1 : Front(branch)[i] = branch[i]
  BY <1>1, <1>2, FrontAll
<1>5. /\ Front(scopes) \in Seq(SUBSET Literal)
      /\ Len(Front(scopes)) = k - 1
      /\ \A i \in 1 .. k - 1 : Front(scopes)[i] = scopes[i]
      /\ All(scopes) = All(Front(scopes)) \cup last
  BY <1>1, <1>2, FrontAll DEF last
<1>6. /\ Front(relationScopes) \in Seq(SUBSET Literal)
      /\ Len(Front(relationScopes)) = k - 1
      /\ DOMAIN Front(relationScopes) = 1 .. k - 1
      /\ \A i \in 1 .. k - 1 : Front(relationScopes)[i] = relationScopes[i]
      /\ All(relationScopes) = All(Front(relationScopes)) \cup gone
      /\ gone = relationScopes[k]
  BY <1>1, <1>2, FrontAll DEF gone
<1>7. TypeOK'
  <2>1. Stack!TypeOK'
    BY <1>3, <1>4 DEF Stack!TypeOK
  <2>2. cache' \in Cache /\ relationCache' \in Cache
    BY <1>3 DEF Inv, TypeOK, Cache
  <2> QED
    BY <1>3, <1>5, <1>6, <2>1, <2>2 DEF Inv, TypeOK
<1>8. Paired'
  <2>1. \A i \in 1 .. k - 1 : i \in 1 .. k
    BY <1>2
  <2>2. \A i \in 1 .. k - 1 :
           Front(scopes)[i] \subseteq Front(branch)[i]
           /\ Front(relationScopes)[i] \subseteq RelationsOf(Front(branch)[i])
    BY <1>4, <1>5, <1>6, <2>1 DEF Inv, Paired
  <2> QED
    BY <1>3, <1>4, <1>5, <1>6, <2>2 DEF Paired
<1>9. Recorded'
  <2>1. \A b \in BOOLEAN :
           AtomsOf(All(scopes), b) = AtomsOf(All(Front(scopes)), b) \cup AtomsOf(last, b)
    BY <1>5 DEF AtomsOf
  <2>2. pos' \subseteq AtomsOf(All(Front(scopes)), FALSE)
        /\ neg' \subseteq AtomsOf(All(Front(scopes)), TRUE)
    BY <1>3, <2>1 DEF Inv, Recorded
  <2>3. \A i \in 1 .. k - 1 : i \in 1 .. k /\ i # k
    BY <1>2
  <2>4. All(Front(relationScopes)) \cap gone = {}
    <3>1. \A i, j \in 1 .. k : i # j => relationScopes[i] \cap relationScopes[j] = {}
      BY <1>1, <1>4 DEF Inv, Recorded
    <3>2. k \in 1 .. k
      BY <1>2
    <3>3. \A i \in 1 .. k - 1 : relationScopes[i] \cap gone = {}
      BY <1>6, <2>3, <3>1, <3>2
    <3> QED
      BY <1>6, <3>3 DEF All
  <2>5. relations' = All(Front(relationScopes))
    BY <1>3, <1>6, <2>4 DEF Inv, Recorded
  <2>6. \A i, j \in 1 .. k - 1 :
           i # j => Front(relationScopes)[i] \cap Front(relationScopes)[j] = {}
    BY <1>1, <1>4, <1>6, <2>3 DEF Inv, Recorded
  <2> QED
    BY <1>3, <1>6, <2>2, <2>5, <2>6 DEF Recorded
<1>10. Decided'
  <2>1. Consistent(All(Front(branch))) /\ All(Front(branch)) \in SUBSET Literal
    BY <1>1, <1>4, AllWithin DEF Inv, Decided
  <2>2. ASSUME Front(branch) # <<>>
        PROVE  Consistent(All(Front(Front(branch))))
    <3>1. All(Front(branch)) =
            All(Front(Front(branch))) \cup Front(branch)[Len(Front(branch))]
      BY <1>4, <2>2, FrontAll
    <3> QED
      BY <2>1, <3>1, ConsistentMonotone
  <2> QED
    BY <1>3, <2>1, <2>2 DEF Decided
<1>11. BooleanClean'
  <2>1. cache' # "unsat"
    BY <1>3 DEF Inv, BooleanClean, last
  <2>2. pos \cap neg \subseteq AddedAtoms(last)
    BY DEF Inv, BooleanClean, last
  <2>3. pos' \cap neg' = {}
    BY <1>3, <2>2 DEF AddedAtoms
  <2> QED
    BY <1>3, <2>1, <2>3 DEF BooleanClean
<1>12. RelationsClean'
  <2>1. relations' \in SUBSET relations /\ relations \in SUBSET Literal
    BY <1>3 DEF Inv, TypeOK
  <2>2. RelationsConsistent(relations) => RelationsConsistent(relations')
    BY <2>1, RelationsAssumption
  <2> QED
    BY <1>3, <2>2 DEF Inv, RelationsClean
<1>13. CoreRight'
  BY <1>3 DEF CoreRight, CoreAvailable, AtomCoreRight
<1> QED
  BY <1>7, <1>8, <1>9, <1>10, <1>11, <1>12, <1>13 DEF Inv

----------------------------------------------------------------------------
(* The solver implements AssertionStack *)

\* What is asserted is the last node's literals, if the client may check it.
LEMMA AssertedAll == Stack!Asserted = All(branch)
BY DEF Stack!Asserted, All

\* Checking a node keeps the invariant and is a check of the promise.
LEMMA CheckStep ==
    ASSUME Inv, NEW n \in SUBSET Literal, CheckNode(n)
    PROVE  Inv' /\ CoreRight' /\ Stack!Check(n)
<1>1. /\ passed /\ All(branch) \subseteq n /\ Stack!MayCheck(n)
      /\ branch' = Append(branch, n) /\ UNCHANGED ahead
      /\ RejectConstant(n) \/ AssertAndCheck(n)
  BY AssertedAll DEF CheckNode, Stack!MayCheck
<1>2. All(branch) \cup n = n /\ ahead' \in BOOLEAN
  BY <1>1 DEF Inv, TypeOK, Stack!TypeOK
<1>3. CASE RejectConstant(n)
  <2>1. Consistent(n) = FALSE /\ passed' = FALSE
    BY <1>3 DEF RejectConstant, Consistent
  <2>2. Stack!Check(n)
    BY <1>1, <1>2, <2>1, AssertedAll DEF Stack!Check
  <2> QED
    BY <1>1, <1>3, <2>2, RejectKeeps
<1>4. CASE AssertAndCheck(n)
  <2>1. /\ Clashes(n) = AtomsOf(n, FALSE) \cap AtomsOf(n, TRUE)
        /\ BooleanPasses(n) <=> Clashes(n) = {}
    BY <1>1, BooleanDecides
  <2>2. (BooleanPasses(n) /\ RelationsPass(n)) <=> Consistent(n)
    BY <1>1, <1>4, CheckDecides DEF AssertAndCheck
  <2>3. Inv' /\ CoreRight'
    BY <1>1, <1>2, <1>4, <2>1, <2>2, AssertKeeps
  <2>4. passed' = (BooleanPasses(n) /\ RelationsPass(n))
    BY <1>4 DEF AssertAndCheck
  <2>5. Consistent(n) \in BOOLEAN
    BY DEF Consistent
  <2>6. passed' = Consistent(n)
    BY <2>2, <2>4, <2>5
  <2>7. Stack!Check(n)
    BY <1>1, <1>2, <2>6, AssertedAll DEF Stack!Check
  <2> QED
    BY <2>3, <2>7
<1> QED
  BY <1>1, <1>3, <1>4

\* Checking the first node of a later instant keeps the invariant and is the
\* promised check.
LEMMA LaterStep ==
    ASSUME Inv, CheckLater
    PROVE  Inv' /\ CoreRight' /\ Stack!CheckLater
<1>1. /\ passed /\ ~ahead /\ branch' = Append(branch, {}) /\ ahead' = TRUE
      /\ AssertAndCheck({})
  BY DEF CheckLater
<1>2. Consistent(All(branch)) /\ All(branch) \cup {} = All(branch)
  BY <1>1 DEF Inv, Decided
<1>3. BooleanPasses({}) /\ RelationsPass({})
  BY <1>1, LaterPasses
<1>4. Clashes({}) = {}
  BY <1>1 DEF Inv, BooleanClean, Clashes, AtomsOf
<1>5. AtomsOf(All(branch) \cup {}, TRUE) \cap AtomsOf(All(branch) \cup {}, FALSE) = {}
  BY <1>2 DEF Consistent
<1>6. Inv' /\ CoreRight'
  BY <1>1, <1>2, <1>3, <1>4, <1>5, AssertKeeps
<1>7. passed' = TRUE
  BY <1>1, <1>3 DEF AssertAndCheck
<1>8. Consistent(All(branch)) = TRUE
  BY <1>2 DEF Consistent
<1>9. Stack!CheckLater
  BY <1>1, <1>7, <1>8, AssertedAll DEF Stack!CheckLater
<1> QED
  BY <1>6, <1>9

\* Every step of the solver keeps the invariant, and is a step of AssertionStack.
LEMMA NextStep ==
    ASSUME Inv, CoreRight, [Next]_vars
    PROVE  Inv' /\ CoreRight' /\ [Stack!Next]_(Stack!vars)
<1>1. ASSUME NEW n \in SUBSET Literal, CheckNode(n)
      PROVE  Inv' /\ CoreRight' /\ [Stack!Next]_(Stack!vars)
  BY <1>1, CheckStep DEF Stack!Next
<1>2. CASE CheckLater
  BY <1>2, LaterStep DEF Stack!Next
<1>3. CASE Pop
  <2>1. Stack!Pop
    BY <1>3 DEF Pop, Stack!Pop
  <2> QED
    BY <1>3, <2>1, PopKeeps DEF Stack!Next
<1>4. CASE EmptySolver
  <2>1. Init'
    BY <1>4 DEF EmptySolver, Stack!EmptySolver, Init, Stack!Init
  <2>2. Inv' /\ CoreRight'
    BY <2>1, InitInv, PTL
  <2> QED
    BY <1>4, <2>2 DEF EmptySolver, Stack!Next
<1>5. CASE UNCHANGED vars
  <2>1. Stack!Asserted' = Stack!Asserted
    BY <1>5 DEF vars, client, Stack!Asserted
  <2>2. AtomsToBlame' = AtomsToBlame
    BY <2>1 DEF AtomsToBlame
  <2>3. CoreRight'
    BY <1>5, <2>1, <2>2 DEF vars, client, boolean, real, CoreRight, CoreAvailable,
         AtomCoreRight, ExtractedCore
  <2>4. Inv'
    BY <1>5 DEF vars, client, boolean, real, Inv, TypeOK, Stack!TypeOK, Paired, Recorded,
         Decided, BooleanClean, RelationsClean
  <2> QED
    BY <1>5, <2>3, <2>4 DEF vars, client, Stack!vars
<1> QED
  BY <1>1, <1>2, <1>3, <1>4, <1>5 DEF Next

\* The invariant holds throughout.
LEMMA Invariant == Spec => [](Inv /\ CoreRight)
<1>1. Init => Inv /\ CoreRight
  BY InitInv
<1>2. Inv /\ CoreRight /\ [Next]_vars => (Inv /\ CoreRight)'
  BY NextStep
<1> QED
  BY <1>1, <1>2, PTL DEF Spec

\* The maps, the scopes and the cached results of the solvers keep their types.
THEOREM SolverTypeCorrect == Spec => []TypeOK
<1>1. Inv => TypeOK
  BY DEF Inv
<1> QED
  BY <1>1, Invariant, PTL

\* Whatever is pushed and popped, each check answers whether all that is asserted has
\* a model: neither the literals that pop forgets nor the cached results mislead it.
THEOREM SolverImplementsStack == Spec => KeepsPromise
<1>1. Init => Stack!Init
  BY DEF Init
<1>2. Inv /\ CoreRight /\ [Next]_vars => [Stack!Next]_(Stack!vars)
  BY NextStep
<1> QED
  BY <1>1, <1>2, Invariant, PTL DEF Spec, KeepsPromise, Stack!Spec

\* A failed check leaves a core to extract.
THEOREM CoreRecorded == Spec => []CoreAvailable
<1>1. CoreRight => CoreAvailable
  BY DEF CoreRight
<1> QED
  BY <1>1, Invariant, PTL

\* A contradiction between constants or atoms is extracted as an inconsistent part of
\* what was asserted, although the recorded core is never cleared.
THEOREM AtomCoreCorrect == Spec => []AtomCoreRight
<1>1. CoreRight => AtomCoreRight
  BY DEF CoreRight
<1> QED
  BY <1>1, Invariant, PTL
=============================================================================
