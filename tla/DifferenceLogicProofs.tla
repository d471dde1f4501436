----------------------- MODULE DifferenceLogicProofs -----------------------
(***************************************************************************)
(* Whatever is pushed, popped, cached and handed on, the difference logic  *)
(* solver implements a stack of assertions.                                *)
(***************************************************************************)
EXTENDS DifferenceLogic, TLAPS

All(s) == UNION {s[i] : i \in DOMAIN s}
Outer(s, i) == UNION {s[j] : j \in 1 .. i - 1}

Clause == ClauseSetOf(Literal, TRUE) \cup ClauseSetOf(Literal, FALSE)
SupportedAll(S) == \A l \in S : Supported(Normalized(l))

\* The shape of the variables, as far as the argument needs it.
Shape ==
    /\ branch \in Seq(SUBSET Literal)
    /\ stack \in Seq(SUBSET Clause)
    /\ Len(stack) = Len(branch)
    /\ extraction \in BOOLEAN
    /\ SupportedAll(All(branch))

\* The clauses are those of what is asserted, and the stack has those of each outer
\* scope.
ClausesRight == clauses = ClauseSetOf(All(branch), extraction)
StackRight == \A i \in 1 .. Len(stack) : stack[i] = ClauseSetOf(Outer(branch, i), extraction)

\* The cache has only right results, whichever solver put them there.
CacheRight == \A r \in resultCache : r.sat = Satisfiable(r.clauses)

Inv == Shape /\ ClausesRight /\ StackRight /\ CacheRight

----------------------------------------------------------------------------
(* Sequences of sets *)

\* A sequence with one more set.
LEMMA AppendAll ==
    ASSUME NEW T, NEW s \in Seq(T), NEW x \in T, NEW t, t = Append(s, x)
    PROVE  /\ t \in Seq(T)
           /\ Len(s) \in Nat
           /\ Len(t) = Len(s) + 1
           /\ \A i \in 1 .. Len(s) : t[i] = s[i]
           /\ t[Len(s) + 1] = x
           /\ All(t) = All(s) \cup x
           /\ \A i \in 1 .. Len(s) : Outer(t, i) = Outer(s, i)
           /\ Outer(t, Len(s) + 1) = All(s)
<1>1. PICK n \in Nat : n = Len(s)
  OBVIOUS
<1>2. /\ t \in Seq(T) /\ Len(t) = n + 1
      /\ DOMAIN t = 1 .. n + 1 /\ DOMAIN s = 1 .. n
      /\ \A i \in 1 .. n : t[i] = s[i]
      /\ t[n + 1] = x
  BY <1>1
<1>3. \A i : i \in 1 .. n + 1 <=> i \in 1 .. n \/ i = n + 1
  BY <1>1
<1>4. All(t) = All(s) \cup x
  BY <1>2, <1>3 DEF All
<1>5. \A i \in 1 .. n : \A j \in 1 .. i - 1 : j \in 1 .. n
  BY <1>1
<1>6. \A i \in 1 .. n : Outer(t, i) = Outer(s, i)
  BY <1>2, <1>5 DEF Outer
<1>7. 1 .. (n + 1) - 1 = 1 .. n
  BY <1>1
<1>8. Outer(t, n + 1) = All(s)
  BY <1>2, <1>7 DEF Outer, All
<1> QED
  BY <1>1, <1>2, <1>4, <1>6, <1>8

\* A nonempty sequence without its last element.
LEMMA FrontAll ==
    ASSUME NEW T, NEW s \in Seq(T), Len(s) # 0, NEW t, t = SubSeq(s, 1, Len(s) - 1)
    PROVE  /\ t \in Seq(T)
           /\ Len(s) \in Nat \ {0}
           /\ Len(t) = Len(s) - 1
           /\ \A i \in 1 .. Len(t) : i \in 1 .. Len(s) /\ t[i] = s[i]
           /\ All(t) = Outer(s, Len(s))
           /\ All(t) \subseteq All(s)
           /\ \A i \in 1 .. Len(t) : Outer(t, i) = Outer(s, i)
<1>1. PICK n \in Nat : n = Len(s) /\ n > 0
  OBVIOUS
<1>2. /\ t \in Seq(T) /\ Len(t) = n - 1
      /\ DOMAIN t = 1 .. n - 1 /\ DOMAIN s = 1 .. n
      /\ \A i \in 1 .. n - 1 : i \in 1 .. n /\ t[i] = s[i]
  BY <1>1
<1>3. All(t) = Outer(s, n) /\ All(t) \subseteq All(s)
  BY <1>2 DEF All, Outer
<1>4. \A i \in 1 .. n - 1 : \A j \in 1 .. i - 1 : j \in 1 .. n - 1
  BY <1>1
<1>5. \A i \in 1 .. n - 1 : Outer(t, i) = Outer(s, i)
  BY <1>2, <1>4 DEF Outer
<1> QED
  BY <1>1, <1>2, <1>3, <1>5

----------------------------------------------------------------------------
(* Checks *)

\* The clauses of two sets together, and of any set.
LEMMA ClausesUnion ==
    ASSUME NEW S, NEW T, NEW e
    PROVE  ClauseSetOf(S, e) \cup ClauseSetOf(T, e) = ClauseSetOf(S \cup T, e)
BY DEF ClauseSetOf

LEMMA ClausesTyped ==
    ASSUME NEW S \in SUBSET Literal, NEW e \in BOOLEAN
    PROVE  ClauseSetOf(S, e) \in SUBSET Clause
BY DEF ClauseSetOf, Clause

\* A check answers whether the literals behind the clauses have a model, whether the
\* answer is new or comes from the cache, and leaves the cache right.
LEMMA CheckDecides ==
    ASSUME CacheRight, extraction \in BOOLEAN,
           NEW S \in SUBSET Literal, SupportedAll(S), Check(ClauseSetOf(S, extraction))
    PROVE  passed' = Consistent(S) /\ CacheRight'
<1> DEFINE cs == ClauseSetOf(S, extraction)
<1>1. Satisfiable(cs) = Consistent(S)
  BY ClausesAssumption DEF SupportedAll
<1>2. CASE CheckEmpty(cs)
  <2>1. cs = ClauseSetOf({}, extraction)
    BY <1>2 DEF CheckEmpty, ClauseSetOf
  <2>2. Satisfiable(ClauseSetOf({}, extraction)) = Consistent({})
    BY ClausesAssumption
  <2>3. passed' = Consistent(S)
    BY <1>1, <1>2, <2>1, <2>2, ClausesAssumption DEF CheckEmpty
  <2> QED
    BY <1>2, <2>3 DEF CheckEmpty, CacheRight
<1>3. CASE CheckCached(cs)
  BY <1>1, <1>3 DEF CheckCached, CacheRight
<1>4. CASE CheckSat(cs)
  <2>1. passed' = TRUE /\ Satisfiable(cs) = TRUE
    BY <1>4 DEF CheckSat, Satisfiable
  <2>2. \A r \in resultCache' :
            r \in resultCache \/ (r.sat = TRUE /\ r.clauses = cs)
    BY <1>4 DEF CheckSat
  <2> QED
    BY <1>1, <2>1, <2>2 DEF CacheRight
<1>5. CASE CheckUnsat(cs)
  <2>1. passed' = FALSE /\ Satisfiable(cs) = FALSE
    BY <1>5 DEF CheckUnsat, Satisfiable
  <2>2. \A r \in resultCache' :
            r \in resultCache \/ (r.sat = FALSE /\ r.clauses = cs)
    BY <1>5 DEF CheckUnsat
  <2> QED
    BY <1>1, <2>1, <2>2 DEF CacheRight
<1> QED
  BY <1>2, <1>3, <1>4, <1>5 DEF Check

----------------------------------------------------------------------------
(* The steps *)

\* The solver begins with nothing asserted.
LEMMA InitInv == Init => Inv
<1> SUFFICES ASSUME Init PROVE Inv
  OBVIOUS
<1>1. /\ branch = <<>> /\ stack = <<>> /\ clauses = {} /\ resultCache = {}
      /\ extraction \in BOOLEAN
  BY DEF Init, Stack!Init
<1>2. All(branch) = {}
  BY <1>1 DEF All
<1> QED
  BY <1>1, <1>2 DEF Inv, Shape, SupportedAll, ClausesRight, StackRight, CacheRight, ClauseSetOf

\* One more scope, with the literals n, of which none is unsupported.
LEMMA PushKeeps ==
    ASSUME Inv, NEW n \in SUBSET Literal, SupportedAll(n),
           stack' = Append(stack, clauses),
           clauses' = ClauseSetOf(All(branch) \cup n, extraction),
           Check(ClauseSetOf(All(branch) \cup n, extraction)),
           branch' = Append(branch, n),
           extraction' = extraction
    PROVE  Inv' /\ passed' = Consistent(All(branch) \cup n)
<1> USE DEF Inv, Shape
<1>1. All(branch) \cup n \in SUBSET Literal /\ SupportedAll(All(branch) \cup n)
  BY DEF All, SupportedAll
<1>2. passed' = Consistent(All(branch) \cup n) /\ CacheRight'
  BY <1>1, CheckDecides
<1>3. /\ branch' \in Seq(SUBSET Literal)
      /\ Len(branch) \in Nat
      /\ Len(branch') = Len(branch) + 1
      /\ All(branch') = All(branch) \cup n
      /\ \A i \in 1 .. Len(branch) : Outer(branch', i) = Outer(branch, i)
      /\ Outer(branch', Len(branch) + 1) = All(branch)
  <2>1. PICK m \in Nat : m = Len(branch)
    OBVIOUS
  <2>2. /\ branch' \in Seq(SUBSET Literal) /\ Len(branch') = m + 1
        /\ DOMAIN branch' = 1 .. m + 1 /\ DOMAIN branch = 1 .. m
        /\ \A i \in 1 .. m : branch'[i] = branch[i]
        /\ branch'[m + 1] = n
    BY <2>1
  <2>3. \A i : i \in 1 .. m + 1 <=> (i \in 1 .. m \/ i = m + 1)
    BY <2>1
  <2>4. \A i \in 1 .. m : \A j \in 1 .. i - 1 : j \in 1 .. m
    BY <2>1
  <2>5. 1 .. (m + 1) - 1 = 1 .. m
    BY <2>1
  <2>6. All(branch') = All(branch) \cup n
    BY <2>2, <2>3 DEF All
  <2>7. \A i \in 1 .. m : Outer(branch', i) = Outer(branch, i)
    BY <2>2, <2>4 DEF Outer
  <2>8. Outer(branch', m + 1) = All(branch)
    BY <2>2, <2>5 DEF Outer, All
  <2> QED
    BY <2>1, <2>2, <2>6, <2>7, <2>8
<1>4. clauses \in SUBSET Clause
  BY ClausesTyped DEF ClausesRight, All
<1>5. /\ stack' \in Seq(SUBSET Clause)
      /\ Len(stack') = Len(stack) + 1
      /\ \A i \in 1 .. Len(stack) : stack'[i] = stack[i]
      /\ stack'[Len(stack) + 1] = clauses
  BY <1>4, AppendAll
<1>6. Shape'
  BY <1>1, <1>3, <1>5
<1>7. ClausesRight'
  BY <1>3 DEF ClausesRight
<1>8. StackRight'
  <2> SUFFICES ASSUME NEW i \in 1 .. Len(stack')
               PROVE  stack'[i] = ClauseSetOf(Outer(branch', i), extraction)
    BY DEF StackRight
  <2>1. i \in 1 .. Len(stack) \/ i = Len(stack) + 1
    BY <1>3, <1>5
  <2>2. CASE i \in 1 .. Len(stack)
    BY <1>3, <1>5, <2>2 DEF StackRight
  <2>3. CASE i = Len(stack) + 1
    BY <1>3, <1>5, <2>3 DEF ClausesRight
  <2> QED
    BY <2>1, <2>2, <2>3
<1> QED
  BY <1>2, <1>6, <1>7, <1>8

\* What is asserted, in the words of AssertionStack.
LEMMA AssertedAll == Stack!Asserted = All(branch)
BY DEF Stack!Asserted, All

\* A check of a node is one of the stack.
LEMMA NodeStep ==
    ASSUME Inv, NEW n \in SUBSET Literal, CheckNode(n)
    PROVE  Inv' /\ Stack!Check(n)
<1>1. /\ Stack!MayCheck(n) /\ SupportedAll(n)
      /\ stack' = Append(stack, clauses)
      /\ clauses' = ClauseSetWith(n) /\ Check(ClauseSetWith(n))
      /\ branch' = Append(branch, n)
      /\ ahead' = ahead /\ extraction' = extraction
  BY DEF CheckNode, SupportedAll
<1>2. ClauseSetWith(n) = ClauseSetOf(All(branch) \cup n, extraction)
  BY ClausesUnion DEF ClauseSetWith, Inv, ClausesRight
<1>3. Inv' /\ passed' = Consistent(All(branch) \cup n)
  BY <1>1, <1>2, PushKeeps
<1> QED
  BY <1>1, <1>3, AssertedAll DEF Stack!Check

\* So is the first check of a later instant.
LEMMA LaterStep ==
    ASSUME Inv, CheckLater
    PROVE  Inv' /\ Stack!CheckLater
<1>1. /\ passed /\ ~ahead
      /\ stack' = Append(stack, clauses)
      /\ clauses' = clauses /\ Check(clauses)
      /\ branch' = Append(branch, {})
      /\ ahead' = TRUE /\ extraction' = extraction
  BY DEF CheckLater
<1>2. clauses = ClauseSetOf(All(branch) \cup {}, extraction)
  BY DEF Inv, ClausesRight
<1>3. Inv' /\ passed' = Consistent(All(branch) \cup {})
  BY <1>1, <1>2, PushKeeps DEF SupportedAll
<1> QED
  BY <1>1, <1>3, AssertedAll DEF Stack!CheckLater

\* A pop brings back the clauses of the outer scopes.
LEMMA PopKeeps ==
    ASSUME Inv, Pop
    PROVE  Inv'
<1> USE DEF Inv, Shape
<1>1. /\ branch # <<>> /\ branch' = SubSeq(branch, 1, Len(branch) - 1)
      /\ clauses' = stack[Len(stack)]
      /\ stack' = SubSeq(stack, 1, Len(stack) - 1)
      /\ extraction' = extraction /\ resultCache' = resultCache
  BY DEF Pop, Stack!Pop
<1>2. Len(branch) # 0 /\ Len(stack) # 0
  BY <1>1
<1>3. /\ branch' \in Seq(SUBSET Literal)
      /\ Len(branch) \in Nat \ {0}
      /\ Len(branch') = Len(branch) - 1
      /\ All(branch') = Outer(branch, Len(branch))
      /\ All(branch') \subseteq All(branch)
      /\ \A i \in 1 .. Len(branch') : Outer(branch', i) = Outer(branch, i)
  <2>1. PICK m \in Nat \ {0} : m = Len(branch)
    BY <1>2
  <2>2. /\ branch' \in Seq(SUBSET Literal) /\ Len(branch') = m - 1
        /\ DOMAIN branch' = 1 .. m - 1 /\ DOMAIN branch = 1 .. m
        /\ \A i \in 1 .. m - 1 : i \in 1 .. m /\ branch'[i] = branch[i]
    BY <1>1, <2>1
  <2>3. All(branch') = Outer(branch, m) /\ All(branch') \subseteq All(branch)
    BY <2>2 DEF All, Outer
  <2>4. \A i \in 1 .. m - 1 : \A j \in 1 .. i - 1 : j \in 1 .. m - 1
    BY <2>1
  <2>5. \A i \in 1 .. m - 1 : Outer(branch', i) = Outer(branch, i)
    BY <2>2, <2>4 DEF Outer
  <2> QED
    BY <2>1, <2>2, <2>3, <2>5
<1>4. /\ stack' \in Seq(SUBSET Clause)
      /\ Len(stack') = Len(stack) - 1
      /\ \A i \in 1 .. Len(stack') : i \in 1 .. Len(stack) /\ stack'[i] = stack[i]
  BY <1>1, <1>2, FrontAll
<1>5. Shape'
  BY <1>1, <1>3, <1>4 DEF SupportedAll
<1>6. Len(stack) \in 1 .. Len(stack)
  BY <1>3
<1>7. ClausesRight'
  BY <1>1, <1>3, <1>6 DEF ClausesRight, StackRight
<1>8. StackRight'
  BY <1>1, <1>3, <1>4 DEF StackRight
<1>9. CacheRight'
  BY <1>1 DEF CacheRight
<1> QED
  BY <1>5, <1>7, <1>8, <1>9

\* An empty solver has nothing but the cache.
LEMMA EmptyKeeps ==
    ASSUME Inv, EmptySolver
    PROVE  Inv'
<1>1. /\ branch' = <<>> /\ stack' = <<>> /\ clauses' = {}
      /\ extraction' = extraction /\ resultCache' = resultCache
  BY DEF EmptySolver, Stack!EmptySolver
<1>2. All(branch') = {}
  BY <1>1 DEF All
<1> QED
  BY <1>1, <1>2 DEF Inv, Shape, SupportedAll, ClausesRight, StackRight, CacheRight, ClauseSetOf

\* Every step of the solver is one of the stack, or leaves the stack alone.
LEMMA NextStep == Inv /\ [Next]_vars => Inv' /\ [Stack!Next]_(Stack!vars)
<1> SUFFICES ASSUME Inv, [Next]_vars PROVE Inv' /\ [Stack!Next]_(Stack!vars)
  OBVIOUS
<1>1. ASSUME NEW n \in SUBSET Literal, CheckNode(n) PROVE Inv' /\ [Stack!Next]_(Stack!vars)
  BY <1>1, NodeStep DEF Stack!Next
<1>2. CASE CheckLater
  BY <1>2, LaterStep DEF Stack!Next
<1>3. CASE Pop
  BY <1>3, PopKeeps DEF Pop, Stack!Next
<1>4. CASE EmptySolver
  BY <1>4, EmptyKeeps DEF EmptySolver, Stack!Next
<1>5. ASSUME UNCHANGED <<client, extraction, clauses, stack, resultCache>>
      PROVE  Inv' /\ [Stack!Next]_(Stack!vars)
  BY <1>5 DEF client, Stack!vars, Inv, Shape, ClausesRight, StackRight, CacheRight
<1> QED
  BY <1>1, <1>2, <1>3, <1>4, <1>5 DEF Next, Panic, vars

\* The translation to clauses, the search through the choices and the cache that is
\* handed on to later instants implement a stack of assertions: each check answers
\* whether all that is asserted has a model.
THEOREM ClausesImplementStack == Spec => KeepsPromise
<1>1. Init => Stack!Init
  BY DEF Init
<1> QED
  BY <1>1, InitInv, NextStep, PTL DEF Spec, KeepsPromise, Stack!Spec

----------------------------------------------------------------------------
(* Types and cores *)

\* What the cache holds of a failed check is a core of those clauses, under one key.
CoresCached ==
    /\ \A r \in resultCache : r.sat \in BOOLEAN /\ r.core \subseteq Ids
    /\ \A r \in resultCache : ~r.sat /\ extraction => r.core \in CoresLeft(r.clauses)
    /\ \A r, s \in resultCache : r.clauses = s.clauses => r = s

\* The core of the solver is one of its clauses when the last check failed.
CoreLeft ==
    /\ core \subseteq Ids
    /\ ~passed /\ extraction => core \in CoresLeft(clauses)

Flags == ahead \in BOOLEAN /\ passed \in BOOLEAN /\ panicked \in BOOLEAN

CoreInv == Inv /\ Flags /\ CoresCached /\ CoreLeft

\* A clause has one constraint or two, and they carry the id of the literal they come
\* from.
LEMMA ClauseOfLiteral ==
    ASSUME NEW S \in SUBSET Literal, NEW e \in BOOLEAN, NEW c \in ClauseSetOf(S, e)
    PROVE  /\ Len(c) \in {1, 2}
           /\ Len(c) = 1 => c = <<c[1]>>
           /\ e => \E l \in S :
                    /\ c \in ClausesOf(l, e)
                    /\ c[1].id = l.id
                    /\ Len(c) = 2 => c[2].id = l.id
<1>1. PICK l \in S : c \in ClausesOf(l, e)
  BY DEF ClauseSetOf
<1> DEFINE id == IF e THEN l.id ELSE 0
<1>2. \A op, left, right : Difference(op, left, right, id).id = id
  BY DEF Difference
<1>3. \/ \E d : c = <<d>> /\ d.id = id
      \/ \E d, f : c = <<d, f>> /\ d.id = id /\ f.id = id
  <2>1. \A op, left, right : \A b \in InequalityClauses(op, left, right, id) :
            \/ \E d : b = <<d>> /\ d.id = id
            \/ \E d, f : b = <<d, f>> /\ d.id = id /\ f.id = id
    <3> HIDE DEF id
    <3> QED
      BY <1>2 DEF InequalityClauses
  <2>2. \/ \E op, left, right : c \in InequalityClauses(op, left, right, id)
        \/ \E left, right : c = <<Difference("Lt", left, right, id),
                                  Difference("Gt", left, right, id)>>
    BY <1>1, Zenon DEF ClausesOf
  <2>3. CASE \E op, left, right : c \in InequalityClauses(op, left, right, id)
    <3>1. PICK op, left, right : c \in InequalityClauses(op, left, right, id)
      BY <2>3
    <3> HIDE DEF id
    <3> QED
      BY <2>1, <3>1
  <2>4. CASE \E left, right : c = <<Difference("Lt", left, right, id),
                                    Difference("Gt", left, right, id)>>
    <3> HIDE DEF id
    <3> QED
      BY <1>2, <2>4, Zenon
  <2> QED
    BY <2>2, <2>3, <2>4
<1>4. CASE \E d : c = <<d>> /\ d.id = id
  BY <1>1, <1>4
<1>5. CASE \E d, f : c = <<d, f>> /\ d.id = id /\ f.id = id
  BY <1>1, <1>5
<1> QED
  BY <1>3, <1>4, <1>5

\* A cycle's core is not empty.
LEMMA CoresNonempty ==
    ASSUME NEW D, NEW k \in CoresOf(D)
    PROVE  k # {} /\ k \subseteq {d.id : d \in D}
BY DEF CoresOf, NegativeCycles, IsCycle, Edges

\* The core of clauses is made of ids of the literals that they come from.
LEMMA CoreOfAsserted ==
    ASSUME NEW S \in SUBSET Literal, NEW k \in CoresLeft(ClauseSetOf(S, TRUE))
    PROVE  k # {} /\ k \subseteq {l.id : l \in S}
<1> DEFINE cs == ClauseSetOf(S, TRUE)
           second == [b \in Binary(cs) |-> 2]
<1>1. \A d \in Unary(cs) : \E l \in S : d.id = l.id
  BY ClauseOfLiteral DEF Unary
<1>2. \A d \in Chosen(cs, second) : \E l \in S : d.id = l.id
  <2>1. \A b \in Binary(cs) : \E l \in S : b[2].id = l.id
    BY ClauseOfLiteral DEF Binary
  <2>2. Chosen(cs, second) = Unary(cs) \cup {b[2] : b \in Binary(cs)}
    BY DEF Chosen
  <2> HIDE DEF cs, second
  <2> QED
    BY <1>1, <2>1, <2>2
<1>3. k \in CoresOf(Unary(cs)) \/ k \in CoresOf(Chosen(cs, second))
  BY DEF CoresLeft
<1> HIDE DEF cs, second
<1>4. \/ k # {} /\ k \subseteq {d.id : d \in Unary(cs)}
      \/ k # {} /\ k \subseteq {d.id : d \in Chosen(cs, second)}
  BY <1>3, CoresNonempty
<1> QED
  BY <1>1, <1>2, <1>4

\* If no choice was needed, the literals of the core are contradictory by themselves.
LEMMA CoreContradicts ==
    ASSUME NEW S \in SUBSET Literal, SupportedAll(S),
           HasNegativeCycle(Unary(ClauseSetOf(S, TRUE))),
           NEW k \in CoresLeft(ClauseSetOf(S, TRUE))
    PROVE  ~Consistent({l \in S : l.id \in k})
<1> DEFINE B == {l \in S : l.id \in k}
           big == Unary(ClauseSetOf(S, TRUE))
           small == Unary(ClauseSetOf(B, TRUE))
<1>1. PICK C \in NegativeCycles(big) : k = {d.id : d \in C}
  BY DEF CoresLeft, CoresOf
<1>2. C \subseteq small
  <2> SUFFICES ASSUME NEW d \in C PROVE d \in small
    OBVIOUS
  <2>1. d \in big /\ d.id \in k
    BY <1>1 DEF NegativeCycles, Edges
  <2>2. PICK c \in ClauseSetOf(S, TRUE) : Len(c) = 1 /\ d = c[1]
    BY <2>1 DEF Unary
  <2>3. PICK l \in S : c \in ClausesOf(l, TRUE) /\ c[1].id = l.id
    BY ClauseOfLiteral
  <2>4. l \in B
    BY <2>1, <2>2, <2>3
  <2>5. c \in ClauseSetOf(B, TRUE)
    BY <2>3, <2>4 DEF ClauseSetOf
  <2> QED
    BY <2>2, <2>5 DEF Unary
<1>3. small \subseteq big
  BY DEF Unary, ClauseSetOf
<1>4. C \in NegativeCycles(small)
  <2> HIDE DEF small, big
  <2> QED
    BY <1>1, <1>2, <1>3 DEF NegativeCycles, Edges
<1>5. ~Satisfiable(ClauseSetOf(B, TRUE))
  BY <1>4 DEF Satisfiable, HasNegativeCycle
<1>6. B \in SUBSET Literal /\ \A l \in B : Supported(Normalized(l))
  BY DEF SupportedAll
<1>7. Satisfiable(ClauseSetOf(B, TRUE)) = Consistent(B)
  <2> HIDE DEF B
  <2> QED
    BY <1>6, ClausesAssumption
<1> QED
  BY <1>5, <1>7

\* A check leaves a core of the clauses that were checked if it fails, whether it is
\* computed or found in the cache.
LEMMA CheckCores ==
    ASSUME CoreInv, NEW S \in SUBSET Literal, SupportedAll(S),
           clauses' = ClauseSetOf(S, extraction), Check(ClauseSetOf(S, extraction)),
           extraction' = extraction
    PROVE  passed' \in BOOLEAN /\ CoresCached' /\ CoreLeft'
<1> DEFINE cs == ClauseSetOf(S, extraction)
<1> USE DEF CoreInv, Inv, Shape, Flags
<1>1. \A k \in CoresLeft(cs) : extraction => k \subseteq Ids
  <2> SUFFICES ASSUME NEW k \in CoresLeft(cs), extraction PROVE k \subseteq Ids
    OBVIOUS
  <2>1. cs = ClauseSetOf(S, TRUE)
    OBVIOUS
  <2>2. k \subseteq {l.id : l \in S}
    BY <2>1, CoreOfAsserted
  <2> QED
    BY <2>2 DEF Ids
<1> HIDE DEF cs
<1>2. Check(cs) /\ clauses' = cs
  BY DEF cs
<1>3. CASE CheckEmpty(cs)
  BY <1>3 DEF CheckEmpty, CoresCached, CoreLeft
<1>4. CASE CheckCached(cs)
  <2>1. PICK r \in resultCache : r.clauses = cs /\ passed' = r.sat /\ core' = r.core
    BY <1>4 DEF CheckCached
  <2>2. resultCache' = resultCache
    BY <1>4 DEF CheckCached
  <2>3. CoresCached'
    BY <2>2 DEF CoresCached
  <2>4. passed' \in BOOLEAN /\ core' \subseteq Ids
    BY <2>1 DEF CoresCached
  <2>5. ~passed' /\ extraction => core' \in CoresLeft(cs)
    BY <2>1 DEF CoresCached
  <2> QED
    BY <1>2, <2>3, <2>4, <2>5 DEF CoreLeft
<1>5. CASE CheckSat(cs)
  <2> DEFINE new == [clauses |-> cs, sat |-> TRUE, core |-> {}]
  <2>1. /\ passed' = TRUE
        /\ core' = core \/ core' = {}
        /\ resultCache' = resultCache \cup {new}
        /\ \A r \in resultCache : r.clauses # cs
    BY <1>5 DEF CheckSat, IsNew
  <2>2. new.clauses = cs /\ new.sat = TRUE /\ new.core = {}
    OBVIOUS
  <2> HIDE DEF new
  <2>3. CoresCached'
    BY <2>1, <2>2 DEF CoresCached
  <2> QED
    BY <1>2, <2>1, <2>3 DEF CoreLeft
<1>6. CASE CheckUnsat(cs)
  <2> DEFINE new == [clauses |-> cs, sat |-> FALSE, core |-> core']
  <2>1. /\ passed' = FALSE
        /\ \E c \in CoresLeft(cs) : core' = IF extraction THEN c ELSE {}
        /\ resultCache' = resultCache \cup {new}
        /\ \A r \in resultCache : r.clauses # cs
    BY <1>6 DEF CheckUnsat, IsNew
  <2>2. new.clauses = cs /\ new.sat = FALSE /\ new.core = core'
    OBVIOUS
  <2>3. core' \subseteq Ids /\ (extraction => core' \in CoresLeft(cs))
    BY <1>1, <2>1
  <2> HIDE DEF new
  <2>4. CoresCached'
    BY <2>1, <2>2, <2>3 DEF CoresCached
  <2> QED
    BY <1>2, <2>1, <2>3, <2>4 DEF CoreLeft
<1> QED
  BY <1>2, <1>3, <1>4, <1>5, <1>6 DEF Check

\* Where the solver begins there is no core.
LEMMA InitCore == Init => CoreInv
BY InitInv DEF Init, Stack!Init, CoreInv, Flags, CoresCached, CoreLeft

\* Every step keeps types and cores.
LEMMA NextCore == CoreInv /\ [Next]_vars => CoreInv'
<1> SUFFICES ASSUME CoreInv, [Next]_vars PROVE CoreInv'
  OBVIOUS
<1>1. Inv'
  BY NextStep DEF CoreInv
<1>2. All(branch) \in SUBSET Literal /\ SupportedAll(All(branch))
  BY DEF CoreInv, Inv, Shape, All
<1>3. ASSUME NEW n \in SUBSET Literal, CheckNode(n) PROVE CoreInv'
  <2>1. /\ SupportedAll(n) /\ clauses' = ClauseSetWith(n) /\ Check(ClauseSetWith(n))
        /\ ahead' = ahead /\ extraction' = extraction /\ panicked' = panicked
    BY <1>3 DEF CheckNode, SupportedAll
  <2>2. ClauseSetWith(n) = ClauseSetOf(All(branch) \cup n, extraction)
    BY ClausesUnion DEF ClauseSetWith, CoreInv, Inv, ClausesRight
  <2>3. All(branch) \cup n \in SUBSET Literal /\ SupportedAll(All(branch) \cup n)
    BY <1>2, <2>1 DEF SupportedAll
  <2>4. passed' \in BOOLEAN /\ CoresCached' /\ CoreLeft'
    BY <2>1, <2>2, <2>3, CheckCores
  <2> QED
    BY <1>1, <2>1, <2>4 DEF CoreInv, Flags
<1>4. CASE CheckLater
  <2>1. /\ Check(clauses) /\ clauses' = clauses
        /\ ahead' = TRUE /\ extraction' = extraction /\ panicked' = panicked
    BY <1>4 DEF CheckLater
  <2>2. clauses = ClauseSetOf(All(branch), extraction)
    BY DEF CoreInv, Inv, ClausesRight
  <2>3. passed' \in BOOLEAN /\ CoresCached' /\ CoreLeft'
    BY <1>2, <2>1, <2>2, CheckCores
  <2> QED
    BY <1>1, <2>1, <2>3 DEF CoreInv, Flags
<1>5. CASE Pop \/ EmptySolver
  <2>1. /\ passed' = TRUE /\ ahead' = FALSE /\ (core' = core \/ core' = {})
        /\ UNCHANGED <<extraction, resultCache, panicked>>
    BY <1>5 DEF Pop, EmptySolver, Stack!Pop, Stack!EmptySolver
  <2> QED
    BY <1>1, <2>1 DEF CoreInv, Flags, CoresCached, CoreLeft
<1>6. ASSUME UNCHANGED <<client, extraction, clauses, stack, core, resultCache>>,
             panicked' \in BOOLEAN
      PROVE  CoreInv'
  BY <1>1, <1>6 DEF CoreInv, Flags, CoresCached, CoreLeft, client
<1>7. panicked \in BOOLEAN
  BY DEF CoreInv, Flags
<1> QED
  BY <1>3, <1>4, <1>5, <1>6, <1>7 DEF Next, Panic, vars

\* The clause sets, the scopes, the core and the cache keep their types, and no clause
\* set is twice in the cache.
THEOREM TypeCorrect == Spec => []TypeOK
<1>1. CoreInv => TypeOK
  <2> SUFFICES ASSUME CoreInv PROVE TypeOK
    OBVIOUS
  <2>1. Stack!TypeOK
    BY DEF CoreInv, Inv, Shape, Flags, Stack!TypeOK
  <2>2. \A c \in clauses : Len(c) \in {1, 2}
    <3>1. All(branch) \in SUBSET Literal
      BY DEF CoreInv, Inv, Shape, All
    <3> QED
      BY <3>1, ClauseOfLiteral DEF CoreInv, Inv, Shape, ClausesRight
  <2> QED
    BY <2>1, <2>2 DEF CoreInv, Inv, Shape, Flags, CoresCached, CoreLeft, TypeOK
<1> QED
  BY <1>1, InitCore, NextCore, PTL DEF Spec

\* The core of a failed check, new or cached, is a nonempty part of what is asserted; if
\* no choice had to be made it is contradictory by itself.
THEOREM CoreCorrect == Spec => []CoreRight
<1>1. CoreInv => CoreRight
  <2> SUFFICES ASSUME CoreInv, ~passed, extraction
               PROVE  /\ core # {}
                      /\ core \subseteq {l.id : l \in Stack!Asserted}
                      /\ HasNegativeCycle(Unary(clauses)) => ~Consistent(Blamed)
    BY DEF CoreRight
  <2> DEFINE S == All(branch)
  <2>1. S \in SUBSET Literal /\ SupportedAll(S)
    BY DEF CoreInv, Inv, Shape, All
  <2>2. clauses = ClauseSetOf(S, TRUE)
    BY DEF CoreInv, Inv, ClausesRight
  <2>3. core \in CoresLeft(ClauseSetOf(S, TRUE))
    BY <2>2 DEF CoreInv, CoreLeft
  <2>4. Stack!Asserted = S
    BY AssertedAll
  <2>5. Blamed = {l \in S : l.id \in core}
    BY <2>4 DEF Blamed
  <2> HIDE DEF S
  <2>6. core # {} /\ core \subseteq {l.id : l \in S}
    BY <2>1, <2>3, CoreOfAsserted
  <2>7. HasNegativeCycle(Unary(ClauseSetOf(S, TRUE))) => ~Consistent({l \in S : l.id \in core})
    BY <2>1, <2>3, CoreContradicts
  <2> QED
    BY <2>2, <2>4, <2>5, <2>6, <2>7
<1> QED
  BY <1>1, InitCore, NextCore, PTL DEF Spec
=============================================================================
