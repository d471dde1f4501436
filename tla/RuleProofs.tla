---------------------------- MODULE RuleProofs ----------------------------
(***************************************************************************)
(* The rules of Decompose keep the meaning of a node.                      *)
(***************************************************************************)
EXTENDS RuleTableau, FormulaProofs, TableauSearchProofs

----------------------------------------------------------------------------
(* Nodes and what they ask of a signal *)
NodeFormula == [f : Formula, marked : BOOLEAN, parent : Int, id : Int]
Node == [ops : Seq(NodeFormula), time : Nat, simple : BOOLEAN]

\* The instant from which an operand still demands something
From(o, t) == IF o.marked THEN t + 1 ELSE t
Asks(sig, o, t) == Demands(sig, o.f, t, From(o, t))
AllAsk(sig, S, t) == \A o \in S : Asks(sig, o, t)

\* What the rules leave in a node: expansions, made at the node's instant, of coherent
\* formulas, and temporal operators that are not over; the postponed ones have an
\* instant left.
Fit(o, t) ==
    IF IsTemporal(o.f)
    THEN /\ Coherent[o.f]
         /\ t <= o.f.int.upper
         /\ o.marked => o.f.int.lower <= t /\ t < o.f.int.upper
    ELSE /\ ~o.marked
         /\ \E g \in Formula : Coherent[g] /\ ~IsTemporal(g) /\ o.f = Expansion(g, t)
FitNode(n) == n \in Node /\ \A o \in ToSet(n.ops) : Fit(o, n.time)

\* The nodes kids, made from a fit node n, are fit and split its models among them.
Faithful(n, kids) ==
    /\ \A k \in DOMAIN kids : FitNode(kids[k]) /\ ~kids[k].simple /\ kids[k].time = n.time
    /\ \A sig \in Signal : Models(sig, n) <=> \E k \in DOMAIN kids : Models(sig, kids[k])

LEMMA NodeFacts ==
    ASSUME NEW n \in Node
    PROVE  /\ n = [ops |-> n.ops, time |-> n.time, simple |-> n.simple]
           /\ n.ops \in Seq(NodeFormula) /\ n.time \in Nat /\ n.simple \in BOOLEAN
           /\ Len(n.ops) \in Nat /\ DOMAIN n.ops = 1 .. Len(n.ops)
           /\ \A i \in DOMAIN n.ops : n.ops[i] \in NodeFormula
           /\ ToSet(n.ops) \subseteq NodeFormula
<1>1. n = [ops |-> n.ops, time |-> n.time, simple |-> n.simple]
  BY DEF Node
<1>2. n.ops \in Seq(NodeFormula) /\ n.time \in Nat /\ n.simple \in BOOLEAN
  BY DEF Node
<1>3. Len(n.ops) \in Nat /\ DOMAIN n.ops = 1 .. Len(n.ops) /\ \A i \in DOMAIN n.ops : n.ops[i] \in NodeFormula
  BY <1>2
<1> QED
  BY <1>1, <1>2, <1>3 DEF ToSet

LEMMA OperandShape ==
    ASSUME NEW o \in NodeFormula
    PROVE  /\ o = [f |-> o.f, marked |-> o.marked, parent |-> o.parent, id |-> o.id]
           /\ o.f \in Formula /\ o.marked \in BOOLEAN /\ o.parent \in Int /\ o.id \in Int
BY DEF NodeFormula

LEMMA ModelsAsk ==
    ASSUME NEW sig, NEW n
    PROVE  Models(sig, n) <=> AllAsk(sig, ToSet(n.ops), n.time)
BY DEF Models, AllAsk, Asks, From, ToSet

LEMMA LastIdType ==
    ASSUME NEW ops \in Seq(NodeFormula)
    PROVE  LastId(ops) \in Int
<1> DEFINE S == {0} \cup UNION {{ops[i].id, ops[i].parent} : i \in DOMAIN ops}
           ids == [i \in DOMAIN ops |-> ops[i].id]
           parents == [i \in DOMAIN ops |-> ops[i].parent]
           A == {ids[i] : i \in DOMAIN ops}
           B == {parents[i] : i \in DOMAIN ops}
<1>1. DOMAIN ops = 1 .. Len(ops) /\ Len(ops) \in Int
  OBVIOUS
<1>2. IsFiniteSet(DOMAIN ops)
  BY <1>1, FS_Interval
<1>3. \A i \in DOMAIN ops : ops[i].id \in Int /\ ops[i].parent \in Int
  BY OperandShape
<1>4. S = ({0} \cup A) \cup B
  OBVIOUS
<1>5. S \in SUBSET Int /\ S # {}
  BY <1>3
<1> HIDE DEF S, ids, parents
<1>6. IsFiniteSet(A) /\ IsFiniteSet(B) /\ IsFiniteSet({0})
  <2>1. IsFiniteSet(A)
    BY <1>2, ImageFinite, Zenon
  <2>2. IsFiniteSet(B)
    BY <1>2, ImageFinite, Zenon
  <2> QED
    BY <2>1, <2>2, FS_Singleton, Zenon
<1> HIDE DEF A, B
<1>7. IsFiniteSet(({0} \cup A) \cup B)
  BY <1>6, FS_Union
<1>8. Max(S) \in S
  BY <1>4, <1>5, <1>7, MaxFact
<1>9. Max(S) \in Int
  BY <1>5, <1>8
<1> QED
  BY <1>9, Zenon DEF LastId, S

\* WithOperands only numbers the operands it is given.
LEMMA Numbered ==
    ASSUME NEW n \in Node, NEW ops \in Seq(NodeFormula)
    PROVE  LET c == WithOperands(n, ops)
           IN  /\ c \in Node /\ c.time = n.time /\ ~c.simple
               /\ DOMAIN c.ops = DOMAIN ops
               /\ \A i \in DOMAIN ops : c.ops[i].f = ops[i].f /\ c.ops[i].marked = ops[i].marked
<1> DEFINE c == WithOperands(n, ops)
           last == LastId(n.ops)
           new == [i \in DOMAIN ops |->
                     IF ops[i].id = 0 THEN [ops[i] EXCEPT !.id = last + i] ELSE ops[i]]
<1>1. last \in Int
  BY NodeFacts, LastIdType
<1>2. DOMAIN ops = 1 .. Len(ops) /\ Len(ops) \in Nat
  OBVIOUS
<1>3. c = [n EXCEPT !.simple = FALSE, !.ops = new]
  BY DEF WithOperands
<1> HIDE DEF last
<1>4. ASSUME NEW i \in DOMAIN ops
      PROVE  /\ new[i] \in NodeFormula
             /\ new[i].f = ops[i].f /\ new[i].marked = ops[i].marked
  <2>1. new[i] = IF ops[i].id = 0 THEN [ops[i] EXCEPT !.id = last + i] ELSE ops[i]
    OBVIOUS
  <2> DEFINE o == ops[i]
             j == last + i
  <2>2. o \in NodeFormula /\ j \in Int
    BY <1>1, <1>2
  <2>3. new[i] = IF o.id = 0 THEN [o EXCEPT !.id = j] ELSE o
    BY <2>1
  <2> HIDE DEF o, j, new
  <2>4. /\ o = [f |-> o.f, marked |-> o.marked, parent |-> o.parent, id |-> o.id]
        /\ o.f \in Formula /\ o.marked \in BOOLEAN /\ o.parent \in Int
    BY <2>2, OperandShape
  <2>5. [o EXCEPT !.id = j] = [f |-> o.f, marked |-> o.marked, parent |-> o.parent, id |-> j]
    BY <2>4
  <2>6. CASE o.id = 0
    <3>1. new[i] = [f |-> o.f, marked |-> o.marked, parent |-> o.parent, id |-> j]
      BY <2>3, <2>5, <2>6
    <3>2. new[i] \in NodeFormula /\ new[i].f = o.f /\ new[i].marked = o.marked
      BY <2>2, <2>4, <3>1 DEF NodeFormula
    <3> QED
      BY <3>2 DEF o
  <2>7. CASE o.id # 0
    BY <2>2, <2>3, <2>7 DEF o
  <2> QED
    BY <2>6, <2>7
<1>5. DOMAIN new = DOMAIN ops
  OBVIOUS
<1>6. new \in Seq(NodeFormula)
  <2> HIDE DEF new
  <2>1. new = [i \in 1 .. Len(ops) |-> new[i]]
    BY <1>2 DEF new
  <2> QED
    BY <1>2, <1>4, <1>5, <2>1
<1> HIDE DEF new
<1>7. c = [ops |-> new, time |-> n.time, simple |-> FALSE]
  <2>1. n = [ops |-> n.ops, time |-> n.time, simple |-> n.simple]
    BY NodeFacts
  <2> HIDE DEF c
  <2> QED
    BY <1>3, <2>1
<1> HIDE DEF c
<1>8. c \in Node /\ c.time = n.time /\ ~c.simple /\ c.ops = new
  BY <1>6, <1>7, NodeFacts DEF Node
<1>9. /\ c \in Node /\ c.time = n.time /\ ~c.simple
      /\ DOMAIN c.ops = DOMAIN ops
      /\ \A i \in DOMAIN ops : c.ops[i].f = ops[i].f /\ c.ops[i].marked = ops[i].marked
  BY <1>4, <1>5, <1>8
<1> QED
  BY <1>9 DEF c

\* Neither what a node asks nor whether it is fit depends on the numbers.
LEMMA NumberedMeaning ==
    ASSUME NEW n \in Node, NEW ops \in Seq(NodeFormula)
    PROVE  LET c == WithOperands(n, ops)
           IN  /\ c \in Node /\ c.time = n.time /\ ~c.simple
               /\ \A sig : Models(sig, c) <=> AllAsk(sig, ToSet(ops), n.time)
               /\ (\A o \in ToSet(ops) : Fit(o, n.time)) => FitNode(c)
<1> DEFINE c == WithOperands(n, ops)
<1>1. /\ c \in Node /\ c.time = n.time /\ ~c.simple
      /\ DOMAIN c.ops = DOMAIN ops
      /\ \A i \in DOMAIN ops : c.ops[i].f = ops[i].f /\ c.ops[i].marked = ops[i].marked
  BY Numbered
<1> HIDE DEF c
<1>2. ASSUME NEW i \in DOMAIN ops
      PROVE  /\ \A sig : Asks(sig, c.ops[i], n.time) <=> Asks(sig, ops[i], n.time)
             /\ Fit(c.ops[i], n.time) <=> Fit(ops[i], n.time)
  BY <1>1 DEF Asks, From, Fit
<1>3. ASSUME NEW sig PROVE Models(sig, c) <=> AllAsk(sig, ToSet(ops), n.time)
  BY <1>1, <1>2, ModelsAsk DEF AllAsk, ToSet
<1>4. (\A o \in ToSet(ops) : Fit(o, n.time)) => FitNode(c)
  BY <1>1, <1>2 DEF FitNode, ToSet
<1> QED
  BY <1>1, <1>3, <1>4 DEF c

\* The elements of a sequence in which one place was filled with others
LEMMA ReplacedElements ==
    ASSUME NEW S, NEW s \in Seq(S), NEW i \in DOMAIN s, NEW new \in Seq(S)
    PROVE  LET r == SubSeq(s, 1, i - 1) \o new \o SubSeq(s, i + 1, Len(s))
           IN  /\ r \in Seq(S)
               /\ ToSet(r) = {s[j] : j \in DOMAIN s \ {i}} \cup ToSet(new)
<1> DEFINE a == SubSeq(s, 1, i - 1)
           b == SubSeq(s, i + 1, Len(s))
<1>1. Len(s) \in Nat /\ DOMAIN s = 1 .. Len(s) /\ i \in Int /\ 1 <= i /\ i <= Len(s)
  OBVIOUS
<1>2. /\ a \in Seq(S) /\ Len(a) = i - 1 /\ DOMAIN a = 1 .. i - 1
      /\ \A j \in 1 .. i - 1 : a[j] = s[j]
  BY <1>1
<1>3. /\ b \in Seq(S) /\ Len(b) = Len(s) - i /\ DOMAIN b = 1 .. Len(s) - i
      /\ \A j \in 1 .. Len(s) - i : b[j] = s[i + j]
  <2>1. b \in Seq(S) /\ Len(b) = Len(s) - i
    BY <1>1
  <2>2. \A j \in 1 .. Len(s) - i : b[j] = s[(i + 1) + j - 1] /\ (i + 1) + j - 1 = i + j
    BY <1>1
  <2> HIDE DEF b
  <2>3. DOMAIN b = 1 .. Len(b)
    BY <2>1
  <2> QED
    BY <2>1, <2>2, <2>3
<1> HIDE DEF a, b
<1>4. a \o new \in Seq(S) /\ ToSet(a \o new) = ToSet(a) \cup ToSet(new)
  BY <1>2, ConcatElements
<1>5. (a \o new) \o b \in Seq(S) /\ ToSet((a \o new) \o b) = ToSet(a \o new) \cup ToSet(b)
  <2> DEFINE c == a \o new
  <2>1. c \in Seq(S)
    BY <1>4
  <2> HIDE DEF c
  <2>2. c \o b \in Seq(S) /\ ToSet(c \o b) = ToSet(c) \cup ToSet(b)
    BY <1>3, <2>1, ConcatElements
  <2> QED
    BY <2>2 DEF c
<1>6. ToSet(a) \cup ToSet(b) = {s[j] : j \in DOMAIN s \ {i}}
  <2>1. ASSUME NEW x \in ToSet(a) PROVE x \in {s[j] : j \in DOMAIN s \ {i}}
    <3>1. PICK j \in 1 .. i - 1 : x = s[j]
      BY <1>2, <2>1 DEF ToSet
    <3>2. j \in DOMAIN s \ {i}
      BY <1>1
    <3> QED
      BY <3>1, <3>2
  <2>2. ASSUME NEW x \in ToSet(b) PROVE x \in {s[j] : j \in DOMAIN s \ {i}}
    <3>1. PICK j \in 1 .. Len(s) - i : x = s[i + j]
      BY <1>3, <2>2 DEF ToSet
    <3>2. i + j \in DOMAIN s \ {i}
      BY <1>1
    <3> QED
      BY <3>1, <3>2
  <2>3. ASSUME NEW j \in DOMAIN s \ {i} PROVE s[j] \in ToSet(a) \cup ToSet(b)
    <3>1. CASE j < i
      <4>1. j \in 1 .. i - 1
        BY <1>1, <3>1
      <4> QED
        BY <1>2, <4>1 DEF ToSet
    <3>2. CASE j > i
      <4>1. j - i \in 1 .. Len(s) - i /\ i + (j - i) = j
        BY <1>1, <3>2
      <4>2. b[j - i] = s[j]
        BY <1>3, <4>1
      <4> QED
        BY <1>3, <4>1, <4>2 DEF ToSet
    <3> QED
      BY <1>1, <3>1, <3>2
  <2> QED
    BY <2>1, <2>2, <2>3
<1>7. (a \o new) \o b \in Seq(S) /\ ToSet((a \o new) \o b) = {s[j] : j \in DOMAIN s \ {i}} \cup ToSet(new)
  BY <1>4, <1>5, <1>6
<1> QED
  BY <1>7 DEF a, b

\* Replacing an operand of a fit node
LEMMA ReplacedMeaning ==
    ASSUME NEW n, FitNode(n), NEW i \in DOMAIN n.ops, NEW new \in Seq(NodeFormula),
           \A o \in ToSet(new) : Fit(o, n.time)
    PROVE  LET c == Replace(n, i, new)
           IN  /\ FitNode(c) /\ ~c.simple /\ c.time = n.time
               /\ \A sig : Models(sig, c) <=> /\ \A j \in DOMAIN n.ops \ {i} : Asks(sig, n.ops[j], n.time)
                                              /\ AllAsk(sig, ToSet(new), n.time)
<1> DEFINE r == SubSeq(n.ops, 1, i - 1) \o new \o SubSeq(n.ops, i + 1, Len(n.ops))
           c == WithOperands(n, r)
<1>1. n \in Node /\ n.ops \in Seq(NodeFormula) /\ \A j \in DOMAIN n.ops : Fit(n.ops[j], n.time)
  BY NodeFacts DEF FitNode, ToSet
<1>2. r \in Seq(NodeFormula) /\ ToSet(r) = {n.ops[j] : j \in DOMAIN n.ops \ {i}} \cup ToSet(new)
  BY <1>1, ReplacedElements
<1> HIDE DEF r
<1>3. \A o \in ToSet(r) : Fit(o, n.time)
  BY <1>1, <1>2
<1>4. /\ FitNode(c) /\ ~c.simple /\ c.time = n.time
      /\ \A sig : Models(sig, c) <=> AllAsk(sig, ToSet(r), n.time)
  BY <1>1, <1>2, <1>3, NumberedMeaning
<1> HIDE DEF c
<1>5. \A sig : AllAsk(sig, ToSet(r), n.time) <=> /\ \A j \in DOMAIN n.ops \ {i} : Asks(sig, n.ops[j], n.time)
                                                 /\ AllAsk(sig, ToSet(new), n.time)
  BY <1>2 DEF AllAsk
<1>6. Replace(n, i, new) = c
  BY DEF Replace, c, r
<1> QED
  BY <1>4, <1>5, <1>6

\* A rule that puts the operands of a, or those of b, in the place of an operand
LEMMA TwoBranches ==
    ASSUME NEW n, FitNode(n), NEW i \in DOMAIN n.ops,
           NEW a \in Seq(NodeFormula), NEW b \in Seq(NodeFormula),
           \A o \in ToSet(a) \cup ToSet(b) : Fit(o, n.time),
           \A sig \in Signal : Asks(sig, n.ops[i], n.time) <=>
               AllAsk(sig, ToSet(a), n.time) \/ AllAsk(sig, ToSet(b), n.time)
    PROVE  Faithful(n, << Replace(n, i, a), Replace(n, i, b) >>)
<1> DEFINE c == Replace(n, i, a)
           d == Replace(n, i, b)
           Rest(sig) == \A j \in DOMAIN n.ops \ {i} : Asks(sig, n.ops[j], n.time)
<1>1. /\ FitNode(c) /\ ~c.simple /\ c.time = n.time
      /\ \A sig : Models(sig, c) <=> Rest(sig) /\ AllAsk(sig, ToSet(a), n.time)
  BY ReplacedMeaning
<1>2. /\ FitNode(d) /\ ~d.simple /\ d.time = n.time
      /\ \A sig : Models(sig, d) <=> Rest(sig) /\ AllAsk(sig, ToSet(b), n.time)
  BY ReplacedMeaning
<1>3. \A sig : Models(sig, n) <=> Rest(sig) /\ Asks(sig, n.ops[i], n.time)
  BY ModelsAsk DEF AllAsk, ToSet
<1> DEFINE kids == << c, d >>
<1>4. DOMAIN kids = 1 .. 2 /\ kids[1] = c /\ kids[2] = d
  OBVIOUS
<1> HIDE DEF kids, c, d, Rest
<1>5. \A k \in DOMAIN kids : FitNode(kids[k]) /\ ~kids[k].simple /\ kids[k].time = n.time
  BY <1>1, <1>2, <1>4
<1>6. \A sig \in Signal : Models(sig, n) <=> Models(sig, c) \/ Models(sig, d)
  BY <1>1, <1>2, <1>3
<1>7. \A sig : (\E k \in DOMAIN kids : Models(sig, kids[k])) <=> Models(sig, c) \/ Models(sig, d)
  BY <1>4
<1>8. Faithful(n, kids)
  BY <1>5, <1>6, <1>7 DEF Faithful
<1> QED
  BY <1>8 DEF kids, c, d

LEMMA OneBranch ==
    ASSUME NEW n, FitNode(n), NEW i \in DOMAIN n.ops, NEW a \in Seq(NodeFormula),
           \A o \in ToSet(a) : Fit(o, n.time),
           \A sig \in Signal : Asks(sig, n.ops[i], n.time) <=> AllAsk(sig, ToSet(a), n.time)
    PROVE  Faithful(n, << Replace(n, i, a) >>)
<1> DEFINE c == Replace(n, i, a)
           Rest(sig) == \A j \in DOMAIN n.ops \ {i} : Asks(sig, n.ops[j], n.time)
<1>1. /\ FitNode(c) /\ ~c.simple /\ c.time = n.time
      /\ \A sig : Models(sig, c) <=> Rest(sig) /\ AllAsk(sig, ToSet(a), n.time)
  BY ReplacedMeaning
<1>2. \A sig : Models(sig, n) <=> Rest(sig) /\ Asks(sig, n.ops[i], n.time)
  BY ModelsAsk DEF AllAsk, ToSet
<1> DEFINE kids == << c >>
<1>3. DOMAIN kids = 1 .. 1 /\ kids[1] = c
  OBVIOUS
<1> HIDE DEF kids, c, Rest
<1>4. \A k \in DOMAIN kids : FitNode(kids[k]) /\ ~kids[k].simple /\ kids[k].time = n.time
  BY <1>1, <1>3
<1>5. \A sig \in Signal : Models(sig, n) <=> \E k \in DOMAIN kids : Models(sig, kids[k])
  BY <1>1, <1>2, <1>3
<1>6. Faithful(n, kids)
  BY <1>4, <1>5 DEF Faithful
<1> QED
  BY <1>6 DEF kids, c

\* A rule that puts operands in the place of every operand
LEMMA ManyReplaced ==
    ASSUME NEW n, FitNode(n), NEW parts \in [DOMAIN n.ops -> Seq(NodeFormula)],
           \A i \in DOMAIN n.ops : \A o \in ToSet(parts[i]) : Fit(o, n.time),
           \A i \in DOMAIN n.ops : \A sig \in Signal :
               Asks(sig, n.ops[i], n.time) <=> AllAsk(sig, ToSet(parts[i]), n.time)
    PROVE  Faithful(n, << WithOperands(n, FlattenSeq(parts)) >>)
<1> DEFINE r == FlattenSeq(parts)
           c == WithOperands(n, r)
<1>1. n \in Node /\ Len(n.ops) \in Nat /\ DOMAIN n.ops = 1 .. Len(n.ops)
  BY NodeFacts DEF FitNode
<1>2. r \in Seq(NodeFormula) /\ ToSet(r) = UNION {ToSet(parts[i]) : i \in DOMAIN n.ops}
  <2> DEFINE d == Len(n.ops)
  <2>1. d \in Nat /\ parts \in [1 .. d -> Seq(NodeFormula)]
    BY <1>1
  <2> HIDE DEF d
  <2>2. parts \in Seq(Seq(NodeFormula))
    BY <2>1
  <2>3. DOMAIN parts = DOMAIN n.ops
    OBVIOUS
  <2> QED
    BY <2>2, <2>3, FlattenElements
<1> HIDE DEF r
<1>3. \A o \in ToSet(r) : Fit(o, n.time)
  BY <1>2
<1>4. /\ FitNode(c) /\ ~c.simple /\ c.time = n.time
      /\ \A sig : Models(sig, c) <=> AllAsk(sig, ToSet(r), n.time)
  BY <1>1, <1>2, <1>3, NumberedMeaning
<1>5. ASSUME NEW sig \in Signal PROVE Models(sig, n) <=> Models(sig, c)
  <2>1. Models(sig, n) <=> \A i \in DOMAIN n.ops : Asks(sig, n.ops[i], n.time)
    BY ModelsAsk DEF AllAsk, ToSet
  <2>2. AllAsk(sig, ToSet(r), n.time) <=> \A i \in DOMAIN n.ops : AllAsk(sig, ToSet(parts[i]), n.time)
    BY <1>2 DEF AllAsk
  <2> QED
    BY <1>4, <2>1, <2>2
<1> DEFINE kids == << c >>
<1>6. DOMAIN kids = 1 .. 1 /\ kids[1] = c
  OBVIOUS
<1> HIDE DEF kids, c
<1>7. Faithful(n, kids)
  BY <1>4, <1>5, <1>6 DEF Faithful
<1> QED
  BY <1>7 DEF kids, c, r

----------------------------------------------------------------------------
(* What an operand asks, by its operator *)

LEMMA OperandType ==
    ASSUME NEW f \in Formula, NEW p \in Int
    PROVE  /\ Operand(f, p) \in NodeFormula /\ Operand(f, p).f = f
           /\ ~Operand(f, p).marked
BY DEF Operand, NodeFormula

\* An expansion made now asks that the formula holds now.
LEMMA ExpansionFit ==
    ASSUME NEW g \in Formula, Coherent[g], NEW t \in Nat, NEW p \in Int
    PROVE  LET o == Operand(Expansion(g, t), p)
           IN  /\ o \in NodeFormula /\ Fit(o, t)
               /\ \A sig : Asks(sig, o, t) <=> Holds(sig, t, g)
<1> DEFINE e == Expansion(g, t)
           o == Operand(e, p)
<1>1. e \in Formula /\ ExpandsTo(g, t, Shifted(t), e)
  BY ExpansionCases
<1>2. \A sig : Demands(sig, e, t, t) <=> Holds(sig, t, g)
  BY ExpansionDemands
<1>3. IsTemporal(g) => Coherent[e] /\ t <= e.int.upper
  BY TemporalExpansion
<1>4. IsTemporal(e) <=> IsTemporal(g)
  BY <1>1 DEF ExpandsTo, IsTemporal
<1>5. o \in NodeFormula /\ o.f = e /\ ~o.marked
  BY <1>1, OperandType
<1>6. \A sig : Asks(sig, o, t) <=> Holds(sig, t, g)
  <2> HIDE DEF e, o
  <2> QED
    BY <1>2, <1>5 DEF Asks, From
<1>7. Fit(o, t)
  <2>1. CASE IsTemporal(g)
    <3> HIDE DEF e, o
    <3> QED
      BY <1>3, <1>4, <1>5, <2>1 DEF Fit
  <2>2. CASE ~IsTemporal(g)
    <3>1. e = Expansion(g, t)
      OBVIOUS
    <3> HIDE DEF e, o
    <3> QED
      BY <1>4, <1>5, <2>2, <3>1 DEF Fit
  <2> QED
    BY <2>1, <2>2
<1> QED
  BY <1>5, <1>6, <1>7

LEMMA FitExpansion ==
    ASSUME NEW o \in NodeFormula, NEW t \in Nat, Fit(o, t), ~IsTemporal(o.f)
    PROVE  /\ ~o.marked
           /\ \E g \in Formula : /\ Coherent[g] /\ o.f = Expansion(g, t)
                                 /\ o.f \in Formula /\ ExpandsTo(g, t, Shifted(t), o.f)
                                 /\ \A sig : Asks(sig, o, t) <=> Holds(sig, t, g)
<1>1. ~o.marked
  BY DEF Fit
<1>2. PICK g \in Formula : Coherent[g] /\ o.f = Expansion(g, t)
  BY DEF Fit
<1>3. \A sig : Demands(sig, o.f, t, t) <=> Holds(sig, t, g)
  BY <1>2, ExpansionDemands
<1>4. o.f \in Formula /\ ExpandsTo(g, t, Shifted(t), o.f)
  BY <1>2, ExpansionCases
<1>5. \A sig : Asks(sig, o, t) <=> Holds(sig, t, g)
  BY <1>1, <1>3 DEF Asks, From
<1> QED
  BY <1>1, <1>2, <1>4, <1>5

\* A junction and the operands that take its place
LEMMA JunctionAsks ==
    ASSUME NEW o \in NodeFormula, NEW t \in Nat, Fit(o, t), o.f.op \in {"and", "or"}, NEW p \in Int
    PROVE  /\ ~o.marked
           /\ o.f.args \in Seq(Formula) /\ o.f.args # <<>>
           /\ \A k \in DOMAIN o.f.args :
                Operand(o.f.args[k], p) \in NodeFormula /\ Fit(Operand(o.f.args[k], p), t)
           /\ o.f.op = "and" => \A sig :
                Asks(sig, o, t) <=> \A k \in DOMAIN o.f.args : Asks(sig, Operand(o.f.args[k], p), t)
           /\ o.f.op = "or" => \A sig :
                Asks(sig, o, t) <=> \E k \in DOMAIN o.f.args : Asks(sig, Operand(o.f.args[k], p), t)
<1>1. ~IsTemporal(o.f)
  BY DEF IsTemporal
<1>2. PICK g \in Formula : /\ Coherent[g] /\ o.f = Expansion(g, t)
                           /\ o.f \in Formula /\ ExpandsTo(g, t, Shifted(t), o.f)
                           /\ \A sig : Asks(sig, o, t) <=> Holds(sig, t, g)
  BY <1>1, FitExpansion
<1>3. ~o.marked
  BY <1>1, FitExpansion
<1> DEFINE e == o.f
<1>4. /\ e.op = g.op /\ e.op \in {"and", "or"} /\ e \in Formula
      /\ DOMAIN e.args = DOMAIN g.args
      /\ \A k \in DOMAIN g.args : e.args[k] = Expansion(g.args[k], t)
  BY <1>2 DEF ExpandsTo, Expansion
<1>5. e.args \in Seq(Formula) /\ g.args \in Seq(Formula)
  BY <1>4, FormulaCases, CompoundShape DEF Propositions
<1>6. g.args # <<>> /\ \A k \in DOMAIN g.args : g.args[k] \in Formula /\ Coherent[g.args[k]]
  BY <1>2, <1>4, CoherentFacts DEF Operands
<1>7. e.args # <<>>
  BY <1>4, <1>5, <1>6
<1>8. ASSUME NEW k \in DOMAIN e.args
      PROVE  /\ Operand(e.args[k], p) \in NodeFormula /\ Fit(Operand(e.args[k], p), t)
             /\ \A sig : Asks(sig, Operand(e.args[k], p), t) <=> Holds(sig, t, g.args[k])
  BY <1>4, <1>6, ExpansionFit
<1> HIDE DEF e
<1>9. e.op = "and" => \A sig :
        Asks(sig, o, t) <=> \A k \in DOMAIN e.args : Asks(sig, Operand(e.args[k], p), t)
  <2> SUFFICES ASSUME e.op = "and", NEW sig
               PROVE  Asks(sig, o, t) <=> \A k \in DOMAIN e.args : Asks(sig, Operand(e.args[k], p), t)
    OBVIOUS
  <2>1. Holds(sig, t, g) <=> \A k \in DOMAIN g.args : Holds(sig, t, g.args[k])
    <3>1. g.op = "and" /\ t \in Int
      BY <1>4
    <3> QED
      BY <3>1, HoldsCases
  <2> QED
    BY <1>2, <1>4, <1>8, <2>1
<1>10. e.op = "or" => \A sig :
        Asks(sig, o, t) <=> \E k \in DOMAIN e.args : Asks(sig, Operand(e.args[k], p), t)
  <2> SUFFICES ASSUME e.op = "or", NEW sig
               PROVE  Asks(sig, o, t) <=> \E k \in DOMAIN e.args : Asks(sig, Operand(e.args[k], p), t)
    OBVIOUS
  <2>1. Holds(sig, t, g) <=> \E k \in DOMAIN g.args : Holds(sig, t, g.args[k])
    <3>1. g.op = "or" /\ t \in Int
      BY <1>4
    <3> QED
      BY <3>1, HoldsCases
  <2> QED
    BY <1>2, <1>4, <1>8, <2>1
<1> QED
  BY <1>3, <1>5, <1>7, <1>8, <1>9, <1>10 DEF e

\* An implication: its left operand comes with its opposite.
LEMMA ImplyAsks ==
    ASSUME NEW o \in NodeFormula, NEW t \in Nat, Fit(o, t), o.f.op = "imply", NEW p \in Int
    PROVE  LET left == Operand(o.f.left, p)
               right == Operand(o.f.right, p)
               notLeft == Operand(o.f.notLeft, p)
           IN  /\ left \in NodeFormula /\ right \in NodeFormula /\ notLeft \in NodeFormula
               /\ Fit(left, t) /\ Fit(right, t) /\ Fit(notLeft, t)
               /\ \A sig \in Signal :
                    /\ Asks(sig, notLeft, t) <=> ~Asks(sig, left, t)
                    /\ Asks(sig, o, t) <=> Asks(sig, notLeft, t) \/ Asks(sig, right, t)
<1> DEFINE left == Operand(o.f.left, p)
           right == Operand(o.f.right, p)
           notLeft == Operand(o.f.notLeft, p)
<1>1. ~IsTemporal(o.f)
  BY DEF IsTemporal
<1>2. PICK g \in Formula : /\ Coherent[g] /\ o.f = Expansion(g, t)
                           /\ o.f \in Formula /\ ExpandsTo(g, t, Shifted(t), o.f)
                           /\ \A sig : Asks(sig, o, t) <=> Holds(sig, t, g)
  BY <1>1, FitExpansion
<1>3. /\ g.op = "imply"
      /\ o.f.left = Expansion(g.left, t) /\ o.f.right = Expansion(g.right, t)
      /\ o.f.notLeft = Expansion(g.notLeft, t)
  BY <1>2 DEF ExpandsTo, Expansion
<1>4. /\ g.left \in Formula /\ g.right \in Formula /\ g.notLeft \in Formula
      /\ Coherent[g.left] /\ Coherent[g.right] /\ Coherent[g.notLeft]
      /\ Opposite(g.left, g.notLeft)
  BY <1>2, <1>3, CoherentFacts DEF Operands
<1>5. left \in NodeFormula /\ Fit(left, t) /\ \A sig : Asks(sig, left, t) <=> Holds(sig, t, g.left)
  BY <1>3, <1>4, ExpansionFit
<1>6. right \in NodeFormula /\ Fit(right, t) /\ \A sig : Asks(sig, right, t) <=> Holds(sig, t, g.right)
  BY <1>3, <1>4, ExpansionFit
<1>7. notLeft \in NodeFormula /\ Fit(notLeft, t) /\ \A sig : Asks(sig, notLeft, t) <=> Holds(sig, t, g.notLeft)
  BY <1>3, <1>4, ExpansionFit
<1> HIDE DEF left, right, notLeft
<1>8. ASSUME NEW sig \in Signal
      PROVE  /\ Asks(sig, notLeft, t) <=> ~Asks(sig, left, t)
             /\ Asks(sig, o, t) <=> Asks(sig, notLeft, t) \/ Asks(sig, right, t)
  <2>1. Holds(sig, t, g) <=> (Holds(sig, t, g.left) => Holds(sig, t, g.right))
    BY <1>3, HoldsCases
  <2>2. Holds(sig, t, g.notLeft) <=> ~Holds(sig, t, g.left)
    BY <1>4, OppositeHolds
  <2> QED
    BY <1>2, <1>5, <1>6, <1>7, <2>1, <2>2
<1> QED
  BY <1>5, <1>6, <1>7, <1>8 DEF left, right, notLeft

\* A temporal operand that is not expanded yet, and what remains of it once marked
LEMMA UnexpandedFacts ==
    ASSUME NEW o \in NodeFormula, NEW t \in Nat, Fit(o, t), IsTemporal(o.f), Unexpanded(o, t)
    PROVE  /\ o.f \in Formula /\ o.f.int.upper \in Int
           /\ t <= o.f.int.upper
           /\ Instants(o.f.int, t) = t .. o.f.int.upper
           /\ Instants(o.f.int, t + 1) = (t + 1) .. o.f.int.upper
           /\ \A g \in Operands(o.f) : g \in Formula /\ Coherent[g]
           /\ \A sig : Asks(sig, o, t) <=> Demands(sig, o.f, t, t)
           /\ Marked(o) \in NodeFormula
           /\ t < o.f.int.upper => Fit(Marked(o), t)
           /\ \A sig : Asks(sig, Marked(o), t) <=> Demands(sig, o.f, t, t + 1)
<1>1. Coherent[o.f] /\ o.f \in Formula /\ ~o.marked /\ Active(o.f.int, t)
  BY OperandShape DEF Fit, Unexpanded
<1>2. o.f.int \in Interval /\ \A g \in Operands(o.f) : g \in Formula /\ Coherent[g]
  BY <1>1, CoherentFacts
<1>3. o.f.int.upper \in Int /\ o.f.int.lower \in Int /\ o.f.int.lower <= t /\ t <= o.f.int.upper
  BY <1>1, <1>2 DEF Interval, Active
<1>4. Instants(o.f.int, t) = t .. o.f.int.upper /\ Instants(o.f.int, t + 1) = (t + 1) .. o.f.int.upper
  BY <1>3 DEF Instants, Greater
<1>6. Marked(o) \in NodeFormula /\ Marked(o).f = o.f /\ Marked(o).marked
  BY DEF Marked, NodeFormula
<1>7. \A sig : /\ Asks(sig, o, t) <=> Demands(sig, o.f, t, t)
               /\ Asks(sig, Marked(o), t) <=> Demands(sig, o.f, t, t + 1)
  BY <1>1, <1>6 DEF Asks, From
<1>8. t < o.f.int.upper => Fit(Marked(o), t)
  BY <1>1, <1>3, <1>6 DEF Fit
<1> QED
  BY <1>1, <1>2, <1>3, <1>4, <1>6, <1>7, <1>8

LEMMA GloballyAsks ==
    ASSUME NEW o \in NodeFormula, NEW t \in Nat, Fit(o, t), o.f.op = "G", Unexpanded(o, t), NEW sig
    PROVE  Asks(sig, o, t) <=> /\ Holds(sig, t, o.f.phi)
                               /\ t < o.f.int.upper => Asks(sig, Marked(o), t)
<1> DEFINE u == o.f.int.upper
           H(i) == Holds(sig, i, o.f.phi)
<1>1. IsTemporal(o.f)
  BY DEF IsTemporal
<1>2. /\ u \in Int /\ t <= u
      /\ Asks(sig, o, t) <=> \A i \in t .. u : H(i)
      /\ Asks(sig, Marked(o), t) <=> \A i \in (t + 1) .. u : H(i)
  <2>1. t \in Int /\ o.f \in Formula
    BY OperandShape
  <2>2. Demands(sig, o.f, t, t) <=> \A i \in Instants(o.f.int, t) : H(i)
    BY <2>1, DemandsCases
  <2>3. Demands(sig, o.f, t, t + 1) <=> \A i \in Instants(o.f.int, t + 1) : H(i)
    BY <2>1, DemandsCases
  <2>4. /\ u \in Int /\ t <= u
        /\ Instants(o.f.int, t) = t .. u
        /\ Instants(o.f.int, t + 1) = (t + 1) .. u
        /\ Asks(sig, o, t) <=> Demands(sig, o.f, t, t)
        /\ Asks(sig, Marked(o), t) <=> Demands(sig, o.f, t, t + 1)
    BY <1>1, UnexpandedFacts
  <2> HIDE DEF u, H
  <2> QED
    BY <2>2, <2>3, <2>4
<1> HIDE DEF u, H
<1>3. t \in t .. u /\ \A i \in t .. u : i = t \/ i \in (t + 1) .. u
  BY <1>2
<1>4. \A i \in (t + 1) .. u : i \in t .. u
  BY <1>2
<1>5. ~(t < u) => \A i \in (t + 1) .. u : FALSE
  BY <1>2
<1>6. Asks(sig, o, t) <=> H(t) /\ (t < u => Asks(sig, Marked(o), t))
  BY <1>2, <1>3, <1>4, <1>5
<1> QED
  BY <1>6 DEF u, H

LEMMA FinallyAsks ==
    ASSUME NEW o \in NodeFormula, NEW t \in Nat, Fit(o, t), o.f.op = "F", Unexpanded(o, t), NEW sig
    PROVE  Asks(sig, o, t) <=> \/ Holds(sig, t, o.f.phi)
                               \/ t < o.f.int.upper /\ Asks(sig, Marked(o), t)
<1> DEFINE u == o.f.int.upper
           H(i) == Holds(sig, i, o.f.phi)
<1>1. IsTemporal(o.f)
  BY DEF IsTemporal
<1>2. /\ u \in Int /\ t <= u
      /\ Asks(sig, o, t) <=> \E i \in t .. u : H(i)
      /\ Asks(sig, Marked(o), t) <=> \E i \in (t + 1) .. u : H(i)
  <2>1. t \in Int /\ o.f \in Formula
    BY OperandShape
  <2>2. Demands(sig, o.f, t, t) <=> \E i \in Instants(o.f.int, t) : H(i)
    BY <2>1, DemandsCases
  <2>3. Demands(sig, o.f, t, t + 1) <=> \E i \in Instants(o.f.int, t + 1) : H(i)
    BY <2>1, DemandsCases
  <2>4. /\ u \in Int /\ t <= u
        /\ Instants(o.f.int, t) = t .. u
        /\ Instants(o.f.int, t + 1) = (t + 1) .. u
        /\ Asks(sig, o, t) <=> Demands(sig, o.f, t, t)
        /\ Asks(sig, Marked(o), t) <=> Demands(sig, o.f, t, t + 1)
    BY <1>1, UnexpandedFacts
  <2> HIDE DEF u, H
  <2> QED
    BY <2>2, <2>3, <2>4
<1> HIDE DEF u, H
<1>3. t \in t .. u /\ \A i \in t .. u : i = t \/ i \in (t + 1) .. u
  BY <1>2
<1>4. \A i \in (t + 1) .. u : i \in t .. u
  BY <1>2
<1>5. ~(t < u) => \A i \in (t + 1) .. u : FALSE
  BY <1>2
<1>6. Asks(sig, o, t) <=> H(t) \/ (t < u /\ Asks(sig, Marked(o), t))
  BY <1>2, <1>3, <1>4, <1>5
<1> QED
  BY <1>6 DEF u, H

LEMMA UntilAsks ==
    ASSUME NEW o \in NodeFormula, NEW t \in Nat, Fit(o, t), o.f.op = "U", Unexpanded(o, t), NEW sig
    PROVE  Asks(sig, o, t) <=> \/ Holds(sig, t, o.f.right)
                               \/ /\ t < o.f.int.upper
                                  /\ Holds(sig, t, o.f.left) /\ Asks(sig, Marked(o), t)
<1> DEFINE u == o.f.int.upper
           L(i) == Holds(sig, i, o.f.left)
           H(i) == Holds(sig, i, o.f.right)
           Until(T) == \E i \in T : H(i) /\ \A j \in T : j < i => L(j)
<1>1. IsTemporal(o.f)
  BY DEF IsTemporal
<1>2. /\ u \in Int /\ t <= u
      /\ Asks(sig, o, t) <=> Until(t .. u)
      /\ Asks(sig, Marked(o), t) <=> Until((t + 1) .. u)
  <2>1. t \in Int /\ o.f \in Formula
    BY OperandShape
  <2>2. Demands(sig, o.f, t, t) <=> Until(Instants(o.f.int, t))
    BY <2>1, DemandsCases
  <2>3. Demands(sig, o.f, t, t + 1) <=> Until(Instants(o.f.int, t + 1))
    BY <2>1, DemandsCases
  <2>4. /\ u \in Int /\ t <= u
        /\ Instants(o.f.int, t) = t .. u
        /\ Instants(o.f.int, t + 1) = (t + 1) .. u
        /\ Asks(sig, o, t) <=> Demands(sig, o.f, t, t)
        /\ Asks(sig, Marked(o), t) <=> Demands(sig, o.f, t, t + 1)
    BY <1>1, UnexpandedFacts
  <2> HIDE DEF u, H
  <2> QED
    BY <2>2, <2>3, <2>4
<1> HIDE DEF u, H, L
<1> DEFINE now == t .. u
           later == (t + 1) .. u
<1>3. t \in now /\ \A i \in now : i = t \/ i \in later
  BY <1>2
<1>4. \A i \in later : i \in now /\ t < i
  BY <1>2
<1>5. ~(t < u) => \A i \in later : FALSE
  BY <1>2
<1>6. \A i \in now : ~(i < t)
  BY <1>2
<1> HIDE DEF now, later
<1>7. Until(now) <=> H(t) \/ (t < u /\ L(t) /\ Until(later))
  <2>1. ASSUME Until(now) PROVE H(t) \/ (t < u /\ L(t) /\ Until(later))
    BY <1>3, <1>4, <1>5, <2>1
  <2>2. ASSUME H(t) PROVE Until(now)
    BY <1>3, <1>6, <2>2
  <2>3. ASSUME L(t), Until(later) PROVE Until(now)
    BY <1>3, <1>4, <2>3
  <2> QED
    BY <2>1, <2>2, <2>3
<1> HIDE DEF Until
<1>8. Asks(sig, o, t) <=> H(t) \/ (t < u /\ L(t) /\ Asks(sig, Marked(o), t))
  BY <1>2, <1>7 DEF now, later
<1> QED
  BY <1>8 DEF u, H, L

LEMMA ReleaseAsks ==
    ASSUME NEW o \in NodeFormula, NEW t \in Nat, Fit(o, t), o.f.op = "R", Unexpanded(o, t), NEW sig
    PROVE  Asks(sig, o, t) <=> /\ Holds(sig, t, o.f.right)
                               /\ t < o.f.int.upper =>
                                        Holds(sig, t, o.f.left) \/ Asks(sig, Marked(o), t)
<1> DEFINE u == o.f.int.upper
           L(i) == Holds(sig, i, o.f.left)
           H(i) == Holds(sig, i, o.f.right)
           Release(T) == \A i \in T : H(i) \/ \E j \in T : j < i /\ L(j)
<1>1. IsTemporal(o.f)
  BY DEF IsTemporal
<1>2. /\ u \in Int /\ t <= u
      /\ Asks(sig, o, t) <=> Release(t .. u)
      /\ Asks(sig, Marked(o), t) <=> Release((t + 1) .. u)
  <2>1. t \in Int /\ o.f \in Formula
    BY OperandShape
  <2>2. Demands(sig, o.f, t, t) <=> Release(Instants(o.f.int, t))
    BY <2>1, DemandsCases
  <2>3. Demands(sig, o.f, t, t + 1) <=> Release(Instants(o.f.int, t + 1))
    BY <2>1, DemandsCases
  <2>4. /\ u \in Int /\ t <= u
        /\ Instants(o.f.int, t) = t .. u
        /\ Instants(o.f.int, t + 1) = (t + 1) .. u
        /\ Asks(sig, o, t) <=> Demands(sig, o.f, t, t)
        /\ Asks(sig, Marked(o), t) <=> Demands(sig, o.f, t, t + 1)
    BY <1>1, UnexpandedFacts
  <2> HIDE DEF u, H
  <2> QED
    BY <2>2, <2>3, <2>4
<1> HIDE DEF u, H, L
<1> DEFINE now == t .. u
           later == (t + 1) .. u
<1>3. t \in now /\ \A i \in now : i = t \/ i \in later
  BY <1>2
<1>4. \A i \in later : i \in now /\ t < i
  BY <1>2
<1>5. ~(t < u) => \A i \in later : FALSE
  BY <1>2
<1>6. \A i \in now : ~(i < t)
  BY <1>2
<1> HIDE DEF now, later
<1>7. Release(now) <=> H(t) /\ (t < u => L(t) \/ Release(later))
  <2>1. ASSUME Release(now) PROVE H(t) /\ (t < u => L(t) \/ Release(later))
    BY <1>3, <1>4, <1>6, <2>1
  <2>2. ASSUME H(t), L(t) PROVE Release(now)
    BY <1>3, <1>4, <2>2
  <2>3. ASSUME H(t), Release(later) PROVE Release(now)
    BY <1>3, <1>4, <2>3
  <2>4. ~(t < u) => Release(later)
    BY <1>5
  <2> QED
    BY <2>1, <2>2, <2>3, <2>4
<1> HIDE DEF Release
<1>8. Asks(sig, o, t) <=> H(t) /\ (t < u => L(t) \/ Asks(sig, Marked(o), t))
  BY <1>2, <1>7 DEF now, later
<1> QED
  BY <1>8 DEF u, H, L

----------------------------------------------------------------------------
(* The rules that stay at an instant *)

LEMMA FitOperands ==
    ASSUME NEW n, FitNode(n)
    PROVE  /\ n \in Node /\ n.time \in Nat /\ n.ops \in Seq(NodeFormula)
           /\ \A i \in DOMAIN n.ops : /\ n.ops[i] \in NodeFormula /\ Fit(n.ops[i], n.time)
                                      /\ n.ops[i].parent \in Int /\ n.ops[i].id \in Int
BY NodeFacts, OperandShape DEF FitNode, ToSet

LEMMA Singleton ==
    ASSUME NEW o \in NodeFormula
    PROVE  << o >> \in Seq(NodeFormula) /\ ToSet(<< o >>) = {o}
<1>1. DOMAIN << o >> = {1} /\ << o >>[1] = o
  OBVIOUS
<1> QED
  BY <1>1 DEF ToSet

LEMMA Couple ==
    ASSUME NEW o \in NodeFormula, NEW p \in NodeFormula
    PROVE  << o, p >> \in Seq(NodeFormula) /\ ToSet(<< o, p >>) = {o} \cup {p}
<1>1. DOMAIN << o, p >> = {1} \cup {2} /\ << o, p >>[1] = o /\ << o, p >>[2] = p
  OBVIOUS
<1> QED
  BY <1>1 DEF ToSet

\* decompose_and
LEMMA AndRule ==
    ASSUME NEW n, FitNode(n)
    PROVE  Faithful(n, DecomposeAnd(n))
<1> DEFINE parts == [i \in DOMAIN n.ops |-> SplitAnd(n.ops[i])]
<1>1. ASSUME NEW i \in DOMAIN n.ops
      PROVE  /\ SplitAnd(n.ops[i]) \in Seq(NodeFormula)
             /\ \A o \in ToSet(SplitAnd(n.ops[i])) : Fit(o, n.time)
             /\ \A sig : Asks(sig, n.ops[i], n.time) <=> AllAsk(sig, ToSet(SplitAnd(n.ops[i])), n.time)
  <2> DEFINE o == n.ops[i]
             t == n.time
  <2>1. o \in NodeFormula /\ t \in Nat /\ Fit(o, t) /\ o.parent \in Int
    BY FitOperands
  <2> HIDE DEF o, t
  <2>2. CASE o.f.op = "and"
    <3> DEFINE s == [k \in DOMAIN o.f.args |-> Operand(o.f.args[k], o.parent)]
    <3>1. /\ o.f.args \in Seq(Formula)
          /\ \A k \in DOMAIN o.f.args :
               Operand(o.f.args[k], o.parent) \in NodeFormula /\ Fit(Operand(o.f.args[k], o.parent), t)
          /\ \A sig : Asks(sig, o, t) <=> \A k \in DOMAIN o.f.args : Asks(sig, Operand(o.f.args[k], o.parent), t)
      BY <2>1, <2>2, JunctionAsks
    <3>2. SplitAnd(o) = s
      BY <2>2 DEF SplitAnd
    <3>3. s \in Seq(NodeFormula)
      <4>1. DOMAIN o.f.args = 1 .. Len(o.f.args) /\ Len(o.f.args) \in Nat
        BY <3>1
      <4>2. s \in [1 .. Len(o.f.args) -> NodeFormula]
        BY <3>1, <4>1
      <4> HIDE DEF s
      <4> QED
        BY <4>1, <4>2
    <3>4. DOMAIN s = DOMAIN o.f.args /\ \A k \in DOMAIN s : s[k] = Operand(o.f.args[k], o.parent)
      OBVIOUS
    <3> HIDE DEF s
    <3>5. /\ \A x \in ToSet(s) : Fit(x, t)
          /\ \A sig : Asks(sig, o, t) <=> AllAsk(sig, ToSet(s), t)
      BY <3>1, <3>4 DEF AllAsk, ToSet
    <3> QED
      BY <3>2, <3>3, <3>5 DEF o, t
  <2>3. CASE o.f.op # "and"
    <3>1. SplitAnd(o) = << o >>
      BY <2>3 DEF SplitAnd
    <3>2. << o >> \in Seq(NodeFormula) /\ ToSet(<< o >>) = {o}
      BY <2>1, Singleton
    <3>3. \A x \in {o} : Fit(x, t)
      BY <2>1
    <3>4. \A sig : Asks(sig, o, t) <=> AllAsk(sig, {o}, t)
      BY DEF AllAsk
    <3> QED
      BY <3>1, <3>2, <3>3, <3>4 DEF o, t
  <2> QED
    BY <2>2, <2>3
<1>2. parts \in [DOMAIN n.ops -> Seq(NodeFormula)]
  BY <1>1
<1>3. \A i \in DOMAIN n.ops : parts[i] = SplitAnd(n.ops[i])
  OBVIOUS
<1>4. DecomposeAnd(n) = << WithOperands(n, FlattenSeq(parts)) >>
  BY DEF DecomposeAnd, FlatMap
<1> HIDE DEF parts
<1>5. Faithful(n, << WithOperands(n, FlattenSeq(parts)) >>)
  BY <1>1, <1>2, <1>3, ManyReplaced
<1> QED
  BY <1>4, <1>5

\* decompose_g
LEMMA GloballyRule ==
    ASSUME NEW n, FitNode(n)
    PROVE  Faithful(n, DecomposeG(n))
<1> DEFINE Part(o) == IF o.f.op = "G" /\ Unexpanded(o, n.time) THEN ExpandG(o, n.time) ELSE << o >>
           parts == [i \in DOMAIN n.ops |-> Part(n.ops[i])]
<1>1. ASSUME NEW i \in DOMAIN n.ops
      PROVE  /\ Part(n.ops[i]) \in Seq(NodeFormula)
             /\ \A o \in ToSet(Part(n.ops[i])) : Fit(o, n.time)
             /\ \A sig : Asks(sig, n.ops[i], n.time) <=> AllAsk(sig, ToSet(Part(n.ops[i])), n.time)
  <2> DEFINE o == n.ops[i]
             t == n.time
  <2>1. o \in NodeFormula /\ t \in Nat /\ Fit(o, t) /\ o.id \in Int
    BY FitOperands
  <2>2. Part(n.ops[i]) = IF o.f.op = "G" /\ Unexpanded(o, t) THEN ExpandG(o, t) ELSE << o >>
    OBVIOUS
  <2> HIDE DEF o, t, Part
  <2>3. CASE o.f.op = "G" /\ Unexpanded(o, t)
    <3> DEFINE now == Operand(Expansion(o.f.phi, t), o.id)
    <3>1. IsTemporal(o.f) /\ o.f.phi \in Operands(o.f)
      BY <2>3 DEF IsTemporal, Operands
    <3>2. /\ o.f.phi \in Formula /\ Coherent[o.f.phi]
          /\ Marked(o) \in NodeFormula /\ (t < o.f.int.upper => Fit(Marked(o), t))
      BY <2>1, <2>3, <3>1, UnexpandedFacts
    <3>3. now \in NodeFormula /\ Fit(now, t) /\ \A sig : Asks(sig, now, t) <=> Holds(sig, t, o.f.phi)
      BY <2>1, <3>2, ExpansionFit
    <3>4. \A sig : Asks(sig, o, t) <=> /\ Holds(sig, t, o.f.phi)
                                       /\ t < o.f.int.upper => Asks(sig, Marked(o), t)
      BY <2>1, <2>3, GloballyAsks
    <3>5. ExpandG(o, t) = IF t < o.f.int.upper THEN << Marked(o), now >> ELSE << now >>
      BY DEF ExpandG
    <3> HIDE DEF now
    <3>6. CASE t < o.f.int.upper
      <4>1. Part(n.ops[i]) = << Marked(o), now >>
        BY <2>2, <2>3, <3>5, <3>6
      <4>2. << Marked(o), now >> \in Seq(NodeFormula) /\ ToSet(<< Marked(o), now >>) = {Marked(o)} \cup {now}
        BY <3>2, <3>3, Couple
      <4>3. \A x \in {Marked(o)} \cup {now} : Fit(x, t)
        BY <3>2, <3>3, <3>6
      <4>4. \A sig : Asks(sig, o, t) <=> AllAsk(sig, {Marked(o)} \cup {now}, t)
        BY <3>3, <3>4, <3>6 DEF AllAsk
      <4> QED
        BY <4>1, <4>2, <4>3, <4>4 DEF o, t
    <3>7. CASE ~(t < o.f.int.upper)
      <4>1. Part(n.ops[i]) = << now >>
        BY <2>2, <2>3, <3>5, <3>7
      <4>2. << now >> \in Seq(NodeFormula) /\ ToSet(<< now >>) = {now}
        BY <3>3, Singleton
      <4>3. \A x \in {now} : Fit(x, t)
        BY <3>3
      <4>4. \A sig : Asks(sig, o, t) <=> AllAsk(sig, {now}, t)
        BY <3>3, <3>4, <3>7 DEF AllAsk
      <4> QED
        BY <4>1, <4>2, <4>3, <4>4 DEF o, t
    <3> QED
      BY <3>6, <3>7
  <2>4. CASE ~(o.f.op = "G" /\ Unexpanded(o, t))
    <3>1. Part(n.ops[i]) = << o >>
      BY <2>2, <2>4
    <3>2. << o >> \in Seq(NodeFormula) /\ ToSet(<< o >>) = {o}
      BY <2>1, Singleton
    <3>3. \A x \in {o} : Fit(x, t)
      BY <2>1
    <3>4. \A sig : Asks(sig, o, t) <=> AllAsk(sig, {o}, t)
      BY DEF AllAsk
    <3> QED
      BY <3>1, <3>2, <3>3, <3>4 DEF o, t
  <2> QED
    BY <2>3, <2>4
<1>2. parts \in [DOMAIN n.ops -> Seq(NodeFormula)]
  <2> HIDE DEF Part
  <2> QED
    BY <1>1
<1>3. \A i \in DOMAIN n.ops : parts[i] = Part(n.ops[i])
  OBVIOUS
<1>4. DecomposeG(n) = << WithOperands(n, FlattenSeq(parts)) >>
  BY DEF DecomposeG, FlatMap
<1> HIDE DEF parts, Part
<1>5. Faithful(n, << WithOperands(n, FlattenSeq(parts)) >>)
  BY <1>1, <1>2, <1>3, ManyReplaced
<1> QED
  BY <1>4, <1>5

\* decompose_or_at
LEMMA OrRule ==
    ASSUME NEW n, FitNode(n), NEW i \in DOMAIN n.ops, n.ops[i].f.op = "or"
    PROVE  DecomposeOr(n, i) # <<>> /\ Faithful(n, DecomposeOr(n, i))
<1> DEFINE o == n.ops[i]
           t == n.time
           kids == DecomposeOr(n, i)
           New(k) == << Operand(o.f.args[k], o.parent) >>
           Rest(sig) == \A j \in DOMAIN n.ops \ {i} : Asks(sig, n.ops[j], t)
<1>1. o \in NodeFormula /\ t \in Nat /\ Fit(o, t) /\ o.parent \in Int /\ o.f.op = "or"
  BY FitOperands
<1>2. DOMAIN kids = DOMAIN o.f.args /\ \A k \in DOMAIN o.f.args : kids[k] = Replace(n, i, New(k))
  BY DEF DecomposeOr
<1>3. /\ o.f.args \in Seq(Formula) /\ o.f.args # <<>>
      /\ \A k \in DOMAIN o.f.args :
           Operand(o.f.args[k], o.parent) \in NodeFormula /\ Fit(Operand(o.f.args[k], o.parent), t)
      /\ \A sig : Asks(sig, o, t) <=> \E k \in DOMAIN o.f.args : Asks(sig, Operand(o.f.args[k], o.parent), t)
  <2> HIDE DEF o, t
  <2> QED
    BY <1>1, JunctionAsks
<1>4. ASSUME NEW k \in DOMAIN o.f.args
      PROVE  /\ New(k) \in Seq(NodeFormula)
             /\ \A x \in ToSet(New(k)) : Fit(x, t)
             /\ \A sig : AllAsk(sig, ToSet(New(k)), t) <=> Asks(sig, Operand(o.f.args[k], o.parent), t)
  <2> DEFINE x == Operand(o.f.args[k], o.parent)
  <2>1. x \in NodeFormula /\ Fit(x, t)
    BY <1>3
  <2> HIDE DEF x
  <2>2. << x >> \in Seq(NodeFormula) /\ ToSet(<< x >>) = {x}
    BY <2>1, Singleton
  <2>3. \A sig : AllAsk(sig, {x}, t) <=> Asks(sig, x, t)
    BY DEF AllAsk
  <2> QED
    BY <2>1, <2>2, <2>3 DEF x
<1>5. ASSUME NEW k \in DOMAIN o.f.args
      PROVE  /\ FitNode(kids[k]) /\ ~kids[k].simple /\ kids[k].time = n.time
             /\ \A sig : Models(sig, kids[k]) <=>
                    Rest(sig) /\ Asks(sig, Operand(o.f.args[k], o.parent), t)
  <2> DEFINE new == New(k)
             c == Replace(n, i, new)
  <2>1. new \in Seq(NodeFormula) /\ \A x \in ToSet(new) : Fit(x, t)
    BY <1>4
  <2> HIDE DEF new
  <2>2. /\ FitNode(c) /\ ~c.simple /\ c.time = n.time
        /\ \A sig : Models(sig, c) <=> Rest(sig) /\ AllAsk(sig, ToSet(new), t)
    BY <2>1, ReplacedMeaning
  <2>3. kids[k] = c
    BY <1>2 DEF new
  <2>4. \A sig : AllAsk(sig, ToSet(new), t) <=> Asks(sig, Operand(o.f.args[k], o.parent), t)
    BY <1>4 DEF new
  <2> HIDE DEF kids, c, Rest, o, t
  <2> QED
    BY <2>2, <2>3, <2>4
<1>6. \A sig : Models(sig, n) <=> Rest(sig) /\ Asks(sig, o, t)
  BY ModelsAsk DEF AllAsk, ToSet
<1> HIDE DEF o, t, kids, Rest, New
<1>7. Faithful(n, kids)
  BY <1>2, <1>3, <1>5, <1>6 DEF Faithful
<1>8. kids # <<>>
  BY <1>2, <1>3
<1> QED
  BY <1>7, <1>8 DEF kids

\* decompose_imply_at, with and without the optimization
LEMMA ImplyRule ==
    ASSUME NEW n, FitNode(n), NEW i \in DOMAIN n.ops, n.ops[i].f.op = "imply"
    PROVE  DecomposeImply(n, i) # <<>> /\ Faithful(n, DecomposeImply(n, i))
<1> DEFINE o == n.ops[i]
           t == n.time
           left == Operand(o.f.left, o.parent)
           right == Operand(o.f.right, o.parent)
           notLeft == Operand(o.f.notLeft, o.parent)
           a == << notLeft >>
           b == IF FormulaOptimizations THEN << left, right >> ELSE << right >>
<1>1. o \in NodeFormula /\ t \in Nat /\ Fit(o, t) /\ o.parent \in Int /\ o.f.op = "imply"
  BY FitOperands
<1>2. /\ left \in NodeFormula /\ right \in NodeFormula /\ notLeft \in NodeFormula
      /\ Fit(left, t) /\ Fit(right, t) /\ Fit(notLeft, t)
      /\ \A sig \in Signal :
           /\ Asks(sig, notLeft, t) <=> ~Asks(sig, left, t)
           /\ Asks(sig, o, t) <=> Asks(sig, notLeft, t) \/ Asks(sig, right, t)
  <2> HIDE DEF o, t
  <2> QED
    BY <1>1, ImplyAsks
<1>3. DecomposeImply(n, i) = << Replace(n, i, a), Replace(n, i, b) >>
  BY DEF DecomposeImply
<1> HIDE DEF left, right, notLeft
<1>4. /\ a \in Seq(NodeFormula) /\ \A x \in ToSet(a) : Fit(x, t)
      /\ \A sig : AllAsk(sig, ToSet(a), t) <=> Asks(sig, notLeft, t)
  <2>1. a \in Seq(NodeFormula) /\ ToSet(a) = {notLeft}
    BY <1>2, Singleton
  <2> QED
    BY <1>2, <2>1 DEF AllAsk
<1>5. /\ b \in Seq(NodeFormula) /\ \A x \in ToSet(b) : Fit(x, t)
      /\ \A sig : AllAsk(sig, ToSet(b), t) <=> Asks(sig, right, t) /\ (FormulaOptimizations => Asks(sig, left, t))
  <2>1. /\ << left, right >> \in Seq(NodeFormula) /\ ToSet(<< left, right >>) = {left} \cup {right}
        /\ << right >> \in Seq(NodeFormula) /\ ToSet(<< right >>) = {right}
    BY <1>2, Singleton, Couple
  <2>2. CASE FormulaOptimizations
    <3>1. b = << left, right >>
      BY <2>2
    <3> HIDE DEF b
    <3> QED
      BY <1>2, <2>1, <2>2, <3>1 DEF AllAsk
  <2>3. CASE ~FormulaOptimizations
    <3>1. b = << right >>
      BY <2>3
    <3> HIDE DEF b
    <3> QED
      BY <1>2, <2>1, <2>3, <3>1 DEF AllAsk
  <2> QED
    BY <2>2, <2>3
<1> HIDE DEF a, b
<1>6. \A sig \in Signal : Asks(sig, o, t) <=> AllAsk(sig, ToSet(a), t) \/ AllAsk(sig, ToSet(b), t)
  BY <1>2, <1>4, <1>5
<1>7. Faithful(n, << Replace(n, i, a), Replace(n, i, b) >>)
  BY <1>4, <1>5, <1>6, TwoBranches
<1>8. << Replace(n, i, a), Replace(n, i, b) >> # <<>>
  OBVIOUS
<1> QED
  BY <1>3, <1>7, <1>8

\* The expansion of an operand of a temporal operator, made when it is unexpanded
LEMMA PartExpansion ==
    ASSUME NEW o \in NodeFormula, NEW t \in Nat, Fit(o, t), IsTemporal(o.f), Unexpanded(o, t),
           NEW g \in Operands(o.f), NEW p \in Int
    PROVE  LET now == Operand(Expansion(g, t), p)
           IN  /\ now \in NodeFormula /\ Fit(now, t)
               /\ \A sig : Asks(sig, now, t) <=> Holds(sig, t, g)
<1>1. g \in Formula /\ Coherent[g]
  BY UnexpandedFacts
<1> QED
  BY <1>1, ExpansionFit

\* decompose_f_at
LEMMA FinallyRule ==
    ASSUME NEW n, FitNode(n), NEW i \in DOMAIN n.ops,
           n.ops[i].f.op = "F", Unexpanded(n.ops[i], n.time)
    PROVE  DecomposeF(n, i) # <<>> /\ Faithful(n, DecomposeF(n, i))
<1> DEFINE o == n.ops[i]
           t == n.time
           x == Operand(Expansion(o.f.phi, t), 0)
           a == << x >>
           b == << Marked(o) >>
<1>1. o \in NodeFormula /\ t \in Nat /\ Fit(o, t) /\ o.f.op = "F" /\ Unexpanded(o, t)
  BY FitOperands
<1>2. DecomposeF(n, i) = IF t < o.f.int.upper
                         THEN << Replace(n, i, a), Replace(n, i, b) >>
                         ELSE << Replace(n, i, a) >>
  BY DEF DecomposeF
<1>3. x \in NodeFormula /\ Fit(x, t) /\ \A sig : Asks(sig, x, t) <=> Holds(sig, t, o.f.phi)
  <2> HIDE DEF o, t
  <2>1. IsTemporal(o.f) /\ o.f.phi \in Operands(o.f) /\ 0 \in Int
    BY <1>1 DEF IsTemporal, Operands
  <2> QED
    BY <1>1, <2>1, PartExpansion
<1>4. /\ Marked(o) \in NodeFormula /\ (t < o.f.int.upper => Fit(Marked(o), t))
      /\ \A sig : Asks(sig, o, t) <=> \/ Holds(sig, t, o.f.phi)
                                      \/ t < o.f.int.upper /\ Asks(sig, Marked(o), t)
  <2> HIDE DEF o, t
  <2>1. IsTemporal(o.f)
    BY <1>1 DEF IsTemporal
  <2> QED
    BY <1>1, <2>1, UnexpandedFacts, FinallyAsks
<1> HIDE DEF x
<1>5. a \in Seq(NodeFormula) /\ ToSet(a) = {x}
  BY <1>3, Singleton
<1>6. b \in Seq(NodeFormula) /\ ToSet(b) = {Marked(o)}
  <2> DEFINE m == Marked(o)
  <2>1. m \in NodeFormula
    BY <1>4
  <2> HIDE DEF m
  <2>2. << m >> \in Seq(NodeFormula) /\ ToSet(<< m >>) = {m}
    BY <2>1, Singleton
  <2> QED
    BY <2>2 DEF m
<1> HIDE DEF a, b
<1>7. CASE t < o.f.int.upper
  <2>1. \A y \in ToSet(a) \cup ToSet(b) : Fit(y, t)
    BY <1>3, <1>4, <1>5, <1>6, <1>7
  <2>2. \A sig : Asks(sig, o, t) <=> AllAsk(sig, ToSet(a), t) \/ AllAsk(sig, ToSet(b), t)
    BY <1>3, <1>4, <1>5, <1>6, <1>7 DEF AllAsk
  <2>3. Faithful(n, << Replace(n, i, a), Replace(n, i, b) >>)
    BY <1>5, <1>6, <2>1, <2>2, TwoBranches
  <2>4. DecomposeF(n, i) = << Replace(n, i, a), Replace(n, i, b) >>
    BY <1>2, <1>7
  <2>5. << Replace(n, i, a), Replace(n, i, b) >> # <<>>
    OBVIOUS
  <2> QED
    BY <2>3, <2>4, <2>5
<1>8. CASE ~(t < o.f.int.upper)
  <2>1. \A y \in ToSet(a) : Fit(y, t)
    BY <1>3, <1>5
  <2>2. \A sig : Asks(sig, o, t) <=> AllAsk(sig, ToSet(a), t)
    BY <1>3, <1>4, <1>5, <1>8 DEF AllAsk
  <2>3. Faithful(n, << Replace(n, i, a) >>)
    BY <1>5, <2>1, <2>2, OneBranch
  <2>4. DecomposeF(n, i) = << Replace(n, i, a) >>
    BY <1>2, <1>8
  <2>5. << Replace(n, i, a) >> # <<>>
    OBVIOUS
  <2> QED
    BY <2>3, <2>4, <2>5
<1> QED
  BY <1>7, <1>8

\* decompose_u_at
LEMMA UntilRule ==
    ASSUME NEW n, FitNode(n), NEW i \in DOMAIN n.ops,
           n.ops[i].f.op = "U", Unexpanded(n.ops[i], n.time)
    PROVE  DecomposeU(n, i) # <<>> /\ Faithful(n, DecomposeU(n, i))
<1> DEFINE o == n.ops[i]
           t == n.time
           left == Operand(Expansion(o.f.left, t), o.id)
           right == Operand(Expansion(o.f.right, t), 0)
           m == Marked(o)
           a == << right >>
           b == << m, left >>
<1>1. o \in NodeFormula /\ t \in Nat /\ Fit(o, t) /\ o.f.op = "U" /\ Unexpanded(o, t) /\ o.id \in Int
  BY FitOperands
<1>2. DecomposeU(n, i) = IF t < o.f.int.upper
                         THEN << Replace(n, i, a), Replace(n, i, b) >>
                         ELSE << Replace(n, i, a) >>
  BY DEF DecomposeU
<1>3. IsTemporal(o.f) /\ o.f.left \in Operands(o.f) /\ o.f.right \in Operands(o.f) /\ 0 \in Int
  BY <1>1 DEF IsTemporal, Operands
<1>4. left \in NodeFormula /\ Fit(left, t) /\ \A sig : Asks(sig, left, t) <=> Holds(sig, t, o.f.left)
  <2> HIDE DEF o, t
  <2> QED
    BY <1>1, <1>3, PartExpansion
<1>5. right \in NodeFormula /\ Fit(right, t) /\ \A sig : Asks(sig, right, t) <=> Holds(sig, t, o.f.right)
  <2> HIDE DEF o, t
  <2> QED
    BY <1>1, <1>3, PartExpansion
<1>6. /\ m \in NodeFormula /\ (t < o.f.int.upper => Fit(m, t))
      /\ \A sig : Asks(sig, o, t) <=> \/ Holds(sig, t, o.f.right)
                                      \/ /\ t < o.f.int.upper
                                         /\ Holds(sig, t, o.f.left) /\ Asks(sig, m, t)
  <2> HIDE DEF o, t
  <2> QED
    BY <1>1, <1>3, UnexpandedFacts, UntilAsks
<1> HIDE DEF left, right, m
<1>7. a \in Seq(NodeFormula) /\ ToSet(a) = {right}
  BY <1>5, Singleton
<1>8. b \in Seq(NodeFormula) /\ ToSet(b) = {m} \cup {left}
  BY <1>4, <1>6, Couple
<1> HIDE DEF a, b
<1>9. CASE t < o.f.int.upper
  <2>1. \A y \in ToSet(a) \cup ToSet(b) : Fit(y, t)
    BY <1>4, <1>5, <1>6, <1>7, <1>8, <1>9
  <2>2. \A sig : Asks(sig, o, t) <=> AllAsk(sig, ToSet(a), t) \/ AllAsk(sig, ToSet(b), t)
    BY <1>4, <1>5, <1>6, <1>7, <1>8, <1>9 DEF AllAsk
  <2>3. Faithful(n, << Replace(n, i, a), Replace(n, i, b) >>)
    BY <1>7, <1>8, <2>1, <2>2, TwoBranches
  <2>4. DecomposeU(n, i) = << Replace(n, i, a), Replace(n, i, b) >>
    BY <1>2, <1>9
  <2>5. << Replace(n, i, a), Replace(n, i, b) >> # <<>>
    OBVIOUS
  <2> QED
    BY <2>3, <2>4, <2>5
<1>10. CASE ~(t < o.f.int.upper)
  <2>1. \A y \in ToSet(a) : Fit(y, t)
    BY <1>5, <1>7
  <2>2. \A sig : Asks(sig, o, t) <=> AllAsk(sig, ToSet(a), t)
    BY <1>5, <1>6, <1>7, <1>10 DEF AllAsk
  <2>3. Faithful(n, << Replace(n, i, a) >>)
    BY <1>7, <2>1, <2>2, OneBranch
  <2>4. DecomposeU(n, i) = << Replace(n, i, a) >>
    BY <1>2, <1>10
  <2>5. << Replace(n, i, a) >> # <<>>
    OBVIOUS
  <2> QED
    BY <2>3, <2>4, <2>5
<1> QED
  BY <1>9, <1>10

\* decompose_r_at
LEMMA ReleaseRule ==
    ASSUME NEW n, FitNode(n), NEW i \in DOMAIN n.ops,
           n.ops[i].f.op = "R", Unexpanded(n.ops[i], n.time)
    PROVE  DecomposeR(n, i) # <<>> /\ Faithful(n, DecomposeR(n, i))
<1> DEFINE o == n.ops[i]
           t == n.time
           left == Operand(Expansion(o.f.left, t), 0)
           right == Operand(Expansion(o.f.right, t), 0)
           dependent == Operand(Expansion(o.f.right, t), o.id)
           m == Marked(o)
           a == << left, right >>
           b == << m, dependent >>
           c == << dependent >>
<1>1. o \in NodeFormula /\ t \in Nat /\ Fit(o, t) /\ o.f.op = "R" /\ Unexpanded(o, t) /\ o.id \in Int
  BY FitOperands
<1>2. DecomposeR(n, i) = IF t < o.f.int.upper
                         THEN << Replace(n, i, a), Replace(n, i, b) >>
                         ELSE << Replace(n, i, c) >>
  BY DEF DecomposeR
<1>3. IsTemporal(o.f) /\ o.f.left \in Operands(o.f) /\ o.f.right \in Operands(o.f) /\ 0 \in Int
  BY <1>1 DEF IsTemporal, Operands
<1>4. left \in NodeFormula /\ Fit(left, t) /\ \A sig : Asks(sig, left, t) <=> Holds(sig, t, o.f.left)
  <2> HIDE DEF o, t
  <2> QED
    BY <1>1, <1>3, PartExpansion
<1>5. right \in NodeFormula /\ Fit(right, t) /\ \A sig : Asks(sig, right, t) <=> Holds(sig, t, o.f.right)
  <2> HIDE DEF o, t
  <2> QED
    BY <1>1, <1>3, PartExpansion
<1>6. /\ dependent \in NodeFormula /\ Fit(dependent, t)
      /\ \A sig : Asks(sig, dependent, t) <=> Holds(sig, t, o.f.right)
  <2> HIDE DEF o, t
  <2> QED
    BY <1>1, <1>3, PartExpansion
<1>7. /\ m \in NodeFormula /\ (t < o.f.int.upper => Fit(m, t))
      /\ \A sig : Asks(sig, o, t) <=> /\ Holds(sig, t, o.f.right)
                                      /\ t < o.f.int.upper => Holds(sig, t, o.f.left) \/ Asks(sig, m, t)
  <2> HIDE DEF o, t
  <2> QED
    BY <1>1, <1>3, UnexpandedFacts, ReleaseAsks
<1> HIDE DEF left, right, dependent, m
<1>8. a \in Seq(NodeFormula) /\ ToSet(a) = {left} \cup {right}
  BY <1>4, <1>5, Couple
<1>9. b \in Seq(NodeFormula) /\ ToSet(b) = {m} \cup {dependent}
  BY <1>6, <1>7, Couple
<1>10. c \in Seq(NodeFormula) /\ ToSet(c) = {dependent}
  BY <1>6, Singleton
<1> HIDE DEF a, b, c
<1>11. CASE t < o.f.int.upper
  <2>1. \A y \in ToSet(a) \cup ToSet(b) : Fit(y, t)
    BY <1>4, <1>5, <1>6, <1>7, <1>8, <1>9, <1>11
  <2>2. \A sig : Asks(sig, o, t) <=> AllAsk(sig, ToSet(a), t) \/ AllAsk(sig, ToSet(b), t)
    BY <1>4, <1>5, <1>6, <1>7, <1>8, <1>9, <1>11 DEF AllAsk
  <2>3. Faithful(n, << Replace(n, i, a), Replace(n, i, b) >>)
    BY <1>8, <1>9, <2>1, <2>2, TwoBranches
  <2>4. DecomposeR(n, i) = << Replace(n, i, a), Replace(n, i, b) >>
    BY <1>2, <1>11
  <2>5. << Replace(n, i, a), Replace(n, i, b) >> # <<>>
    OBVIOUS
  <2> QED
    BY <2>3, <2>4, <2>5
<1>12. CASE ~(t < o.f.int.upper)
  <2>1. \A y \in ToSet(c) : Fit(y, t)
    BY <1>6, <1>10
  <2>2. \A sig : Asks(sig, o, t) <=> AllAsk(sig, ToSet(c), t)
    BY <1>6, <1>7, <1>10, <1>12 DEF AllAsk
  <2>3. Faithful(n, << Replace(n, i, c) >>)
    BY <1>10, <2>1, <2>2, OneBranch
  <2>4. DecomposeR(n, i) = << Replace(n, i, c) >>
    BY <1>2, <1>12
  <2>5. << Replace(n, i, c) >> # <<>>
    OBVIOUS
  <2> QED
    BY <2>3, <2>4, <2>5
<1> QED
  BY <1>11, <1>12

----------------------------------------------------------------------------
(* The jump to the next instant *)

\* What a temporal formula demands depends on its instants that are left.
LEMMA TemporalDemands ==
    ASSUME NEW f \in Formula, IsTemporal(f), NEW u \in Int, NEW v \in Int, NEW a, NEW b,
           Instants(f.int, a) = Instants(f.int, b), NEW sig
    PROVE  Demands(sig, f, u, a) <=> Demands(sig, f, v, b)
<1>1. CASE f.op = "G"
  <2>1. Demands(sig, f, u, a) <=> \A i \in Instants(f.int, a) : Holds(sig, i, f.phi)
    BY <1>1, DemandsCases
  <2>2. Demands(sig, f, v, b) <=> \A i \in Instants(f.int, b) : Holds(sig, i, f.phi)
    BY <1>1, DemandsCases
  <2> QED
    BY <2>1, <2>2
<1>2. CASE f.op = "F"
  <2>1. Demands(sig, f, u, a) <=> \E i \in Instants(f.int, a) : Holds(sig, i, f.phi)
    BY <1>2, DemandsCases
  <2>2. Demands(sig, f, v, b) <=> \E i \in Instants(f.int, b) : Holds(sig, i, f.phi)
    BY <1>2, DemandsCases
  <2> QED
    BY <2>1, <2>2
<1>3. CASE f.op = "U"
  <2> DEFINE Until(T) == \E i \in T : Holds(sig, i, f.right) /\ \A j \in T : j < i => Holds(sig, j, f.left)
  <2>1. Demands(sig, f, u, a) <=> Until(Instants(f.int, a))
    BY <1>3, DemandsCases
  <2>2. Demands(sig, f, v, b) <=> Until(Instants(f.int, b))
    BY <1>3, DemandsCases
  <2> QED
    BY <2>1, <2>2
<1>4. CASE f.op = "R"
  <2> DEFINE Release(T) == \A i \in T : Holds(sig, i, f.right) \/ \E j \in T : j < i /\ Holds(sig, j, f.left)
  <2>1. Demands(sig, f, u, a) <=> Release(Instants(f.int, a))
    BY <1>4, DemandsCases
  <2>2. Demands(sig, f, v, b) <=> Release(Instants(f.int, b))
    BY <1>4, DemandsCases
  <2> QED
    BY <2>1, <2>2
<1> QED
  BY <1>1, <1>2, <1>3, <1>4 DEF IsTemporal

\* A temporal operand that waits for a later instant asks the same from there on.
LEMMA KeptAsks ==
    ASSUME NEW o \in NodeFormula, NEW t \in Nat, Fit(o, t), IsTemporal(o.f), ~Unexpanded(o, t)
    PROVE  LET k == [o EXCEPT !.marked = FALSE]
           IN  /\ Kept(o, t + 1) = << k >>
               /\ k \in NodeFormula /\ Fit(k, t + 1)
               /\ \A sig : Asks(sig, k, t + 1) <=> Asks(sig, o, t)
<1> DEFINE k == [o EXCEPT !.marked = FALSE]
<1>1. k \in NodeFormula /\ k.f = o.f /\ ~k.marked
  BY DEF NodeFormula
<1> HIDE DEF k
<1>2. o.f \in Formula /\ Coherent[o.f]
  BY OperandShape DEF Fit
<1>3. o.f.int.lower \in Int /\ o.f.int.upper \in Int /\ o.f.int.lower <= o.f.int.upper
  BY <1>2, CoherentFacts DEF Interval
<1>4. o.marked \/ t < o.f.int.lower
  BY <1>3 DEF Unexpanded, Active, Fit
<1>5. t + 1 <= o.f.int.upper
  BY <1>3, <1>4 DEF Fit
<1>6. Fit(k, t + 1)
  BY <1>1, <1>2, <1>5 DEF Fit
<1>7. Instants(o.f.int, t + 1) = Instants(o.f.int, From(o, t))
  <2>1. CASE o.marked
    BY <2>1 DEF From
  <2>2. CASE ~o.marked
    <3>1. From(o, t) = t /\ t < o.f.int.lower
      BY <1>4, <2>2 DEF From
    <3>2. Greater(o.f.int.lower, t + 1) = Greater(o.f.int.lower, t)
      BY <1>3, <3>1 DEF Greater
    <3> QED
      BY <3>1, <3>2 DEF Instants
  <2> QED
    BY <2>1, <2>2
<1>8. \A sig : Demands(sig, o.f, t + 1, t + 1) <=> Demands(sig, o.f, t, From(o, t))
  <2>1. t + 1 \in Int /\ t \in Int
    OBVIOUS
  <2> QED
    BY <1>2, <1>7, <2>1, TemporalDemands
<1>9. \A sig : Asks(sig, k, t + 1) <=> Asks(sig, o, t)
  BY <1>1, <1>8 DEF Asks, From
<1>10. Kept(o, t + 1) = << k >>
  BY <1>5 DEF Kept, k
<1> QED
  BY <1>1, <1>6, <1>9, <1>10 DEF k

\* A node with which the rules that stay at an instant are done
Settled(n) ==
    \A i \in DOMAIN n.ops : LET o == n.ops[i] IN
        /\ o.f.op \notin {"and", "or", "imply"}
        /\ IsTemporal(o.f) => ~Unexpanded(o, n.time)

LiteralsHold(sig, n) == \A o \in ToSet(n.ops) : IsLiteral(o.f) => Holds(sig, n.time, o.f)

\* A node in which the operators of the last instants wait for instant t
Opens(n, t) ==
    /\ FitNode(n) /\ n.time = t
    /\ \A i \in DOMAIN n.ops : IsTemporal(n.ops[i].f) /\ ~n.ops[i].marked

\* The nodes kids open the next instant, and the full one among them keeps what n, its
\* literals aside, asks.
JumpsTo(n, kids, next) ==
    /\ Settled(n)
    /\ \A k \in DOMAIN kids : /\ kids[k] = next \/ (SimpleFirst /\ kids[k].simple)
                              /\ Opens(kids[k], n.time + 1)
    /\ \E k \in DOMAIN kids : kids[k] = next
    /\ ~next.simple
    /\ \A sig : Models(sig, n) <=> LiteralsHold(sig, n) /\ Models(sig, next)

\* A settled node without temporal operands has only literals.
LEMMA LiteralAsks ==
    ASSUME NEW n, FitNode(n), Settled(n), NEW i \in DOMAIN n.ops, ~IsTemporal(n.ops[i].f)
    PROVE  /\ IsLiteral(n.ops[i].f)
           /\ \A sig : Asks(sig, n.ops[i], n.time) <=> Holds(sig, n.time, n.ops[i].f)
<1> DEFINE o == n.ops[i]
           t == n.time
<1>1. o \in NodeFormula /\ t \in Nat /\ Fit(o, t) /\ ~IsTemporal(o.f) /\ o.f.op \notin {"and", "or", "imply"}
  BY FitOperands DEF Settled
<1> HIDE DEF o, t
<1>2. ~o.marked /\ o.f \in Formula
  BY <1>1, OperandShape DEF Fit
<1>3. o.f.op \in {"prop", "not", "and", "or", "imply", "G", "F", "U", "R"}
  BY <1>2, FormulaCases, CompoundShape DEF Propositions
<1>4. IsLiteral(o.f)
  BY <1>1, <1>3 DEF IsLiteral, IsTemporal
<1>5. \A sig : Demands(sig, o.f, t, t) <=> Holds(sig, t, o.f)
  <2>1. t \in Int
    BY <1>1
  <2> QED
    BY <1>2, <1>4, <2>1, DemandsCases
<1>6. \A sig : Asks(sig, o, t) <=> Holds(sig, t, o.f)
  BY <1>2, <1>5 DEF Asks, From
<1> QED
  BY <1>4, <1>6 DEF o, t

LEMMA JumpRule ==
    ASSUME ~JumpRuleEnabled, NEW n, FitNode(n), Settled(n)
    PROVE  /\ DecomposeJump(n) = <<>> => \A sig : Models(sig, n) <=> LiteralsHold(sig, n)
           /\ DecomposeJump(n) # <<>> => \E next : JumpsTo(n, DecomposeJump(n), next)
<1> DEFINE t == n.time
           parts == [i \in DOMAIN n.ops |-> Kept(n.ops[i], t + 1)]
           kept == FlattenSeq(parts)
           c == WithOperands(n, kept)
           next == [c EXCEPT !.time = t + 1]
           easy == FlatMap(LAMBDA o : IF IsComplex(o.f) THEN <<>> ELSE <<o>>, next.ops)
           simple == [next EXCEPT !.ops = easy, !.simple = TRUE]
<1>1. DecomposeJump(n) = IF kept = <<>> THEN <<>>
                         ELSE IF SimpleFirst /\ 0 < Len(easy) /\ Len(easy) < Len(kept)
                         THEN << simple, next >>
                         ELSE << next >>
  <2>1. JumpLength(n) = 1
    BY DEF JumpLength
  <2> QED
    BY <2>1 DEF DecomposeJump, FlatMap
<1>2. n \in Node /\ t \in Nat /\ \A i \in DOMAIN n.ops : n.ops[i] \in NodeFormula /\ Fit(n.ops[i], t)
  BY FitOperands
<1>3. \A i \in DOMAIN n.ops : parts[i] = Kept(n.ops[i], t + 1)
  OBVIOUS
<1>4. ASSUME NEW i \in DOMAIN n.ops
      PROVE  /\ Kept(n.ops[i], t + 1) \in Seq(NodeFormula)
             /\ \A o \in ToSet(Kept(n.ops[i], t + 1)) : Fit(o, t + 1) /\ IsTemporal(o.f) /\ ~o.marked
             /\ IsTemporal(n.ops[i].f) => Kept(n.ops[i], t + 1) # <<>>
             /\ \A sig : AllAsk(sig, ToSet(Kept(n.ops[i], t + 1)), t + 1) <=>
                    (IsTemporal(n.ops[i].f) => Asks(sig, n.ops[i], t))
  <2> DEFINE o == n.ops[i]
  <2>1. o \in NodeFormula /\ Fit(o, t) /\ (IsTemporal(o.f) => ~Unexpanded(o, t)) /\ t \in Nat
    BY <1>2 DEF Settled
  <2> HIDE DEF o, t
  <2>2. CASE IsTemporal(o.f)
    <3> DEFINE k == [o EXCEPT !.marked = FALSE]
    <3>1. /\ Kept(o, t + 1) = << k >>
          /\ k \in NodeFormula /\ Fit(k, t + 1)
          /\ \A sig : Asks(sig, k, t + 1) <=> Asks(sig, o, t)
      BY <2>1, <2>2, KeptAsks
    <3>3. IsTemporal(k.f) /\ ~k.marked
      BY <2>1, <2>2 DEF NodeFormula
    <3> HIDE DEF k
    <3>2. << k >> \in Seq(NodeFormula) /\ ToSet(<< k >>) = {k} /\ << k >> # <<>>
      BY <3>1, Singleton
    <3> QED
      BY <2>2, <3>1, <3>2, <3>3 DEF AllAsk, o
  <2>3. CASE ~IsTemporal(o.f)
    <3>1. Kept(o, t + 1) = <<>>
      BY <2>3 DEF Kept
    <3>2. <<>> \in Seq(NodeFormula) /\ ToSet(<<>>) = {}
      BY DEF ToSet
    <3> QED
      BY <2>3, <3>1, <3>2 DEF AllAsk, o
  <2> QED
    BY <2>2, <2>3
<1>5. kept \in Seq(NodeFormula) /\ ToSet(kept) = UNION {ToSet(parts[i]) : i \in DOMAIN n.ops}
  <2>1. parts \in [DOMAIN n.ops -> Seq(NodeFormula)] /\ DOMAIN parts = DOMAIN n.ops
    BY <1>4
  <2>2. DOMAIN n.ops = 1 .. Len(n.ops) /\ Len(n.ops) \in Nat
    BY <1>2, NodeFacts
  <2> HIDE DEF parts
  <2>3. parts \in Seq(Seq(NodeFormula))
    <3> DEFINE d == Len(n.ops)
    <3>1. d \in Nat /\ parts \in [1 .. d -> Seq(NodeFormula)]
      BY <2>1, <2>2
    <3> HIDE DEF d
    <3> QED
      BY <3>1
  <2> QED
    BY <2>1, <2>3, FlattenElements
<1> HIDE DEF parts
<1>6. /\ \A o \in ToSet(kept) : Fit(o, t + 1) /\ IsTemporal(o.f) /\ ~o.marked
      /\ \A sig : AllAsk(sig, ToSet(kept), t + 1) <=>
            \A i \in DOMAIN n.ops : IsTemporal(n.ops[i].f) => Asks(sig, n.ops[i], t)
  <2>1. \A sig : AllAsk(sig, ToSet(kept), t + 1) <=>
            \A i \in DOMAIN n.ops : AllAsk(sig, ToSet(parts[i]), t + 1)
    BY <1>5 DEF AllAsk
  <2>2. \A o \in ToSet(kept) : Fit(o, t + 1) /\ IsTemporal(o.f) /\ ~o.marked
    BY <1>3, <1>4, <1>5
  <2> HIDE DEF kept, t
  <2> QED
    BY <1>3, <1>4, <2>1, <2>2
<1>7. \A sig : Models(sig, n) <=> /\ LiteralsHold(sig, n)
                                  /\ \A i \in DOMAIN n.ops : IsTemporal(n.ops[i].f) => Asks(sig, n.ops[i], t)
  <2>1. \A i \in DOMAIN n.ops : ~(IsLiteral(n.ops[i].f) /\ IsTemporal(n.ops[i].f))
    BY DEF IsLiteral, IsTemporal
  <2>2. \A i \in DOMAIN n.ops : ~IsTemporal(n.ops[i].f) =>
            /\ IsLiteral(n.ops[i].f)
            /\ \A sig : Asks(sig, n.ops[i], t) <=> Holds(sig, t, n.ops[i].f)
    BY LiteralAsks
  <2>3. \A sig : LiteralsHold(sig, n) <=>
            \A i \in DOMAIN n.ops : IsLiteral(n.ops[i].f) => Holds(sig, t, n.ops[i].f)
    BY DEF LiteralsHold, ToSet
  <2>4. \A sig : Models(sig, n) <=> \A i \in DOMAIN n.ops : Asks(sig, n.ops[i], t)
    BY ModelsAsk DEF AllAsk, ToSet
  <2> HIDE DEF t
  <2> QED
    BY <2>1, <2>2, <2>3, <2>4
<1> HIDE DEF kept
<1>8. CASE kept = <<>>
  <2>1. DecomposeJump(n) = <<>>
    BY <1>1, <1>8
  <2>2. \A sig : AllAsk(sig, ToSet(kept), t + 1)
    BY <1>8 DEF AllAsk, ToSet
  <2> QED
    BY <1>6, <1>7, <2>1, <2>2
<1>9. CASE kept # <<>>
  <2>1. /\ c \in Node /\ c.time = t /\ ~c.simple
        /\ DOMAIN c.ops = DOMAIN kept
        /\ \A i \in DOMAIN kept : c.ops[i].f = kept[i].f /\ c.ops[i].marked = kept[i].marked
    BY <1>2, <1>5, Numbered
  <2> HIDE DEF c
  <2>2. next \in Node /\ next.time = t + 1 /\ ~next.simple /\ next.ops = c.ops
    BY <1>2, <2>1 DEF Node
  <2> HIDE DEF next
  <2>3. ASSUME NEW i \in DOMAIN kept
        PROVE  /\ \A sig : Asks(sig, next.ops[i], t + 1) <=> Asks(sig, kept[i], t + 1)
               /\ Fit(next.ops[i], t + 1) <=> Fit(kept[i], t + 1)
    BY <2>1, <2>2 DEF Asks, From, Fit
  <2>4. Opens(next, t + 1)
    <3>1. \A i \in DOMAIN kept : Fit(kept[i], t + 1) /\ IsTemporal(kept[i].f) /\ ~kept[i].marked
      BY <1>6 DEF ToSet
    <3>2. DOMAIN next.ops = DOMAIN kept
      BY <2>1, <2>2
    <3>3. \A i \in DOMAIN next.ops : IsTemporal(next.ops[i].f) /\ ~next.ops[i].marked
      BY <2>1, <2>2, <3>1, <3>2
    <3> QED
      BY <2>2, <2>3, <3>1, <3>2, <3>3 DEF Opens, FitNode, ToSet
  <2>5. \A sig : Models(sig, next) <=> AllAsk(sig, ToSet(kept), t + 1)
    BY <2>1, <2>2, <2>3, ModelsAsk DEF AllAsk, ToSet
  <2>6. \A sig : Models(sig, n) <=> LiteralsHold(sig, n) /\ Models(sig, next)
    BY <1>6, <1>7, <2>5
  <2>7. simple.simple /\ Opens(simple, t + 1)
    <3> DEFINE One(o) == IF IsComplex(o.f) THEN <<>> ELSE << o >>
               ones == [i \in DOMAIN next.ops |-> One(next.ops[i])]
    <3>1. /\ next.ops \in Seq(NodeFormula) /\ Len(next.ops) \in Nat
          /\ DOMAIN next.ops = 1 .. Len(next.ops)
          /\ \A i \in DOMAIN next.ops : next.ops[i] \in NodeFormula
      BY <2>2, NodeFacts
    <3>2. ASSUME NEW o \in NodeFormula
          PROVE  One(o) \in Seq(NodeFormula) /\ ToSet(One(o)) \subseteq {o}
      <4>1. <<>> \in Seq(NodeFormula) /\ ToSet(<<>>) = {}
        BY DEF ToSet
      <4>2. << o >> \in Seq(NodeFormula) /\ ToSet(<< o >>) = {o}
        BY Singleton
      <4> QED
        BY <4>1, <4>2
    <3> HIDE DEF One
    <3>3. ones \in Seq(Seq(NodeFormula)) /\ DOMAIN ones = DOMAIN next.ops
      <4> DEFINE d == Len(next.ops)
      <4>1. d \in Nat /\ ones \in [1 .. d -> Seq(NodeFormula)]
        BY <3>1, <3>2
      <4> HIDE DEF d, ones
      <4>2. ones \in Seq(Seq(NodeFormula))
        BY <4>1
      <4> QED
        BY <4>2 DEF ones
    <3>4. easy = FlattenSeq(ones)
      BY DEF FlatMap, One
    <3>5. \A i \in DOMAIN ones : ToSet(ones[i]) \subseteq {next.ops[i]}
      BY <3>1, <3>2
    <3> HIDE DEF ones, easy
    <3>6. easy \in Seq(NodeFormula) /\ \A o \in ToSet(easy) : \E i \in DOMAIN next.ops : o = next.ops[i]
      <4>1. easy \in Seq(NodeFormula) /\ ToSet(easy) = UNION {ToSet(ones[i]) : i \in DOMAIN ones}
        BY <3>3, <3>4, FlattenElements
      <4>2. ASSUME NEW o \in ToSet(easy) PROVE \E i \in DOMAIN next.ops : o = next.ops[i]
        <5>1. PICK i \in DOMAIN ones : o \in ToSet(ones[i])
          BY <4>1
        <5> QED
          BY <3>3, <3>5, <5>1
      <4> QED
        BY <4>1, <4>2
    <3>7. simple \in Node /\ simple.ops = easy /\ simple.time = t + 1 /\ simple.simple
      BY <2>2, <3>6 DEF Node
    <3> HIDE DEF simple
    <3>8. \A o \in ToSet(next.ops) : Fit(o, t + 1) /\ IsTemporal(o.f) /\ ~o.marked
      BY <2>4 DEF Opens, FitNode, ToSet
    <3>9. \A o \in ToSet(simple.ops) : o \in ToSet(next.ops)
      <4> HIDE DEF easy
      <4> QED
        BY <3>6, <3>7 DEF ToSet
    <3>10. \A o \in ToSet(simple.ops) : Fit(o, t + 1)
      BY <3>8, <3>9
    <3>11. \A i \in DOMAIN simple.ops : IsTemporal(simple.ops[i].f) /\ ~simple.ops[i].marked
      <4>1. ASSUME NEW i \in DOMAIN simple.ops PROVE simple.ops[i] \in ToSet(simple.ops)
        BY DEF ToSet
      <4> QED
        BY <3>8, <3>9, <4>1
    <3> QED
      BY <3>7, <3>10, <3>11 DEF Opens, FitNode
  <2>8. (DecomposeJump(n) = << simple, next >> /\ SimpleFirst) \/ DecomposeJump(n) = << next >>
    BY <1>1, <1>9
  <2> HIDE DEF simple
  <2>9. DecomposeJump(n) # <<>>
    BY <2>8
  <2>10. /\ \A k \in DOMAIN DecomposeJump(n) :
                /\ DecomposeJump(n)[k] = next \/ (SimpleFirst /\ DecomposeJump(n)[k].simple)
                /\ Opens(DecomposeJump(n)[k], t + 1)
         /\ \E k \in DOMAIN DecomposeJump(n) : DecomposeJump(n)[k] = next
    <3>1. CASE DecomposeJump(n) = << simple, next >> /\ SimpleFirst
      <4>1. DOMAIN << simple, next >> = {1} \cup {2} /\ << simple, next >>[1] = simple /\ << simple, next >>[2] = next
        OBVIOUS
      <4> QED
        BY <2>4, <2>7, <3>1, <4>1
    <3>2. CASE DecomposeJump(n) = << next >>
      <4>1. DOMAIN << next >> = {1} /\ << next >>[1] = next
        OBVIOUS
      <4> QED
        BY <2>4, <3>2, <4>1
    <3> QED
      BY <2>8, <3>1, <3>2
  <2>11. JumpsTo(n, DecomposeJump(n), next)
    BY <2>2, <2>6, <2>10 DEF JumpsTo
  <2> QED
    BY <2>9, <2>11
<1> QED
  BY <1>8, <1>9

----------------------------------------------------------------------------
(* Decompose *)

LEMMA MinFact ==
    ASSUME NEW S \in SUBSET Nat, S # {}
    PROVE  Min(S) \in S
<1>1. \E m \in S : \A k \in S : m <= k
  BY SmallestElement
<1> QED
  BY <1>1, Zenon DEF Min

\* A node of which the rewritings make nothing else is branched faithfully, or it is
\* left for the next instant, or it is a leaf whose literals are all it asks.
LEMMA BranchRule ==
    ASSUME ~JumpRuleEnabled, NEW n, FitNode(n), ~(FormulaOptimizations /\ RewriteChanges(n))
    PROVE  /\ Decompose(n) = <<>> => \A sig : Models(sig, n) <=> LiteralsHold(sig, n)
           /\ Decompose(n) # <<>> => \/ Faithful(n, Decompose(n))
                                     \/ \E next : JumpsTo(n, Decompose(n), next)
           /\ Settled(n) => Decompose(n) = DecomposeJump(n)
<1> DEFINE ops == n.ops
           B == {i \in 1 .. Len(ops) : ops[i].f.op \in {"or", "imply"}}
           T == {i \in 1 .. Len(ops) : ops[i].f.op \in {"F", "U", "R"} /\ Unexpanded(ops[i], n.time)}
           boolean == IF B # {} THEN Min(B) ELSE 0
           temporal == IF T # {} THEN Min(T) ELSE 0
           HasAnd == \E i \in DOMAIN ops : ops[i].f.op = "and"
           HasG == \E i \in DOMAIN ops : ops[i].f.op = "G" /\ Unexpanded(ops[i], n.time)
<1>1. Decompose(n) =
        IF HasAnd THEN DecomposeAnd(n)
        ELSE IF HasG THEN DecomposeG(n)
        ELSE IF boolean # 0
             THEN IF ops[boolean].f.op = "or" THEN DecomposeOr(n, boolean) ELSE DecomposeImply(n, boolean)
        ELSE IF temporal # 0
             THEN CASE ops[temporal].f.op = "F" -> DecomposeF(n, temporal)
                    [] ops[temporal].f.op = "U" -> DecomposeU(n, temporal)
                    [] ops[temporal].f.op = "R" -> DecomposeR(n, temporal)
        ELSE DecomposeJump(n)
  BY DEF Decompose, SelectInSeq
<1>2. DOMAIN ops = 1 .. Len(ops) /\ Len(ops) \in Nat
  BY NodeFacts DEF FitNode
<1>3. boolean # 0 => boolean \in DOMAIN ops /\ ops[boolean].f.op \in {"or", "imply"}
  <2>1. B \in SUBSET Nat
    OBVIOUS
  <2>2. B # {} => Min(B) \in B
    <3> HIDE DEF B
    <3> QED
      BY <2>1, MinFact
  <2> QED
    BY <1>2, <2>2
<1>4. temporal # 0 => /\ temporal \in DOMAIN ops
                      /\ ops[temporal].f.op \in {"F", "U", "R"} /\ Unexpanded(ops[temporal], n.time)
  <2>1. T \in SUBSET Nat
    OBVIOUS
  <2>2. T # {} => Min(T) \in T
    <3> HIDE DEF T
    <3> QED
      BY <2>1, MinFact
  <2> QED
    BY <1>2, <2>2
<1>5. boolean = 0 => \A i \in DOMAIN ops : ops[i].f.op \notin {"or", "imply"}
  <2>1. B # {} => Min(B) \in B
    <3>1. B \in SUBSET Nat
      OBVIOUS
    <3> HIDE DEF B
    <3> QED
      BY <3>1, MinFact
  <2>2. \A i \in B : i # 0
    OBVIOUS
  <2>3. boolean = 0 => B = {}
    <3> HIDE DEF B
    <3> QED
      BY <2>1, <2>2
  <2> QED
    BY <1>2, <2>3
<1>6. temporal = 0 => \A i \in DOMAIN ops : ~(ops[i].f.op \in {"F", "U", "R"} /\ Unexpanded(ops[i], n.time))
  <2>1. T # {} => Min(T) \in T
    <3>1. T \in SUBSET Nat
      OBVIOUS
    <3> HIDE DEF T
    <3> QED
      BY <3>1, MinFact
  <2>2. \A i \in T : i # 0
    OBVIOUS
  <2>3. temporal = 0 => T = {}
    <3> HIDE DEF T
    <3> QED
      BY <2>1, <2>2
  <2> QED
    BY <1>2, <2>3
<1> HIDE DEF boolean, temporal
<1>7. Settled(n) => ~HasAnd /\ ~HasG /\ boolean = 0 /\ temporal = 0
  <2> SUFFICES ASSUME Settled(n) PROVE ~HasAnd /\ ~HasG /\ boolean = 0 /\ temporal = 0
    OBVIOUS
  <2>1. \A i \in DOMAIN ops : /\ ops[i].f.op \notin {"and", "or", "imply"}
                              /\ IsTemporal(ops[i].f) => ~Unexpanded(ops[i], n.time)
    BY DEF Settled
  <2> QED
    BY <1>3, <1>4, <2>1 DEF IsTemporal
<1>8. Settled(n) => Decompose(n) = DecomposeJump(n)
  BY <1>1, <1>7
<1>9. CASE HasAnd
  <2>1. Decompose(n) = DecomposeAnd(n)
    BY <1>1, <1>9
  <2>2. DecomposeAnd(n) # <<>>
    BY DEF DecomposeAnd
  <2> QED
    BY <1>8, <2>1, <2>2, AndRule
<1>10. CASE ~HasAnd /\ HasG
  <2>1. Decompose(n) = DecomposeG(n)
    BY <1>1, <1>10
  <2>2. DecomposeG(n) # <<>>
    BY DEF DecomposeG
  <2> QED
    BY <1>8, <2>1, <2>2, GloballyRule
<1>11. CASE ~HasAnd /\ ~HasG /\ boolean # 0
  <2>1. CASE ops[boolean].f.op = "or"
    <3>1. Decompose(n) = DecomposeOr(n, boolean)
      BY <1>1, <1>11, <2>1
    <3> QED
      BY <1>3, <1>8, <1>11, <2>1, <3>1, OrRule
  <2>2. CASE ops[boolean].f.op # "or"
    <3>1. Decompose(n) = DecomposeImply(n, boolean)
      BY <1>1, <1>11, <2>2
    <3> QED
      BY <1>3, <1>8, <1>11, <2>2, <3>1, ImplyRule
  <2> QED
    BY <2>1, <2>2
<1>12. CASE ~HasAnd /\ ~HasG /\ boolean = 0 /\ temporal # 0
  <2>1. CASE ops[temporal].f.op = "F"
    <3>1. Decompose(n) = DecomposeF(n, temporal)
      BY <1>1, <1>12, <2>1
    <3> QED
      BY <1>4, <1>8, <1>12, <2>1, <3>1, FinallyRule
  <2>2. CASE ops[temporal].f.op = "U"
    <3>1. Decompose(n) = DecomposeU(n, temporal)
      BY <1>1, <1>12, <2>2
    <3> QED
      BY <1>4, <1>8, <1>12, <2>2, <3>1, UntilRule
  <2>3. CASE ops[temporal].f.op = "R"
    <3>1. Decompose(n) = DecomposeR(n, temporal)
      BY <1>1, <1>12, <2>3
    <3> QED
      BY <1>4, <1>8, <1>12, <2>3, <3>1, ReleaseRule
  <2> QED
    BY <1>4, <1>12, <2>1, <2>2, <2>3
<1>13. CASE ~HasAnd /\ ~HasG /\ boolean = 0 /\ temporal = 0
  <2>1. Decompose(n) = DecomposeJump(n)
    BY <1>1, <1>13
  <2>2. Settled(n)
    BY <1>5, <1>6, <1>13 DEF Settled, IsTemporal
  <2> QED
    BY <2>1, <2>2, JumpRule
<1> QED
  BY <1>9, <1>10, <1>11, <1>12, <1>13

----------------------------------------------------------------------------
(* Literals and signals *)

\* A literal holds when its variable has one of the values it leaves.
LEMMA LiteralHolds ==
    ASSUME NEW f \in Formula, HasExpr(f), NEW sig \in Signal, NEW t \in Int
    PROVE  /\ LiteralOf(f).var \in STRING
           /\ Holds(sig, t, f) <=> sig[t][LiteralOf(f).var] \in LiteralOf(f).vals
<1>1. CASE f.op = "prop"
  <2>1. f.e \in Expr
    BY <1>1, FormulaCases, CompoundShape DEF Propositions
  <2>2. f.e.var \in STRING
    BY <2>1 DEF Expr
  <2>3. LiteralOf(f) = [var |-> f.e.var, vals |-> f.e.holds]
    BY <1>1 DEF LiteralOf, ExprOf
  <2>4. LiteralOf(f).var = f.e.var /\ LiteralOf(f).vals = f.e.holds
    BY <2>3
  <2>5. Holds(sig, t, f) <=> sig[t][f.e.var] \in f.e.holds
    BY <1>1, HoldsCases
  <2> QED
    BY <2>2, <2>4, <2>5
<1>2. CASE f.op # "prop"
  <2>1. f.op = "not" /\ f.phi.op = "prop"
    BY <1>2 DEF HasExpr
  <2>2. f.phi \in Formula
    BY <2>1, FormulaCases, CompoundShape DEF Propositions
  <2>3. f.phi.e \in Expr
    BY <2>1, <2>2, FormulaCases, CompoundShape DEF Propositions
  <2> DEFINE e == f.phi.e
  <2>4. e.var \in STRING
    BY <2>3 DEF Expr
  <2>5. LiteralOf(f) = [var |-> e.var, vals |-> Values(e.var) \ e.holds]
    BY <2>1 DEF LiteralOf, ExprOf
  <2>6. LiteralOf(f).var = e.var /\ LiteralOf(f).vals = Values(e.var) \ e.holds
    BY <2>5
  <2>7. Holds(sig, t, f) <=> ~Holds(sig, t, f.phi)
    BY <2>1, HoldsCases
  <2>8. Holds(sig, t, f.phi) <=> sig[t][e.var] \in e.holds
    BY <2>1, <2>2, HoldsCases
  <2>9. sig[t][e.var] \in Values(e.var)
    BY <2>4, ValueOfSignal
  <2> HIDE DEF e
  <2> QED
    BY <2>4, <2>6, <2>7, <2>8, <2>9
<1> QED
  BY <1>1, <1>2

\* In a fit node every literal has an expression and asks that it holds now.
LEMMA FitLiteral ==
    ASSUME NEW o \in NodeFormula, NEW t \in Nat, Fit(o, t), IsLiteral(o.f)
    PROVE  HasExpr(o.f) /\ \A sig : Asks(sig, o, t) <=> Holds(sig, t, o.f)
<1>1. ~IsTemporal(o.f)
  BY DEF IsLiteral, IsTemporal
<1>2. ~o.marked
  BY <1>1, FitExpansion
<1>3. PICK g \in Formula : Coherent[g] /\ ExpandsTo(g, t, Shifted(t), o.f) /\ o.f \in Formula
  BY <1>1, FitExpansion
<1>4. o.f = g
  BY <1>3 DEF ExpandsTo, IsLiteral
<1>5. HasExpr(o.f)
  BY <1>3, <1>4, CoherentFacts DEF HasExpr, IsLiteral
<1>6. \A sig : Demands(sig, o.f, t, t) <=> Holds(sig, t, o.f)
  <2>1. t \in Int
    OBVIOUS
  <2> QED
    BY <1>3, <2>1, DemandsCases
<1> QED
  BY <1>2, <1>5, <1>6 DEF Asks, From

LEMMA ModelLiterals ==
    ASSUME NEW n, FitNode(n), NEW sig \in Signal, Models(sig, n)
    PROVE  LiteralsHold(sig, n)
<1> SUFFICES ASSUME NEW i \in DOMAIN n.ops, IsLiteral(n.ops[i].f)
             PROVE  Holds(sig, n.time, n.ops[i].f)
  BY DEF LiteralsHold, ToSet
<1> DEFINE o == n.ops[i]
           t == n.time
<1>1. o \in NodeFormula /\ Fit(o, t) /\ t \in Nat
  BY FitOperands
<1>2. Asks(sig, o, t)
  BY ModelsAsk DEF AllAsk, ToSet
<1> HIDE DEF o, t
<1>3. IsLiteral(o.f)
  BY DEF o
<1>4. Holds(sig, t, o.f)
  BY <1>1, <1>2, <1>3, FitLiteral
<1> QED
  BY <1>4 DEF o, t

\* A literal of a node is that of one of its operands.
LEMMA LiteralOperand ==
    ASSUME NEW n, FitNode(n), NEW l \in LiteralsOf(n)
    PROVE  \E o \in ToSet(n.ops) : /\ o \in NodeFormula /\ o.f \in Formula /\ HasExpr(o.f)
                                   /\ IsLiteral(o.f) /\ l = LiteralOf(o.f)
<1>1. PICK i \in DOMAIN n.ops : HasExpr(n.ops[i].f) /\ l = LiteralOf(n.ops[i].f)
  BY DEF LiteralsOf
<1>2. n.ops[i] \in NodeFormula /\ n.ops[i].f \in Formula
  BY FitOperands, OperandShape
<1>3. IsLiteral(n.ops[i].f)
  BY <1>1 DEF HasExpr, IsLiteral
<1> QED
  BY <1>1, <1>2, <1>3 DEF ToSet

LEMMA HeldLiterals ==
    ASSUME NEW n, FitNode(n), NEW sig \in Signal, LiteralsHold(sig, n)
    PROVE  Satisfied(LiteralsOf(n))
<1> DEFINE t == n.time
<1>1. t \in Int
  BY FitOperands
<1>2. ASSUME NEW l \in LiteralsOf(n)
      PROVE  l.var \in STRING /\ sig[t][l.var] \in l.vals
  <2>1. PICK o \in ToSet(n.ops) : o.f \in Formula /\ HasExpr(o.f) /\ IsLiteral(o.f) /\ l = LiteralOf(o.f)
    BY LiteralOperand
  <2>2. Holds(sig, t, o.f)
    BY <2>1 DEF LiteralsHold
  <2> HIDE DEF t
  <2> QED
    BY <1>1, <2>1, <2>2, LiteralHolds
<1> HIDE DEF t
<1>3. ASSUME NEW l \in LiteralsOf(n)
      PROVE  \E v \in Values(l.var) : \A k \in LiteralsOf(n) : k.var = l.var => v \in k.vals
  <2>1. sig[t][l.var] \in Values(l.var)
    BY <1>1, <1>2, ValueOfSignal
  <2> QED
    BY <1>2, <2>1
<1> QED
  BY <1>3 DEF Satisfied

\* The literals of a node hold in a signal whose values they allow.
LEMMA AllowedLiterals ==
    ASSUME NEW n, FitNode(n), NEW sig \in Signal, \A l \in LiteralsOf(n) : sig[n.time][l.var] \in l.vals
    PROVE  LiteralsHold(sig, n)
<1> DEFINE t == n.time
<1>1. t \in Int
  BY FitOperands
<1> SUFFICES ASSUME NEW o \in ToSet(n.ops), IsLiteral(o.f) PROVE Holds(sig, t, o.f)
  BY DEF LiteralsHold
<1>2. PICK i \in DOMAIN n.ops : o = n.ops[i]
  BY DEF ToSet
<1>3. o \in NodeFormula /\ Fit(o, t) /\ t \in Nat
  BY <1>2, FitOperands
<1> HIDE DEF t
<1>4. HasExpr(o.f) /\ o.f \in Formula
  BY <1>3, FitLiteral, OperandShape
<1>5. LiteralOf(o.f) \in LiteralsOf(n)
  BY <1>2, <1>4 DEF LiteralsOf
<1>6. Holds(sig, t, o.f) <=> sig[t][LiteralOf(o.f).var] \in LiteralOf(o.f).vals
  BY <1>1, <1>4, LiteralHolds
<1> QED
  BY <1>5, <1>6 DEF t

\* Literals that do not contradict one another hold in a signal whose later instants
\* are given.
LEMMA LiteralsExtend ==
    ASSUME NEW n, FitNode(n), Satisfied(LiteralsOf(n)), NEW sig \in Signal
    PROVE  \E other \in Signal : /\ LiteralsHold(other, n)
                                 /\ \A i \in Int : i > n.time => other[i] = sig[i]
<1> DEFINE t == n.time
           L == LiteralsOf(n)
           Choice(x, v) == v \in Values(x) /\ \A l \in L : l.var = x => v \in l.vals
           W(x) == CHOOSE v : Choice(x, v)
           val == [x \in STRING |-> W(x)]
           other == [sig EXCEPT ![t] = val]
<1>1. t \in Int
  BY FitOperands
<1>2. ASSUME NEW x \in STRING PROVE \E v : Choice(x, v)
  <2>1. CASE \E l \in L : l.var = x
    BY <2>1 DEF Satisfied
  <2>2. CASE ~\E l \in L : l.var = x
    BY <2>2, ValuesFacts
  <2> QED
    BY <2>1, <2>2
<1> HIDE DEF Choice
<1>3. \A x \in STRING : Choice(x, W(x))
  BY <1>2, Zenon
<1> HIDE DEF W
<1>4. \A x \in STRING : val[x] \in Values(x) /\ val[x] \in 0 .. 2 /\ \A l \in L : l.var = x => val[x] \in l.vals
  <2>1. \A x \in STRING : val[x] = W(x)
    OBVIOUS
  <2> HIDE DEF val
  <2> QED
    BY <1>3, <2>1, ValuesFacts DEF Choice
<1>5. val \in [STRING -> 0 .. 2]
  BY <1>4
<1> HIDE DEF val
<1>6. val \in Valuations(STRING)
  BY <1>4, <1>5 DEF Valuations
<1>7. other \in Signal /\ other[t] = val /\ \A i \in Int : i > t => other[i] = sig[i]
  BY <1>1, <1>6 DEF Signal
<1> HIDE DEF other
<1>8. LiteralsHold(other, n)
  <2>1. \A l \in L : l.var \in STRING
    BY LiteralOperand, LiteralHolds
  <2> SUFFICES \A l \in L : other[t][l.var] \in l.vals
    BY <1>7, AllowedLiterals
  <2> QED
    BY <1>4, <1>7, <2>1
<1> QED
  BY <1>7, <1>8

\* A temporal operand talks about the instants from the present one to its horizon.
LEMMA TemporalWindow ==
    ASSUME NEW o \in NodeFormula, NEW t \in Nat, Fit(o, t), IsTemporal(o.f), NEW sig, NEW other,
           \A i \in t .. Horizon[o.f] : \A x \in Vars[o.f] : sig[i][x] = other[i][x]
    PROVE  Asks(sig, o, t) <=> Asks(other, o, t)
<1> DEFINE J == Instants(o.f.int, From(o, t))
<1>1. o.f \in Formula /\ Coherent[o.f] /\ o.marked \in BOOLEAN
  BY OperandShape DEF Fit
<1>2. o.f.int \in Interval /\ \A g \in Operands(o.f) : g \in Formula /\ Coherent[g]
  BY <1>1, CoherentFacts
<1>3. \A i \in J : i \in Int /\ i >= t /\ i <= o.f.int.upper
  <2>1. From(o, t) \in Int /\ From(o, t) >= t
    BY <1>1 DEF From
  <2>2. o.f.int.lower \in Int /\ o.f.int.upper \in Int
    BY <1>2 DEF Interval
  <2>3. Greater(o.f.int.lower, From(o, t)) \in Int /\ Greater(o.f.int.lower, From(o, t)) >= t
    BY <2>1, <2>2 DEF Greater
  <2> QED
    BY <2>2, <2>3 DEF Instants
<1>4. ASSUME NEW g \in Operands(o.f), NEW i \in J
      PROVE  Holds(sig, i, g) <=> Holds(other, i, g)
  <2>1. g \in Formula /\ Coherent[g] /\ i \in Int /\ i >= t /\ i <= o.f.int.upper
    BY <1>2, <1>3
  <2>2. Horizon[g] \in Nat /\ Horizon[g] + o.f.int.upper <= Horizon[o.f] /\ Horizon[o.f] \in Nat
    <3>1. g \in Scope(o.f)
      BY DEF Scope, IsTemporal
    <3> QED
      BY <1>1, <2>1, <3>1, HorizonFacts
  <2>3. Vars[g] \subseteq Vars[o.f]
    <3>1. o.f.op # "prop"
      BY DEF IsTemporal
    <3> QED
      BY <1>1, <3>1, VarsFacts
  <2>4. o.f.int.upper \in Int
    BY <1>2 DEF Interval
  <2>5. \A j \in 0 .. Horizon[g] : i + j \in t .. Horizon[o.f]
    BY <2>1, <2>2, <2>4
  <2>6. Agree(g, sig, i, other, i)
    BY <2>3, <2>5 DEF Agree
  <2> QED
    BY <2>1, <2>6, Transfer
<1>5. t \in Int
  OBVIOUS
<1> HIDE DEF J
<1>6. CASE o.f.op = "G"
  <2>1. Asks(sig, o, t) <=> \A i \in J : Holds(sig, i, o.f.phi)
    BY <1>1, <1>5, <1>6, DemandsCases DEF Asks, J
  <2>2. Asks(other, o, t) <=> \A i \in J : Holds(other, i, o.f.phi)
    BY <1>1, <1>5, <1>6, DemandsCases DEF Asks, J
  <2>3. o.f.phi \in Operands(o.f)
    BY <1>6 DEF Operands
  <2> QED
    BY <1>4, <2>1, <2>2, <2>3
<1>7. CASE o.f.op = "F"
  <2>1. Asks(sig, o, t) <=> \E i \in J : Holds(sig, i, o.f.phi)
    BY <1>1, <1>5, <1>7, DemandsCases DEF Asks, J
  <2>2. Asks(other, o, t) <=> \E i \in J : Holds(other, i, o.f.phi)
    BY <1>1, <1>5, <1>7, DemandsCases DEF Asks, J
  <2>3. o.f.phi \in Operands(o.f)
    BY <1>7 DEF Operands
  <2> QED
    BY <1>4, <2>1, <2>2, <2>3
<1>8. CASE o.f.op = "U"
  <2>1. Asks(sig, o, t) <=> \E i \in J : /\ Holds(sig, i, o.f.right)
                                         /\ \A j \in J : j < i => Holds(sig, j, o.f.left)
    BY <1>1, <1>5, <1>8, DemandsCases DEF Asks, J
  <2>2. Asks(other, o, t) <=> \E i \in J : /\ Holds(other, i, o.f.right)
                                           /\ \A j \in J : j < i => Holds(other, j, o.f.left)
    BY <1>1, <1>5, <1>8, DemandsCases DEF Asks, J
  <2>3. o.f.left \in Operands(o.f) /\ o.f.right \in Operands(o.f)
    BY <1>8 DEF Operands
  <2> QED
    BY <1>4, <2>1, <2>2, <2>3
<1>9. CASE o.f.op = "R"
  <2>1. Asks(sig, o, t) <=> \A i \in J : \/ Holds(sig, i, o.f.right)
                                         \/ \E j \in J : j < i /\ Holds(sig, j, o.f.left)
    BY <1>1, <1>5, <1>9, DemandsCases DEF Asks, J
  <2>2. Asks(other, o, t) <=> \A i \in J : \/ Holds(other, i, o.f.right)
                                           \/ \E j \in J : j < i /\ Holds(other, j, o.f.left)
    BY <1>1, <1>5, <1>9, DemandsCases DEF Asks, J
  <2>3. o.f.left \in Operands(o.f) /\ o.f.right \in Operands(o.f)
    BY <1>9 DEF Operands
  <2> QED
    BY <1>4, <2>1, <2>2, <2>3
<1> QED
  BY <1>6, <1>7, <1>8, <1>9 DEF IsTemporal

\* What an operand asks depends on the present and the future.
LEMMA FutureOnly ==
    ASSUME NEW o \in NodeFormula, NEW t \in Nat, Fit(o, t), NEW sig, NEW other,
           \A i \in Int : i >= t => sig[i] = other[i]
    PROVE  Asks(sig, o, t) <=> Asks(other, o, t)
<1>1. ASSUME NEW g \in Formula, Coherent[g], NEW i \in Int, i >= t
      PROVE  Holds(sig, i, g) <=> Holds(other, i, g)
  <2>1. Horizon[g] \in Nat
    BY <1>1, HorizonFacts
  <2>2. \A j \in 0 .. Horizon[g] : i + j \in Int /\ i + j >= t
    BY <1>1, <2>1
  <2>3. Agree(g, sig, i, other, i)
    BY <2>2 DEF Agree
  <2> QED
    BY <1>1, <2>3, Transfer
<1>2. CASE ~IsTemporal(o.f)
  <2>1. PICK g \in Formula : Coherent[g] /\ \A s : Asks(s, o, t) <=> Holds(s, t, g)
    BY <1>2, FitExpansion
  <2>2. t \in Int /\ t >= t
    OBVIOUS
  <2> QED
    BY <1>1, <2>1, <2>2
<1>3. CASE IsTemporal(o.f)
  <2>1. \A i \in t .. Horizon[o.f] : i \in Int /\ i >= t
    <3>1. o.f \in Formula /\ Coherent[o.f]
      BY <1>3, OperandShape DEF Fit
    <3>2. Horizon[o.f] \in Nat
      BY <3>1, HorizonFacts
    <3> QED
      BY <3>2
  <2>2. \A i \in t .. Horizon[o.f] : sig[i] = other[i]
    BY <2>1
  <2> QED
    BY <1>3, <2>2, TemporalWindow
<1> QED
  BY <1>2, <1>3

----------------------------------------------------------------------------
(* Nodes that have a model *)
Satisfiable(n) == \E sig \in Signal : Models(sig, n)

LEMMA SomeSignal == Signal # {}
<1> DEFINE val == [x \in STRING |-> 1]
           sig == [i \in Int |-> val]
<1>1. val \in [STRING -> 0 .. 2]
  OBVIOUS
<1>2. val \in Valuations(STRING)
  BY <1>1, ValuesFacts DEF Valuations
<1> HIDE DEF val
<1>3. sig \in Signal
  BY <1>2 DEF Signal
<1> QED
  BY <1>3

\* What a node asks depends on the present and the future.
LEMMA ModelsFuture ==
    ASSUME NEW n, FitNode(n), NEW sig, NEW other, \A i \in Int : i >= n.time => sig[i] = other[i],
           Models(sig, n)
    PROVE  Models(other, n)
<1>1. AllAsk(sig, ToSet(n.ops), n.time)
  BY ModelsAsk
<1>2. ASSUME NEW o \in ToSet(n.ops) PROVE Asks(other, o, n.time)
  <2>1. Asks(sig, o, n.time)
    BY <1>1 DEF AllAsk
  <2>2. o \in NodeFormula /\ n.time \in Nat /\ Fit(o, n.time)
    BY FitOperands, NodeFacts DEF FitNode
  <2> QED
    BY <2>1, <2>2, FutureOnly
<1>3. AllAsk(other, ToSet(n.ops), n.time)
  BY <1>2 DEF AllAsk
<1> QED
  BY <1>3, ModelsAsk

\* A poised node leaves nothing to the rules that stay at an instant.
LEMMA PoisedSettled ==
    ASSUME NEW n, FitNode(n), IsPoised(n)
    PROVE  Settled(n)
<1> SUFFICES ASSUME NEW i \in DOMAIN n.ops
             PROVE  /\ n.ops[i].f.op \notin {"and", "or", "imply"}
                    /\ IsTemporal(n.ops[i].f) => ~Unexpanded(n.ops[i], n.time)
  BY DEF Settled
<1> DEFINE o == n.ops[i]
<1>1. IsLiteral(o.f) \/ o.marked \/ ~IsActive(o, n.time)
  BY DEF IsPoised
<1>2. ~IsTemporal(o.f) => ~o.marked
  BY FitOperands DEF Fit
<1> HIDE DEF o
<1>3. IsTemporal(o.f) => ~Unexpanded(o, n.time)
  BY <1>1 DEF IsLiteral, IsTemporal, IsActive, Unexpanded
<1>4. o.f.op \notin {"and", "or", "imply"}
  BY <1>1, <1>2 DEF IsLiteral, IsTemporal, IsActive
<1> QED
  BY <1>3, <1>4 DEF o

\* What follows a fit node is fit, simple nodes are made for SimpleFirst only, and what
\* does not stay at the instant opens the next one.
LEMMA KidsFit ==
    ASSUME ~FormulaOptimizations, ~JumpRuleEnabled, NEW n, FitNode(n), NEW k \in DOMAIN Decompose(n)
    PROVE  LET kid == Decompose(n)[k] IN
           /\ FitNode(kid) /\ (kid.simple => SimpleFirst)
           /\ kid.time = n.time \/ Opens(kid, n.time + 1)
<1> DEFINE kids == Decompose(n)
<1>1. kids # <<>> => \/ Faithful(n, kids)
                     \/ \E next : JumpsTo(n, kids, next)
  BY BranchRule
<1>2. k \in DOMAIN kids
  OBVIOUS
<1> HIDE DEF kids
<1>3. kids # <<>>
  BY <1>2
<1>4. CASE Faithful(n, kids)
  BY <1>2, <1>4 DEF Faithful, kids
<1>5. CASE \E next : JumpsTo(n, kids, next)
  <2>1. PICK next : JumpsTo(n, kids, next)
    BY <1>5
  <2>2. Opens(kids[k], n.time + 1) /\ (kids[k].simple => SimpleFirst)
    BY <1>2, <2>1 DEF JumpsTo
  <2> QED
    BY <2>2 DEF Opens, kids
<1> QED
  BY <1>1, <1>3, <1>4, <1>5

\* A node has a model iff its literals do not contradict one another and, unless
\* nothing follows it, one of its full children has a model.
LEMMA NodeModels ==
    ASSUME ~FormulaOptimizations, ~JumpRuleEnabled, NEW n, FitNode(n)
    PROVE  LET kids == Decompose(n) IN
           /\ \A k \in DOMAIN kids : ~kids[k].simple => FitNode(kids[k])
           /\ Satisfiable(n) <=>
                /\ Satisfied(LiteralsOf(n))
                /\ \/ kids = <<>>
                   \/ \E k \in DOMAIN kids : ~kids[k].simple /\ Satisfiable(kids[k])
<1> DEFINE kids == Decompose(n)
<1>1. /\ kids = <<>> => \A sig : Models(sig, n) <=> LiteralsHold(sig, n)
      /\ kids # <<>> => \/ Faithful(n, kids)
                        \/ \E next : JumpsTo(n, kids, next)
  BY BranchRule
<1> HIDE DEF kids
<1>2. Satisfiable(n) => Satisfied(LiteralsOf(n))
  BY ModelLiterals, HeldLiterals DEF Satisfiable
<1>3. CASE kids = <<>>
  <2>1. \A sig : Models(sig, n) <=> LiteralsHold(sig, n)
    BY <1>1, <1>3
  <2>2. Satisfied(LiteralsOf(n)) => Satisfiable(n)
    BY <2>1, SomeSignal, LiteralsExtend DEF Satisfiable
  <2>3. DOMAIN kids = {}
    BY <1>3
  <2> QED
    BY <1>2, <1>3, <2>2, <2>3 DEF kids
<1>4. CASE kids # <<>> /\ Faithful(n, kids)
  BY <1>2, <1>4 DEF kids, Faithful, Satisfiable
<1>5. CASE kids # <<>> /\ ~Faithful(n, kids)
  <2>1. PICK next : JumpsTo(n, kids, next)
    BY <1>1, <1>5
  <2>2. /\ FitNode(next) /\ ~next.simple /\ next.time = n.time + 1
        /\ \A sig : Models(sig, n) <=> LiteralsHold(sig, n) /\ Models(sig, next)
    BY <2>1 DEF JumpsTo, Opens
  <2>3. Satisfiable(n) => Satisfiable(next)
    BY <2>2 DEF Satisfiable
  <2>4. ASSUME Satisfied(LiteralsOf(n)), Satisfiable(next) PROVE Satisfiable(n)
    <3>1. PICK sig \in Signal : Models(sig, next)
      BY <2>4 DEF Satisfiable
    <3>2. PICK other \in Signal : /\ LiteralsHold(other, n)
                                  /\ \A i \in Int : i > n.time => other[i] = sig[i]
      BY <2>4, LiteralsExtend
    <3>3. \A i \in Int : i >= next.time => sig[i] = other[i]
      BY <2>2, <3>2, FitOperands
    <3>4. Models(other, next)
      BY <2>2, <3>1, <3>3, ModelsFuture
    <3> QED
      BY <2>2, <3>2, <3>4 DEF Satisfiable
  <2>5. /\ \A k \in DOMAIN kids : ~kids[k].simple => kids[k] = next
        /\ \E k \in DOMAIN kids : kids[k] = next
    BY <2>1 DEF JumpsTo
  <2>6. \A k \in DOMAIN kids : ~kids[k].simple => FitNode(kids[k])
    BY <2>2, <2>5
  <2>7. Satisfiable(next) <=> \E k \in DOMAIN kids : ~kids[k].simple /\ Satisfiable(kids[k])
    BY <2>2, <2>5
  <2> QED
    BY <1>2, <1>5, <2>3, <2>4, <2>6, <2>7 DEF kids
<1> QED
  BY <1>3, <1>4, <1>5

\* What the driver calls open has a model: by induction on the rank of the node
LEMMA OpenSatisfiable ==
    ASSUME ~FormulaOptimizations, ~JumpRuleEnabled
    PROVE  \A n \in Nodes : FitNode(NodeOf(n)) => (Open(n) <=> Satisfiable(NodeOf(n)))
<1> DEFINE Right(n) == FitNode(NodeOf(n)) => (Open(n) <=> Satisfiable(NodeOf(n)))
           K == {k \in Nat : \A n \in Nodes : Rank(n) < k => Right(n)}
<1>1. 0 \in K
  BY RankAssumption
<1>2. ASSUME NEW k \in Nat, k \in K PROVE k + 1 \in K
  <2> SUFFICES ASSUME NEW n \in Nodes, Rank(n) < k + 1, FitNode(NodeOf(n))
               PROVE  Open(n) <=> Satisfiable(NodeOf(n))
    OBVIOUS
  <2> DEFINE kids == Decompose(NodeOf(n))
             c == Children(n)
  <2>1. /\ \A i \in DOMAIN kids : ~kids[i].simple => FitNode(kids[i])
        /\ Satisfiable(NodeOf(n)) <=>
            /\ Satisfied(LiteralsOf(NodeOf(n)))
            /\ \/ kids = <<>>
               \/ \E i \in DOMAIN kids : ~kids[i].simple /\ Satisfiable(kids[i])
    BY NodeModels
  <2>2. /\ Leaf(n) <=> kids = <<>>
        /\ Consistent(Literals(n)) <=> Satisfied(LiteralsOf(NodeOf(n)))
    BY RulesAssumption
  <2>3. Open(n) => Consistent(Literals(n))
    BY DecomposeAssumption
  <2>4. CASE Leaf(n)
    <3>1. Consistent(Literals(n)) => Open(n)
      BY <2>4, DecomposeAssumption
    <3> QED
      BY <2>1, <2>2, <2>3, <2>4, <3>1
  <2>5. CASE ~Leaf(n)
    <3>1. Consistent(Literals(n)) => (Open(n) <=> \E i \in DOMAIN c : ~Simple(c[i]) /\ Open(c[i]))
      BY <2>5, DecomposeAssumption
    <3>2. kids = [i \in DOMAIN c |-> NodeOf(c[i])]
      BY <2>5, RulesAssumption
    <3>3. c \in Seq(Nodes)
      BY NodeAssumption
    <3> HIDE DEF kids, c
    <3>4. DOMAIN kids = DOMAIN c /\ \A i \in DOMAIN c : kids[i] = NodeOf(c[i]) /\ c[i] \in Nodes
      BY <3>2, <3>3
    <3>5. \A i \in DOMAIN c : kids[i].simple = Simple(c[i])
      BY <3>4, RulesAssumption
    <3>6. \A i \in DOMAIN c : Rank(c[i]) < k
      BY <2>5, <3>4, RankAssumption DEF c
    <3>7. \A i \in DOMAIN c : Right(c[i])
      BY <1>2, <3>4, <3>6
    <3>8. \A i \in DOMAIN c : ~Simple(c[i]) => (Open(c[i]) <=> Satisfiable(kids[i]))
      BY <2>1, <3>4, <3>5, <3>7
    <3>9. kids # <<>>
      BY <2>2, <2>5 DEF kids
    <3>10. (\E i \in DOMAIN c : ~Simple(c[i]) /\ Open(c[i]))
           <=> \E i \in DOMAIN kids : ~kids[i].simple /\ Satisfiable(kids[i])
      BY <3>4, <3>5, <3>8
    <3> QED
      BY <2>1, <2>2, <2>3, <3>1, <3>9, <3>10
  <2> QED
    BY <2>4, <2>5
<1>3. Nat \subseteq K
  <2> HIDE DEF K
  <2> QED
    BY <1>1, <1>2, NatSetInduction
<1> SUFFICES ASSUME NEW n \in Nodes PROVE Right(n)
  OBVIOUS
<1>4. Rank(n) \in Nat /\ Rank(n) + 1 \in K
  BY <1>3, RankAssumption
<1> HIDE DEF Right
<1> QED
  BY <1>4

----------------------------------------------------------------------------
(* Roots *)
LEMMA RootFacts ==
    ASSUME RootsCoherent, NEW r \in Roots
    PROVE  LET n == NodeOf(r) IN
           /\ n \in Node /\ n.time = 0 /\ ~n.simple
           /\ DOMAIN n.ops = 1 .. Len(n.ops) /\ Len(n.ops) \in Nat
           /\ \A i \in DOMAIN n.ops : /\ n.ops[i] \in NodeFormula /\ ~n.ops[i].marked
                                      /\ n.ops[i].f \in Formula /\ Coherent[n.ops[i].f]
<1> DEFINE n == NodeOf(r)
           fs == [i \in DOMAIN n.ops |-> n.ops[i].f]
           ops == [i \in DOMAIN fs |-> [Operand(fs[i], 0) EXCEPT !.id = i]]
<1>1. n = RootNode(fs) /\ fs \in Seq(Formula) /\ \A i \in DOMAIN fs : Coherent[fs[i]]
  BY DEF RootsCoherent
<1> HIDE DEF fs, n
<1>2. n = [ops |-> ops, time |-> 0, simple |-> FALSE]
  BY <1>1 DEF RootNode
<1>3. Len(fs) \in Nat /\ DOMAIN fs = 1 .. Len(fs) /\ \A i \in DOMAIN fs : fs[i] \in Formula
  BY <1>1
<1>4. ASSUME NEW i \in DOMAIN fs
      PROVE  LET o == [Operand(fs[i], 0) EXCEPT !.id = i]
             IN  o \in NodeFormula /\ ~o.marked /\ o.f = fs[i]
  <2> DEFINE q == Operand(fs[i], 0)
  <2>1. fs[i] \in Formula /\ i \in Int /\ 0 \in Int
    BY <1>3
  <2>2. q \in NodeFormula /\ q.f = fs[i] /\ ~q.marked
    BY <2>1, OperandType
  <2> HIDE DEF q
  <2>3. [q EXCEPT !.id = i] \in NodeFormula /\ ~[q EXCEPT !.id = i].marked /\ [q EXCEPT !.id = i].f = q.f
    BY <2>1, <2>2 DEF NodeFormula
  <2> QED
    BY <2>2, <2>3 DEF q
<1>5. ops \in Seq(NodeFormula) /\ Len(ops) = Len(fs) /\ DOMAIN ops = DOMAIN fs
  BY <1>3, <1>4
<1>6. \A i \in DOMAIN ops : ops[i] \in NodeFormula /\ ~ops[i].marked /\ ops[i].f = fs[i]
  BY <1>4
<1> HIDE DEF ops
<1>7. n \in Node /\ n.ops = ops /\ n.time = 0 /\ n.simple = FALSE
  BY <1>2, <1>5 DEF Node
<1>8. \A i \in DOMAIN n.ops : /\ n.ops[i] \in NodeFormula /\ ~n.ops[i].marked
                              /\ n.ops[i].f \in Formula /\ Coherent[n.ops[i].f]
  BY <1>1, <1>3, <1>5, <1>6, <1>7
<1> QED
  BY <1>3, <1>5, <1>7, <1>8 DEF n

LEMMA RootFit ==
    ASSUME RootsCoherent, NEW r \in Roots
    PROVE  FitNode(NodeOf(r))
<1> DEFINE n == NodeOf(r)
<1>1. /\ n \in Node /\ n.time = 0
      /\ \A i \in DOMAIN n.ops : ~n.ops[i].marked /\ n.ops[i].f \in Formula /\ Coherent[n.ops[i].f]
  BY RootFacts
<1> HIDE DEF n
<1>2. ASSUME NEW i \in DOMAIN n.ops PROVE Fit(n.ops[i], 0)
  <2> DEFINE f == n.ops[i].f
  <2>1. f \in Formula /\ Coherent[f] /\ ~n.ops[i].marked
    BY <1>1
  <2>2. CASE IsTemporal(f)
    <3>1. f.int \in Interval
      BY <2>1, <2>2, CoherentFacts
    <3>2. 0 <= f.int.upper
      BY <3>1 DEF Interval
    <3> QED
      BY <2>1, <2>2, <3>2 DEF Fit
  <2>3. CASE ~IsTemporal(f)
    <3>1. Expansion(f, 0) = f
      BY <2>1, ExpansionAtZero
    <3> QED
      BY <2>1, <2>3, <3>1 DEF Fit
  <2> QED
    BY <2>2, <2>3
<1> QED
  BY <1>1, <1>2 DEF FitNode, ToSet, n

\* A root asks of a signal that its formulas hold at the first instant.
LEMMA RootModels ==
    ASSUME RootsCoherent, NEW r \in Roots, NEW sig
    PROVE  LET n == NodeOf(r) IN
           Models(sig, n) <=> \A i \in DOMAIN n.ops : Holds(sig, 0, n.ops[i].f)
<1> DEFINE n == NodeOf(r)
<1>1. /\ n.time = 0
      /\ \A i \in DOMAIN n.ops : ~n.ops[i].marked /\ n.ops[i].f \in Formula /\ Coherent[n.ops[i].f]
  BY RootFacts
<1> HIDE DEF n
<1>2. ASSUME NEW i \in DOMAIN n.ops
      PROVE  Demands(sig, n.ops[i].f, n.time, IF n.ops[i].marked THEN n.time + 1 ELSE n.time)
             <=> Holds(sig, 0, n.ops[i].f)
  <2> DEFINE f == n.ops[i].f
  <2>1. f \in Formula /\ Coherent[f] /\ ~n.ops[i].marked
    BY <1>1
  <2> HIDE DEF f
  <2>2. 0 \in Int
    OBVIOUS
  <2>3. Demands(sig, Expansion(f, 0), 0, 0) <=> Holds(sig, 0, f)
    BY <2>1, <2>2, ExpansionDemands
  <2>4. Expansion(f, 0) = f
    BY <2>1, ExpansionAtZero
  <2> QED
    BY <1>1, <2>1, <2>3, <2>4 DEF f
<1> QED
  BY <1>2 DEF Models, n

\* The last instant and the variables that a node talks about
LEMMA NodeWindow ==
    ASSUME NEW n \in Node, \A i \in DOMAIN n.ops : Coherent[n.ops[i].f]
    PROVE  /\ End(n) \in Nat /\ n.time <= End(n) /\ NodeVars(n) \subseteq STRING
           /\ \A i \in DOMAIN n.ops : /\ Horizon[n.ops[i].f] \in Nat
                                      /\ Horizon[n.ops[i].f] <= End(n)
                                      /\ Vars[n.ops[i].f] \subseteq NodeVars(n)
<1> DEFINE h == [i \in DOMAIN n.ops |-> Horizon[n.ops[i].f]]
           T == {h[i] : i \in DOMAIN n.ops}
           S == {n.time} \cup {Horizon[n.ops[i].f] : i \in DOMAIN n.ops}
<1>1. /\ n.time \in Nat /\ DOMAIN n.ops = 1 .. Len(n.ops) /\ Len(n.ops) \in Nat
      /\ \A i \in DOMAIN n.ops : n.ops[i].f \in Formula /\ Coherent[n.ops[i].f]
  BY NodeFacts, OperandShape
<1>2. \A i \in DOMAIN n.ops : Horizon[n.ops[i].f] \in Nat
  BY <1>1, HorizonFacts
<1>3. IsFiniteSet(DOMAIN n.ops)
  <2>1. 1 \in Int /\ Len(n.ops) \in Int
    BY <1>1
  <2>2. IsFiniteSet(1 .. Len(n.ops))
    BY <2>1, FS_Interval
  <2> QED
    BY <1>1, <2>2
<1>4. S = {n.time} \cup T
  OBVIOUS
<1>5. IsFiniteSet(T)
  <2> HIDE DEF h
  <2> QED
    BY <1>3, ImageFinite
<1>6. IsFiniteSet(S)
  <2> HIDE DEF S, T
  <2>1. IsFiniteSet({n.time})
    BY FS_Singleton
  <2> QED
    BY <1>4, <1>5, <2>1, FS_Union
<1>7. S \in SUBSET Int /\ S # {} /\ S \subseteq Nat
  BY <1>1, <1>2
<1>8. Max(S) \in S /\ \A k \in S : Max(S) >= k
  <2> HIDE DEF S
  <2> QED
    BY <1>6, <1>7, MaxFact
<1>9. End(n) = Max(S)
  BY DEF End
<1>10. n.time \in S /\ \A i \in DOMAIN n.ops : Horizon[n.ops[i].f] \in S
  OBVIOUS
<1> HIDE DEF S
<1>11. /\ End(n) \in Nat /\ n.time <= End(n)
       /\ \A i \in DOMAIN n.ops : Horizon[n.ops[i].f] <= End(n)
  BY <1>1, <1>2, <1>7, <1>8, <1>9, <1>10
<1>12. \A i \in DOMAIN n.ops : Vars[n.ops[i].f] \subseteq NodeVars(n)
  BY DEF NodeVars
<1>13. NodeVars(n) \subseteq STRING
  BY <1>1, VarsType DEF NodeVars
<1> QED
  BY <1>2, <1>11, <1>12, <1>13

\* A signal over the window of a node is part of one over all instants and variables.
LEMMA Filled ==
    ASSUME NEW n \in Node, \A i \in DOMAIN n.ops : Coherent[n.ops[i].f], NEW sig \in Signals(n)
    PROVE  \E other \in Signal :
                \A i \in n.time .. End(n) : \A x \in NodeVars(n) : sig[i][x] = other[i][x]
<1> DEFINE I == n.time .. End(n)
           names == NodeVars(n)
           Fill(i, x) == IF i \in I /\ x \in names THEN sig[i][x] ELSE 1
           other == [i \in Int |-> [x \in STRING |-> Fill(i, x)]]
<1>1. I \subseteq Int /\ names \subseteq STRING
  BY NodeWindow
<1>2. sig \in [I -> Valuations(names)]
  BY DEF Signals
<1> HIDE DEF I, names
<1>3. ASSUME NEW i \in Int, NEW x \in STRING
      PROVE  Fill(i, x) \in Values(x) /\ Fill(i, x) \in 0 .. 2
  <2>1. CASE i \in I /\ x \in names
    <3>1. sig[i] \in Valuations(names)
      BY <1>2, <2>1
    <3>2. sig[i][x] \in Values(x)
      BY <2>1, <3>1 DEF Valuations
    <3> QED
      BY <2>1, <3>2, ValuesFacts
  <2>2. CASE ~(i \in I /\ x \in names)
    BY <2>2, ValuesFacts
  <2> QED
    BY <2>1, <2>2
<1>4. \A i \in I : \A x \in names : Fill(i, x) = sig[i][x] /\ i \in Int /\ x \in STRING
  BY <1>1
<1> HIDE DEF Fill
<1>5. ASSUME NEW i \in Int PROVE [x \in STRING |-> Fill(i, x)] \in Valuations(STRING)
  BY <1>3 DEF Valuations
<1>6. other \in Signal
  BY <1>5 DEF Signal
<1>7. \A i \in I : \A x \in names : sig[i][x] = other[i][x]
  BY <1>4
<1> QED
  BY <1>6, <1>7 DEF I, names

\* Of two signals that agree on the window of a root both are models or neither.
LEMMA RootAgree ==
    ASSUME RootsCoherent, NEW r \in Roots, NEW sig, NEW other, Models(sig, NodeOf(r)),
           \A i \in 0 .. End(NodeOf(r)) : \A x \in NodeVars(NodeOf(r)) : sig[i][x] = other[i][x]
    PROVE  Models(other, NodeOf(r))
<1> DEFINE n == NodeOf(r)
           e == End(n)
           names == NodeVars(n)
<1>1. /\ n \in Node
      /\ \A i \in DOMAIN n.ops : n.ops[i].f \in Formula /\ Coherent[n.ops[i].f]
  BY RootFacts
<1>2. \A s : Models(s, n) <=> \A i \in DOMAIN n.ops : Holds(s, 0, n.ops[i].f)
  BY RootModels
<1>3. \A i \in 0 .. e : \A x \in names : sig[i][x] = other[i][x]
  OBVIOUS
<1>4. Models(sig, n)
  OBVIOUS
<1> HIDE DEF n
<1>5. /\ e \in Nat
      /\ \A i \in DOMAIN n.ops : /\ Horizon[n.ops[i].f] \in Nat /\ Horizon[n.ops[i].f] <= e
                                 /\ Vars[n.ops[i].f] \subseteq names
  BY <1>1, NodeWindow
<1> HIDE DEF e, names
<1>6. ASSUME NEW k \in DOMAIN n.ops PROVE Holds(other, 0, n.ops[k].f)
  <2> DEFINE f == n.ops[k].f
  <2>1. /\ f \in Formula /\ Coherent[f] /\ Horizon[f] \in Nat /\ Horizon[f] <= e
        /\ Vars[f] \subseteq names /\ Holds(sig, 0, f)
    BY <1>1, <1>2, <1>4, <1>5
  <2> HIDE DEF f
  <2>2. \A i \in 0 .. Horizon[f] : i \in 0 .. e /\ 0 + i = i
    BY <1>5, <2>1
  <2>3. Agree(f, sig, 0, other, 0)
    BY <1>3, <2>1, <2>2 DEF Agree
  <2>4. 0 \in Int
    OBVIOUS
  <2>5. Holds(other, 0, f)
    BY <2>1, <2>3, <2>4, Transfer
  <2> QED
    BY <2>5 DEF f
<1>7. Models(other, n)
  BY <1>2, <1>6
<1> QED
  BY <1>7 DEF n

\* It makes no difference whether the models of a root are looked for among the
\* signals over all instants and variables, or among those over the window that the
\* root talks about.
LEMMA WindowSuffices ==
    ASSUME RootsCoherent, NEW r \in Roots
    PROVE  HasModel(NodeOf(r)) <=> Satisfiable(NodeOf(r))
<1> DEFINE n == NodeOf(r)
           e == End(n)
           names == NodeVars(n)
<1>1. n.time = 0 /\ n \in Node /\ \A i \in DOMAIN n.ops : Coherent[n.ops[i].f]
  BY RootFacts
<1>2. \A sig, other : /\ Models(sig, n)
                      /\ \A i \in 0 .. e : \A x \in names : sig[i][x] = other[i][x]
                      => Models(other, n)
  BY RootAgree
<1> HIDE DEF n
<1>3. e \in Nat /\ names \subseteq STRING
  BY <1>1, NodeWindow
<1>4. Signals(n) = [0 .. e -> Valuations(names)]
  BY <1>1 DEF Signals
<1>5. ASSUME NEW sig \in Signals(n), Models(sig, n)
      PROVE  Satisfiable(n)
  <2>1. PICK other \in Signal : \A i \in 0 .. e : \A x \in names : sig[i][x] = other[i][x]
    BY <1>1, Filled
  <2> QED
    BY <1>2, <1>5, <2>1 DEF Satisfiable
<1> HIDE DEF e, names
<1>6. ASSUME NEW sig \in Signal, Models(sig, n)
      PROVE  \E seen \in Signals(n) : Models(seen, n)
  <2> DEFINE seen == [i \in 0 .. e |-> [x \in names |-> sig[i][x]]]
  <2>1. ASSUME NEW i \in 0 .. e PROVE [x \in names |-> sig[i][x]] \in Valuations(names)
    <3>1. i \in Int
      OBVIOUS
    <3>2. \A x \in names : sig[i][x] \in Values(x) /\ sig[i][x] \in 0 .. 2
      BY <1>3, <3>1, ValueOfSignal
    <3> QED
      BY <3>2 DEF Valuations
  <2>2. seen \in Signals(n)
    BY <1>4, <2>1
  <2>3. \A i \in 0 .. e : \A x \in names : sig[i][x] = seen[i][x]
    OBVIOUS
  <2> HIDE DEF seen
  <2>4. Models(seen, n)
    BY <1>2, <1>6, <2>3
  <2> QED
    BY <2>2, <2>4
<1> QED
  BY <1>5, <1>6 DEF HasModel, Satisfiable, n

\* A node that opens an instant and has a model over its window has one.
LEMMA OpeningWindow ==
    ASSUME NEW n, NEW t, Opens(n, t), HasModel(n)
    PROVE  Satisfiable(n)
<1>1. /\ FitNode(n) /\ n.time = t
      /\ \A i \in DOMAIN n.ops : IsTemporal(n.ops[i].f) /\ ~n.ops[i].marked
  BY DEF Opens
<1>2. n \in Node /\ t \in Nat /\ \A i \in DOMAIN n.ops : n.ops[i] \in NodeFormula /\ Fit(n.ops[i], t)
  BY <1>1, FitOperands
<1>3. \A i \in DOMAIN n.ops : Coherent[n.ops[i].f]
  BY <1>1, <1>2 DEF Fit
<1> DEFINE e == End(n)
           names == NodeVars(n)
<1>4. /\ e \in Nat /\ names \subseteq STRING
      /\ \A i \in DOMAIN n.ops : /\ Horizon[n.ops[i].f] \in Nat /\ Horizon[n.ops[i].f] <= e
                                 /\ Vars[n.ops[i].f] \subseteq names
  BY <1>2, <1>3, NodeWindow
<1>5. PICK sig \in Signals(n) : Models(sig, n)
  BY DEF HasModel
<1>6. PICK other \in Signal : \A i \in t .. e : \A x \in names : sig[i][x] = other[i][x]
  BY <1>1, <1>2, <1>3, <1>5, Filled
<1> HIDE DEF e, names
<1>7. ASSUME NEW k \in DOMAIN n.ops PROVE Asks(sig, n.ops[k], t) => Asks(other, n.ops[k], t)
  <2> DEFINE o == n.ops[k]
  <2>1. /\ o \in NodeFormula /\ Fit(o, t) /\ IsTemporal(o.f)
        /\ Horizon[o.f] \in Nat /\ Horizon[o.f] <= e /\ Vars[o.f] \subseteq names
    BY <1>1, <1>2, <1>4
  <2> HIDE DEF o
  <2>2. \A i \in t .. Horizon[o.f] : i \in t .. e
    BY <1>2, <1>4, <2>1
  <2>3. \A i \in t .. Horizon[o.f] : \A x \in Vars[o.f] : sig[i][x] = other[i][x]
    BY <1>6, <2>1, <2>2
  <2>4. Asks(sig, o, t) <=> Asks(other, o, t)
    BY <1>2, <2>1, <2>3, TemporalWindow
  <2> QED
    BY <2>4 DEF o
<1>8. \A s : Models(s, n) <=> \A i \in DOMAIN n.ops : Asks(s, n.ops[i], t)
  BY <1>1, ModelsAsk DEF AllAsk, ToSet
<1>9. Models(other, n)
  BY <1>5, <1>7, <1>8
<1> QED
  BY <1>9 DEF Satisfiable

----------------------------------------------------------------------------
(* The answers *)

\* A run without rewriting and without the jump rule, from coherent formulas
Stepwise == ~FormulaOptimizations /\ ~JumpRuleEnabled /\ RootsCoherent

\* For a root the driver's notion of open and the meaning of the formula are the same.
LEMMA RootOpen ==
    ASSUME Stepwise, NEW r \in Roots
    PROVE  Open(r) <=> HasModel(NodeOf(r))
<1>1. r \in Nodes
  BY OptionsAssumption
<1>2. FitNode(NodeOf(r))
  BY RootFit DEF Stepwise
<1>3. Open(r) <=> Satisfiable(NodeOf(r))
  BY <1>1, <1>2, OpenSatisfiable DEF Stepwise
<1>4. HasModel(NodeOf(r)) <=> Satisfiable(NodeOf(r))
  BY WindowSuffices DEF Stepwise
<1> QED
  BY <1>3, <1>4

\* A "sat" answer is right: if the tableau is left to the branching rules, the formula
\* has a model over the instants and variables it talks about.
THEOREM SatIsModel == Stepwise => (Spec => []SatHasModel)
<1> SUFFICES ASSUME Stepwise PROVE Spec => []SatHasModel
  OBVIOUS
<1>1. TypeOK /\ SatSound => SatHasModel
  BY RootOpen DEF TypeOK, SatSound, SatHasModel, Root
<1> QED
  BY <1>1, TypeCorrect, SatCorrect, PTL

\* An "unsat" answer is right, unless a child was given up at max_depth, a simple
\* frame dropped siblings, or the memo store turned away a node that was open.
THEOREM UnsatIsNoModel == Stepwise => (Spec => []UnsatHasNoModel)
<1> SUFFICES ASSUME Stepwise PROVE Spec => []UnsatHasNoModel
  OBVIOUS
<1>1. TypeOK /\ UnsatSound => UnsatHasNoModel
  BY RootOpen DEF TypeOK, UnsatSound, UnsatHasNoModel, Root
<1>2. Spec => []UnsatSound
  BY UnsatCorrect
<1> QED
  BY <1>1, <1>2, TypeCorrect, PTL

----------------------------------------------------------------------------
(* What the driver meets *)

\* A child of a fit node is a fit node; it is simple for SimpleFirst only, and opens the
\* next instant unless it stays at the instant of its parent.
LEMMA ChildFit ==
    ASSUME Stepwise, NEW m \in Nodes, ~Leaf(m), FitNode(NodeOf(m)), NEW c, IsChild(c, m)
    PROVE  /\ c \in Nodes /\ FitNode(NodeOf(c)) /\ (Simple(c) => SimpleFirst)
           /\ Time(c) = Time(m) \/ Opens(NodeOf(c), Time(m) + 1)
<1> DEFINE kids == Decompose(NodeOf(m))
           C == Children(m)
<1>1. C \in Seq(Nodes)
  BY NodeAssumption
<1>2. PICK k \in DOMAIN C : c = C[k]
  BY DEF IsChild
<1>3. c \in Nodes
  BY <1>1, <1>2
<1>4. kids = [i \in DOMAIN C |-> NodeOf(C[i])] /\ Time(m) = NodeOf(m).time
  BY RulesAssumption
<1>5. k \in DOMAIN kids /\ kids[k] = NodeOf(c)
  BY <1>2, <1>4
<1>6. /\ FitNode(kids[k]) /\ (kids[k].simple => SimpleFirst)
      /\ kids[k].time = NodeOf(m).time \/ Opens(kids[k], NodeOf(m).time + 1)
  BY <1>5, KidsFit DEF Stepwise
<1>7. Time(c) = NodeOf(c).time /\ Simple(c) = NodeOf(c).simple
  BY <1>3, RulesAssumption
<1> QED
  BY <1>3, <1>4, <1>5, <1>6, <1>7

\* Every node on the stack is fit.
LEMMA StackFit ==
    ASSUME Stepwise, StructInv
    PROVE  \A i \in DOMAIN stack :
                /\ stack[i].node \in Nodes /\ ~Leaf(stack[i].node) /\ FitNode(NodeOf(stack[i].node))
                /\ Simple(stack[i].node) => SimpleFirst
<1> DEFINE n == Len(stack)
           Good(i) == /\ FitNode(NodeOf(stack[i].node))
                      /\ Simple(stack[i].node) => SimpleFirst
           S == {i \in 0 .. n : i = 0 \/ Good(i)}
<1>a. stack \in Seq(Frame)
  BY DEF StructInv, TypeOK
<1>b. n \in Nat /\ DOMAIN stack = 1 .. n /\ \A i \in 1 .. n : stack[i] \in Frame
  BY <1>a
<1>1. /\ n \in Nat /\ DOMAIN stack = 1 .. n
      /\ \A i \in 1 .. n : stack[i].node \in Nodes
  BY <1>b DEF Frame
<1>c. \A i \in 0 .. n : i # n =>
        /\ i + 1 \in 1 .. n /\ i + 1 \in 0 .. n
        /\ i # 0 => i \in 1 .. n /\ i + 1 > 1 /\ (i + 1) - 1 = i
  <2> HIDE DEF n
  <2> QED
    BY <1>b
<1>2. /\ n > 0 => stack[1].node = root
      /\ \A i \in 1 .. n : /\ ~Leaf(stack[i].node)
                           /\ i > 1 => IsChild(stack[i].node, stack[i - 1].node)
  BY <1>1 DEF StructInv, BranchOK
<1>3. root \in Roots
  BY DEF StructInv, TypeOK
<1>4. FitNode(NodeOf(root)) /\ ~Simple(root)
  BY <1>3, RootFit, DecomposeAssumption DEF Stepwise
<1>5. 0 \in S
  BY <1>1
<1>6. ASSUME NEW i \in 0 .. n, i # n, i \in S PROVE i + 1 \in S
  <2>1. i + 1 \in 1 .. n /\ i + 1 \in 0 .. n
    BY <1>c, <1>6
  <2>2. CASE i = 0
    <3>1. Good(1)
      BY <1>1, <1>2, <1>4, <1>6, <2>2
    <3> QED
      BY <2>1, <2>2, <3>1
  <2>3. CASE i # 0
    <3>1. i \in 1 .. n /\ i + 1 > 1 /\ (i + 1) - 1 = i
      BY <1>c, <1>6, <2>3
    <3>2. IsChild(stack[i + 1].node, stack[i].node) /\ ~Leaf(stack[i].node) /\ stack[i].node \in Nodes
      BY <1>1, <1>2, <2>1, <3>1
    <3>3. FitNode(NodeOf(stack[i].node))
      BY <1>6, <2>3
    <3>4. Good(i + 1)
      BY <3>2, <3>3, ChildFit
    <3> QED
      BY <2>1, <3>4
  <2> QED
    BY <2>2, <2>3
<1>7. 0 .. n \subseteq S
  <2> HIDE DEF S, n
  <2> QED
    BY <1>1, <1>5, <1>6, IntervalInduction
<1>8. \A i \in 1 .. n : i \in 0 .. n /\ i # 0
  BY <1>1
<1>9. \A i \in 1 .. n : Good(i)
  BY <1>7, <1>8
<1> QED
  BY <1>1, <1>2, <1>9

\* Without SimpleFirst there are no simple frames, so none drops siblings.
LEMMA NothingSkipped ==
    ASSUME Stepwise, ~SimpleFirst, StructInv, ~skipped, [Next]_vars
    PROVE  ~skipped'
<1>1. ASSUME HasChild PROVE ~Simple(Top.node)
  <2>1. Len(stack) \in DOMAIN stack
    BY <1>1 DEF HasChild, StructInv, TypeOK
  <2> QED
    BY <2>1, StackFit DEF Top
<1>2. ASSUME HasChild, SettleUnsat PROVE ~skipped'
  BY <1>1, <1>2 DEF SettleUnsat
<1>3. CASE ChildInconsistent
  BY <1>2, <1>3 DEF ChildInconsistent, WithinDepth
<1>4. CASE ChildMemoized
  BY <1>2, <1>4 DEF ChildMemoized, WithinDepth
<1>5. CASE RootRejected \/ RootLeaf \/ RootOpened \/ FinishRoot \/ PropagateSat \/ PropagateSimpleSat
  BY <1>5 DEF RootRejected, RootLeaf, RootOpened, FinishRoot, PropagateSat, PropagateSimpleSat
<1>6. CASE PropagateUnsat \/ PropagateUndefined \/ ChildCut \/ ChildLeaf \/ ChildOpened
  BY <1>6 DEF PropagateUnsat, PropagateUndefined, ChildCut, ChildLeaf, ChildOpened
<1>7. CASE UNCHANGED vars
  BY <1>7 DEF vars
<1> QED
  BY <1>3, <1>4, <1>5, <1>6, <1>7 DEF Next, Returned

\* Without memoization no node is turned away.
LEMMA NothingMisled ==
    ASSUME ~Memoization, ~misled, [Next]_vars
    PROVE  ~misled'
<1>1. CASE ChildMemoized
  BY <1>1 DEF ChildMemoized, Memoized
<1>2. CASE RootRejected \/ RootLeaf \/ RootOpened \/ FinishRoot \/ PropagateSat \/ PropagateSimpleSat
  BY <1>2 DEF RootRejected, RootLeaf, RootOpened, FinishRoot, PropagateSat, PropagateSimpleSat
<1>3. CASE PropagateUnsat \/ PropagateUndefined \/ ChildCut
  BY <1>3 DEF PropagateUnsat, PropagateUndefined, ChildCut
<1>4. CASE ChildInconsistent \/ ChildLeaf \/ ChildOpened
  BY <1>4 DEF ChildInconsistent, ChildLeaf, ChildOpened
<1>5. CASE UNCHANGED vars
  BY <1>5 DEF vars
<1> QED
  BY <1>1, <1>2, <1>3, <1>4, <1>5 DEF Next, Returned

\* Without simple nodes and without memoization an "unsat" answer is right unless a
\* child was given up at max_depth, which README.md documents.
THEOREM PlainUnsatIsRight == Stepwise /\ ~SimpleFirst /\ ~Memoization => (Spec => []UnsatIsRight)
<1> SUFFICES ASSUME Stepwise, ~SimpleFirst, ~Memoization PROVE Spec => []UnsatIsRight
  OBVIOUS
<1>1. Init => ~skipped /\ ~misled
  BY DEF Init
<1>2. StructInv /\ ~skipped /\ ~misled /\ [Next]_vars => ~skipped' /\ ~misled'
  BY NothingSkipped, NothingMisled
<1>3. Spec => [](~skipped /\ ~misled)
  BY <1>1, <1>2, Structure, PTL DEF Spec
<1>4. Spec => []UnsatHasNoModel
  BY UnsatIsNoModel
<1>5. UnsatHasNoModel /\ ~skipped /\ ~misled => UnsatIsRight
  BY DEF UnsatHasNoModel, UnsatIsRight, Untroubled
<1> QED
  BY <1>3, <1>4, <1>5, PTL

\* What is memoized opens an instant.
StoreOpens == \A n \in store : Opens(NodeOf(n), Time(n))

LEMMA StoreOpensStep ==
    ASSUME Stepwise, StructInv, StoreOpens, [Next]_vars
    PROVE  StoreOpens'
<1>1. CASE PropagateUnsat
  <2>1. /\ Finished /\ Len(stack) > 1
        /\ store' = IF Memoization /\ Time(Parent.node) < Time(Top.node) /\ ~Rejected(Top.node)
                    THEN store \cup {Top.node}
                    ELSE store
    BY <1>1 DEF PropagateUnsat
  <2>a. Len(stack) \in Nat /\ DOMAIN stack = 1 .. Len(stack)
    BY DEF StructInv, TypeOK
  <2>2. /\ Len(stack) \in DOMAIN stack /\ Len(stack) - 1 \in DOMAIN stack
        /\ Top = stack[Len(stack)] /\ Parent = stack[Len(stack) - 1]
    BY <2>1, <2>a DEF Top, Parent
  <2>3. IsChild(Top.node, Parent.node)
    BY <2>1, <2>2 DEF StructInv, BranchOK
  <2>4. /\ Parent.node \in Nodes /\ ~Leaf(Parent.node) /\ FitNode(NodeOf(Parent.node))
        /\ Top.node \in Nodes
    BY <2>2, StackFit
  <2>5. Time(Top.node) = Time(Parent.node) \/ Opens(NodeOf(Top.node), Time(Parent.node) + 1)
    BY <2>3, <2>4, ChildFit
  <2>6. Time(Top.node) = NodeOf(Top.node).time /\ Time(Parent.node) \in Nat
    BY <2>4, RulesAssumption, NodeAssumption
  <2>7. Time(Parent.node) < Time(Top.node) => Opens(NodeOf(Top.node), Time(Top.node))
    BY <2>5, <2>6 DEF Opens
  <2> QED
    BY <2>1, <2>7 DEF StoreOpens
<1>2. CASE RootRejected \/ RootLeaf \/ RootOpened \/ FinishRoot \/ PropagateSat \/ PropagateSimpleSat
  BY <1>2 DEF RootRejected, RootLeaf, RootOpened, FinishRoot, PropagateSat, PropagateSimpleSat, StoreOpens
<1>3. CASE PropagateUndefined \/ ChildCut \/ ChildInconsistent \/ ChildMemoized
  BY <1>3 DEF PropagateUndefined, ChildCut, ChildInconsistent, ChildMemoized, StoreOpens
<1>4. CASE ChildLeaf \/ ChildOpened \/ UNCHANGED vars
  BY <1>4 DEF ChildLeaf, ChildOpened, vars, StoreOpens
<1> QED
  BY <1>1, <1>2, <1>3, <1>4 DEF Next, Returned

\* No memoized node has a model, unless a child was given up, siblings were dropped
\* or an open node was turned away before: what propagate_result stores on account of
\* the children that it saw fail never was the last hope.
THEOREM StoreIsClosed == Stepwise => (Spec => []StoreHasNoModel)
<1> SUFFICES ASSUME Stepwise PROVE Spec => []StoreHasNoModel
  OBVIOUS
<1>1. Init => StoreOpens
  BY DEF Init, StoreOpens
<1>2. StructInv /\ StoreOpens /\ [Next]_vars => StoreOpens'
  BY StoreOpensStep
<1>3. Spec => []StoreSound
  BY StoreCorrect
<1>4. ASSUME NEW n \in Nodes, Opens(NodeOf(n), Time(n)), ~Open(n) PROVE ~HasModel(NodeOf(n))
  <2>1. FitNode(NodeOf(n))
    BY <1>4 DEF Opens
  <2>2. ~Satisfiable(NodeOf(n))
    BY <1>4, <2>1, OpenSatisfiable DEF Stepwise
  <2> QED
    BY <1>4, <2>2, OpeningWindow
<1>5. TypeOK /\ StoreOpens /\ StoreSound => StoreHasNoModel
  BY <1>4 DEF TypeOK, StoreOpens, StoreSound, StoreHasNoModel
<1> QED
  BY <1>1, <1>2, <1>3, <1>5, Structure, TypeCorrect, PTL DEF Spec

----------------------------------------------------------------------------
(* The trace *)

\* How the models of a node are those of its full children: what is not poised asks
\* nothing but its children, what is poised also its literals.
LEMMA BranchModels ==
    ASSUME Stepwise, NEW m \in Nodes, FitNode(NodeOf(m)), NEW sig \in Signal,
           Poised(m) => LiteralsHold(sig, NodeOf(m)),
           \/ Leaf(m)
           \/ ~Leaf(m) /\ \E c : IsChild(c, m) /\ ~Simple(c) /\ Models(sig, NodeOf(c))
    PROVE  Models(sig, NodeOf(m))
<1> DEFINE kids == Decompose(NodeOf(m))
           C == Children(m)
<1>1. /\ kids = <<>> => \A s : Models(s, NodeOf(m)) <=> LiteralsHold(s, NodeOf(m))
      /\ kids # <<>> => \/ Faithful(NodeOf(m), kids)
                        \/ \E next : JumpsTo(NodeOf(m), kids, next)
  BY BranchRule DEF Stepwise
<1>2. Leaf(m) <=> kids = <<>>
  BY RulesAssumption
<1>3. CASE Leaf(m)
  <2>1. Poised(m)
    BY <1>3, DecomposeAssumption
  <2> QED
    BY <1>1, <1>2, <1>3, <2>1
<1>4. CASE ~Leaf(m)
  <2>1. PICK c : IsChild(c, m) /\ ~Simple(c) /\ Models(sig, NodeOf(c))
    BY <1>4
  <2>2. PICK k \in DOMAIN C : c = C[k]
    BY <2>1 DEF IsChild
  <2>3. c \in Nodes
    BY <2>2, NodeAssumption
  <2>4. kids = [i \in DOMAIN C |-> NodeOf(C[i])]
    BY <1>4, RulesAssumption
  <2>5. Time(m) = NodeOf(m).time /\ Time(c) = NodeOf(c).time /\ Simple(c) = NodeOf(c).simple
    BY <2>3, RulesAssumption
  <2> HIDE DEF kids
  <2>6. k \in DOMAIN kids /\ kids[k] = NodeOf(c)
    BY <2>2, <2>4
  <2>7. CASE Faithful(NodeOf(m), kids)
    <3>1. Models(sig, kids[k])
      BY <2>1, <2>6
    <3> QED
      BY <2>6, <2>7, <3>1 DEF Faithful
  <2>8. CASE \E next : JumpsTo(NodeOf(m), kids, next)
    <3>1. PICK next : JumpsTo(NodeOf(m), kids, next)
      BY <2>8
    <3>2. kids[k] = next /\ Opens(kids[k], NodeOf(m).time + 1)
      BY <2>1, <2>5, <2>6, <3>1 DEF JumpsTo
    <3>3. Time(c) = Time(m) + 1 /\ Time(m) \in Nat
      BY <2>5, <2>6, <3>2, NodeAssumption DEF Opens
    <3>4. Poised(m)
      BY <1>4, <2>2, <3>3, BranchAssumption
    <3> QED
      BY <2>1, <2>6, <3>1, <3>2, <3>4 DEF JumpsTo
  <2> QED
    BY <1>1, <1>2, <1>4, <2>7, <2>8 DEF kids
<1> QED
  BY <1>3, <1>4

\* The rules do not stay at the instant of a poised node.
LEMMA PoisedNext ==
    ASSUME Stepwise, NEW m \in Nodes, ~Leaf(m), FitNode(NodeOf(m)), Poised(m), NEW c, IsChild(c, m)
    PROVE  Time(c) = Time(m) + 1
<1> DEFINE kids == Decompose(NodeOf(m))
           C == Children(m)
<1>1. IsPoised(NodeOf(m)) /\ kids # <<>> /\ kids = [i \in DOMAIN C |-> NodeOf(C[i])]
  BY RulesAssumption
<1>2. Settled(NodeOf(m))
  BY <1>1, PoisedSettled
<1>3. kids = DecomposeJump(NodeOf(m))
  BY <1>2, BranchRule DEF Stepwise
<1>4. PICK next : JumpsTo(NodeOf(m), kids, next)
  BY <1>1, <1>2, <1>3, JumpRule DEF Stepwise
<1>5. PICK k \in DOMAIN C : c = C[k]
  BY DEF IsChild
<1>6. c \in Nodes
  BY <1>5, NodeAssumption
<1> HIDE DEF kids
<1>7. k \in DOMAIN kids /\ kids[k] = NodeOf(c)
  BY <1>1, <1>5
<1>8. Opens(NodeOf(c), NodeOf(m).time + 1)
  BY <1>4, <1>7 DEF JumpsTo
<1>9. Time(m) = NodeOf(m).time /\ Time(c) = NodeOf(c).time
  BY <1>6, RulesAssumption
<1> QED
  BY <1>8, <1>9 DEF Opens

TraceHolds(sig, t) == \A i \in DOMAIN t : LiteralsHold(sig, NodeOf(t[i]))

\* A stretch of fit nodes that ends in its only leaf
FitStretch(t) ==
    /\ \A i \in DOMAIN t : FitNode(NodeOf(t[i]))
    /\ \A i \in 1 .. Len(t) - 1 : ~Leaf(t[i])

\* What satisfies the literals of the trace is a model of what the trace lies under.
TraceModels ==
    /\ Returning =>
        /\ FitStretch(trace)
        /\ \A sig \in Signal : TraceHolds(sig, trace) =>
                \E c : /\ IsChild(c, stack[Len(stack)].node) /\ ~Simple(c)
                       /\ Models(sig, NodeOf(c))
    /\ verdict = "sat" =>
        /\ FitStretch(trace)
        /\ \A sig \in Signal : TraceHolds(sig, trace) => Models(sig, NodeOf(root))

\* A node that is not a leaf, put in front of a trace
LEMMA FitLengthened ==
    ASSUME NEW t \in Seq(Nodes), FitStretch(t), t # <<>>, NEW n \in Nodes, ~Leaf(n), FitNode(NodeOf(n)),
           NEW u, u = <<n>> \o t
    PROVE  /\ FitStretch(u)
           /\ \A sig : TraceHolds(sig, u) => TraceHolds(sig, t) /\ LiteralsHold(sig, NodeOf(n))
<1>1. PICK k \in Nat : k = Len(t)
  OBVIOUS
<1>2. /\ Len(u) = k + 1 /\ DOMAIN u = 1 .. k + 1 /\ DOMAIN t = 1 .. k
      /\ u[1] = n
      /\ \A i \in 1 .. k : u[i + 1] = t[i]
  BY <1>1
<1>3. /\ \A i \in 1 .. k + 1 : i = 1 \/ (i - 1 \in 1 .. k /\ i = (i - 1) + 1)
      /\ \A i \in 1 .. k : i + 1 \in 1 .. k + 1
      /\ 1 \in 1 .. k + 1
      /\ \A i \in 1 .. (k + 1) - 1 : i = 1 \/ (i - 1 \in 1 .. k - 1 /\ i - 1 \in 1 .. k /\ i = (i - 1) + 1)
  OBVIOUS
<1>4. ASSUME NEW i \in 1 .. k + 1 PROVE FitNode(NodeOf(u[i]))
  <2>1. CASE i = 1
    BY <1>2, <2>1
  <2>2. CASE i # 1
    <3>1. i - 1 \in 1 .. k /\ i = (i - 1) + 1
      BY <1>3, <2>2
    <3>2. u[i] = t[i - 1]
      BY <1>2, <3>1
    <3> QED
      BY <1>2, <3>1, <3>2 DEF FitStretch
  <2> QED
    BY <2>1, <2>2
<1>5. \A i \in 1 .. (k + 1) - 1 : ~Leaf(u[i])
  BY <1>1, <1>2, <1>3 DEF FitStretch
<1>6. ASSUME NEW sig, TraceHolds(sig, u) PROVE TraceHolds(sig, t) /\ LiteralsHold(sig, NodeOf(n))
  BY <1>2, <1>3, <1>6 DEF TraceHolds
<1> QED
  BY <1>2, <1>4, <1>5, <1>6 DEF FitStretch

\* A leaf alone
LEMMA FitLeaf ==
    ASSUME Stepwise, NEW n \in Nodes, Leaf(n), FitNode(NodeOf(n)), NEW u, u = <<n>>
    PROVE  /\ FitStretch(u)
           /\ \A sig \in Signal : TraceHolds(sig, u) => Models(sig, NodeOf(n))
<1>1. Len(u) = 1 /\ DOMAIN u = 1 .. 1 /\ u[1] = n
  OBVIOUS
<1>2. \A i \in 1 .. 1 : i = 1
  OBVIOUS
<1>3. \A i \in 1 .. 1 - 1 : FALSE
  OBVIOUS
<1>4. FitStretch(u)
  BY <1>1, <1>2, <1>3 DEF FitStretch
<1>5. ASSUME NEW sig \in Signal, TraceHolds(sig, u) PROVE Models(sig, NodeOf(n))
  <2>1. 1 \in DOMAIN u
    BY <1>1
  <2>2. LiteralsHold(sig, NodeOf(n))
    BY <1>1, <1>5, <2>1 DEF TraceHolds
  <2> QED
    BY <2>2, BranchModels
<1> QED
  BY <1>4, <1>5

\* What a finished satisfiable frame passes on
LEMMA ModelsOfFrame ==
    ASSUME Stepwise, NEW n \in Nodes, ~Leaf(n), FitNode(NodeOf(n)),
           NEW t \in Seq(Nodes), t # <<>>, FitStretch(t),
           \A sig \in Signal : TraceHolds(sig, t) =>
                \E c : IsChild(c, n) /\ ~Simple(c) /\ Models(sig, NodeOf(c)),
           NEW u, u = IF Poised(n) THEN <<n>> \o t ELSE t
    PROVE  /\ FitStretch(u)
           /\ \A sig \in Signal : TraceHolds(sig, u) => Models(sig, NodeOf(n))
<1>1. CASE Poised(n)
  <2>1. u = <<n>> \o t
    BY <1>1
  <2>2. /\ FitStretch(u)
        /\ \A sig : TraceHolds(sig, u) => TraceHolds(sig, t) /\ LiteralsHold(sig, NodeOf(n))
    BY <2>1, FitLengthened
  <2>3. ASSUME NEW sig \in Signal, TraceHolds(sig, u) PROVE Models(sig, NodeOf(n))
    <3>1. TraceHolds(sig, t) /\ LiteralsHold(sig, NodeOf(n))
      BY <2>2, <2>3
    <3>2. \E c : IsChild(c, n) /\ ~Simple(c) /\ Models(sig, NodeOf(c))
      BY <3>1
    <3> QED
      BY <3>1, <3>2, BranchModels
  <2> QED
    BY <2>2, <2>3
<1>2. CASE ~Poised(n)
  BY <1>2, BranchModels
<1> QED
  BY <1>1, <1>2

\* The trace grows by what its frame passes on; a simple node's is thrown away.
LEMMA TraceModelsStep ==
    ASSUME Stepwise, StructInv, SatDone, TraceInv, TraceModels, [Next]_vars
    PROVE  TraceModels'
<1> DEFINE n == Len(stack)
<1>0. TypeOK /\ trace \in Seq(Nodes) /\ root \in Roots /\ root \in Nodes /\ FitNode(NodeOf(root))
  BY OptionsAssumption, RootFit DEF StructInv, TypeOK, Stepwise
<1>a. ASSUME HasChild PROVE ~Returning /\ trace = <<>> /\ verdict = "none" /\ n \in DOMAIN stack
  <2>1. n \in DOMAIN stack /\ stack[n].children # <<>>
    BY <1>0, <1>a DEF HasChild, TypeOK, Top
  <2>2. ~Returning
    BY <2>1 DEF SatDone, Returning
  <2> QED
    BY <1>a, <2>1, <2>2 DEF TraceInv, HasChild
<1>b. ASSUME Finished
      PROVE  /\ n \in Nat \ {0} /\ n \in DOMAIN stack /\ Top = stack[n]
             /\ verdict = "none"
             /\ Top.node \in Nodes /\ ~Leaf(Top.node) /\ FitNode(NodeOf(Top.node))
             /\ Top.result = "sat" <=> Returning
  <2>1. n \in Nat \ {0} /\ n \in DOMAIN stack /\ Top = stack[n]
    BY <1>0, <1>b DEF Finished, OutOfChildren, TypeOK, Top
  <2>2. Top.node \in Nodes /\ ~Leaf(Top.node) /\ FitNode(NodeOf(Top.node))
    BY <2>1, StackFit
  <2>3. stack # <<>> /\ verdict = "none"
    BY <1>b, <2>1 DEF Finished, OutOfChildren
  <2> QED
    BY <2>1, <2>2, <2>3 DEF Returning
\* What the front frame passes on
<1>c. ASSUME Finished, Top.result = "sat",
             trace' = IF Poised(Top.node) THEN <<Top.node>> \o trace ELSE trace
      PROVE  /\ FitStretch(trace')
             /\ \A sig \in Signal : TraceHolds(sig, trace') => Models(sig, NodeOf(Top.node))
  <2>1. /\ FitStretch(trace)
        /\ \A sig \in Signal : TraceHolds(sig, trace) =>
                \E c : IsChild(c, Top.node) /\ ~Simple(c) /\ Models(sig, NodeOf(c))
    BY <1>b, <1>c DEF TraceModels
  <2>2. trace # <<>>
    BY <1>b, <1>c DEF TraceInv, Stretch
  <2> QED
    BY <1>0, <1>b, <1>c, <2>1, <2>2, ModelsOfFrame
<1>1. CASE UNCHANGED vars
  BY <1>1 DEF vars, TraceModels, Returning
<1>2. CASE RootRejected
  BY <1>2 DEF RootRejected, TraceModels, Returning
<1>3. CASE RootLeaf
  <2>1. trace' = <<root>> /\ verdict' = "sat" /\ root' = root /\ Leaf(root)
    BY <1>3 DEF RootLeaf
  <2>2. /\ FitStretch(trace')
        /\ \A sig \in Signal : TraceHolds(sig, trace') => Models(sig, NodeOf(root))
    BY <1>0, <2>1, FitLeaf
  <2> QED
    BY <2>1, <2>2 DEF TraceModels, Returning
<1>4. CASE RootOpened
  <2>1. /\ Len(stack') = 1 /\ stack'[1].result = None /\ verdict' = "none"
    BY <1>4 DEF RootOpened, NewFrame, NotStarted
  <2> QED
    BY <2>1 DEF TraceModels, Returning, None
<1>5. CASE FinishRoot
  <2>1. /\ Finished /\ n = 1
        /\ verdict' = AnswerOf(Top.result)
        /\ trace' = IF Top.result = "sat" /\ Poised(Top.node) THEN <<Top.node>> \o trace ELSE trace
        /\ root' = root
    BY <1>5 DEF FinishRoot
  <2>2. Top.node = root
    BY <1>b, <2>1 DEF StructInv, BranchOK
  <2>3. Top.result \in JobState
    BY <1>0, <1>b, <2>1, TopType DEF Finished, Result
  <2>4. verdict' # "none" /\ (verdict' = "sat" => Top.result = "sat")
    BY <2>1, <2>3 DEF AnswerOf, JobState
  <2>5. ASSUME Top.result = "sat"
        PROVE  /\ FitStretch(trace')
               /\ \A sig \in Signal : TraceHolds(sig, trace') => Models(sig, NodeOf(root))
    <3>1. trace' = IF Poised(Top.node) THEN <<Top.node>> \o trace ELSE trace
      BY <2>1, <2>5
    <3> QED
      BY <1>c, <2>1, <2>2, <2>5, <3>1
  <2> QED
    BY <2>1, <2>4, <2>5 DEF TraceModels, Returning
<1>6. CASE Settles
  <2>1. HasChild /\ root' = root /\ verdict' = verdict
    BY <1>6 DEF Settles
  <2>2. n \in Nat \ {0} /\ Child \in Nodes /\ Top.node \in Nodes
        /\ IsChild(Child, Top.node) /\ (Simple(Child) => ~Leaf(Child))
    BY <1>0, <1>a, <2>1, ChildFacts DEF TypeOK
  <2>3. FitNode(NodeOf(Child))
    <3>1. ~Leaf(Top.node) /\ FitNode(NodeOf(Top.node))
      BY <1>a, <2>1, StackFit DEF Top
    <3> QED
      BY <2>2, <3>1, ChildFit
  <2>4. ASSUME ChildCut \/ ChildInconsistent \/ ChildMemoized PROVE TraceModels'
    <3>1. PICK ch \in Seq(Nodes), r \in Result : Settle(ch, r) /\ r # "sat"
      <4>1. /\ Siblings \in Seq(Nodes) /\ <<>> \in Seq(Nodes)
            /\ "undefined" \in Result /\ "unsat" \in Result
        BY <1>0, <1>a, <2>1, TopType, EmptyStack DEF HasChild, Result, JobState
      <4>2. \/ Settle(Siblings, "undefined")
            \/ Settle(Siblings, "unsat")
            \/ Settle(<<>>, "unsat")
        BY <2>4 DEF ChildCut, ChildInconsistent, ChildMemoized, SettleUnsat
      <4> QED
        BY <4>1, <4>2
    <3>2. stack'[n].result = r /\ Len(stack') = n
      BY <1>0, <2>1, <3>1, SettleFields, SettleShape
    <3> QED
      BY <1>a, <2>1, <3>1, <3>2 DEF TraceModels, Returning
  <2>5. ASSUME ChildLeaf PROVE TraceModels'
    <3>1. Leaf(Child) /\ trace' = <<Child>> \o trace
      BY <2>5 DEF ChildLeaf
    <3>2. ~Simple(Child) /\ Settle(<<>>, "sat")
      BY <2>2, <2>5, <3>1 DEF ChildLeaf
    <3>3. trace' = <<Child>>
      BY <1>a, <2>1, <2>2, <3>1
    <3>4. /\ FitStretch(trace')
          /\ \A sig \in Signal : TraceHolds(sig, trace') => Models(sig, NodeOf(Child))
      BY <2>2, <2>3, <3>1, <3>3, FitLeaf
    <3>5. <<>> \in Seq(Nodes) /\ "sat" \in Result
      BY EmptyStack DEF Result, JobState
    <3>6. stack'[n].node = Top.node /\ Len(stack') = n
      BY <1>0, <2>1, <3>2, <3>5, SettleFields, SettleShape
    <3>7. \A sig \in Signal : TraceHolds(sig, trace') =>
                \E c : IsChild(c, stack'[Len(stack')].node) /\ ~Simple(c) /\ Models(sig, NodeOf(c))
      BY <2>2, <3>2, <3>4, <3>6
    <3> QED
      BY <1>a, <2>1, <3>4, <3>7 DEF TraceModels
  <2> QED
    BY <1>6, <2>4, <2>5 DEF Settles
<1>7. CASE Returns
  <2>1. Finished /\ n > 1 /\ verdict' = "none"
    BY <1>7, <1>b DEF Returns
  <2>2. PICK ch \in Seq(Nodes) : Return(ch)
    BY <1>7, ReturnsWith
  <2>a. n \in Nat /\ n - 1 \in 1 .. n /\ n - 1 # n /\ DOMAIN stack = 1 .. n
    BY <1>b, <2>1 DEF StructInv, TypeOK
  <2>3. /\ Parent = stack[n - 1]
        /\ stack'[n - 1].node = Parent.node
        /\ MergedFrom(stack'[n - 1].result, Parent.result, Top.result, Simple(Top.node))
        /\ Simple(Top.node) \in BOOLEAN
    BY <1>0, <2>1, <2>2, ReturnFields
  <2>4. Len(stack') = n - 1
    BY <1>0, <2>1, <2>2, ReturnShape
  <2>5. Parent.result # "sat"
    BY <2>a, <2>3 DEF SatDone
  <2>6. Returning' => Top.result = "sat" /\ ~Simple(Top.node)
    <3>1. Returning' => stack'[n - 1].result = "sat"
      BY <2>4 DEF Returning
    <3> QED
      BY <2>3, <2>5, <3>1 DEF MergedFrom
  <2>7. CASE PropagateSat
    <3>1. /\ Top.result = "sat" /\ ~Simple(Top.node)
          /\ trace' = IF Poised(Top.node) THEN <<Top.node>> \o trace ELSE trace
      BY <2>7 DEF PropagateSat
    <3>2. /\ FitStretch(trace')
          /\ \A sig \in Signal : TraceHolds(sig, trace') => Models(sig, NodeOf(Top.node))
      BY <1>c, <2>1, <3>1
    <3>3. IsChild(Top.node, stack'[Len(stack')].node)
      BY <1>b, <2>1, <2>3, <2>4, <2>a DEF StructInv, BranchOK
    <3> QED
      BY <2>1, <3>1, <3>2, <3>3 DEF TraceModels
  <2>8. CASE PropagateSimpleSat \/ PropagateUnsat \/ PropagateUndefined
    <3>1. ~Returning'
      BY <2>6, <2>8 DEF PropagateSimpleSat, PropagateUnsat, PropagateUndefined
    <3> QED
      BY <2>1, <3>1 DEF TraceModels
  <2> QED
    BY <1>7, <2>7, <2>8 DEF Returns
<1>8. CASE ChildOpened
  <2>1. HasChild /\ verdict' = verdict
    BY <1>8 DEF ChildOpened, WithinDepth
  <2>2. Len(stack') = n + 1
    BY <1>0, <1>8, OpenShape
  <2>3. stack'[n + 1].result = None
    BY <1>0, <1>8, OpenFields
  <2> QED
    BY <1>a, <2>1, <2>2, <2>3 DEF TraceModels, Returning, None
<1> QED
  BY <1>1, <1>2, <1>3, <1>4, <1>5, <1>6, <1>7, <1>8, NextSplit

\* A trace has one node for every instant from the first one on.
LEMMA TraceTimes ==
    ASSUME Stepwise, NEW t \in Seq(Nodes), Stretch(t), FitStretch(t), NEW r \in Roots, FollowsIn(r, t[1])
    PROVE  \A i \in DOMAIN t : Time(t[i]) = i - 1
<1>1. PICK n \in Nat : n = Len(t)
  OBVIOUS
<1>2. DOMAIN t = 1 .. n /\ \A i \in 1 .. n : t[i] \in Nodes
  BY <1>1
<1>3. Time(t[1]) = 0
  <2>1. r \in Nodes /\ NodeOf(r).time = 0
    BY OptionsAssumption, RootFacts DEF Stepwise
  <2> QED
    BY <2>1, RulesAssumption DEF FollowsIn
<1> DEFINE S == {i \in 0 .. n : i = 0 \/ Time(t[i]) = i - 1}
<1>4. 0 \in S
  BY <1>1
<1>5. ASSUME NEW i \in 0 .. n, i # n, i \in S PROVE i + 1 \in S
  <2>1. i + 1 \in 0 .. n /\ (i + 1) - 1 = i
    BY <1>1, <1>5
  <2>2. CASE i = 0
    BY <1>3, <2>1, <2>2
  <2>3. CASE i # 0
    <3>1. i \in 1 .. n - 1 /\ i \in 1 .. n /\ Time(t[i]) = i - 1
      BY <1>1, <1>5, <2>3
    <3>2. t[i] \in Nodes /\ ~Leaf(t[i]) /\ FitNode(NodeOf(t[i])) /\ Poised(t[i])
      BY <1>1, <1>2, <3>1 DEF Stretch, FitStretch
    <3>3. ComesNext(t[i], t[i + 1])
      BY <1>1, <3>1 DEF Stretch
    <3>4. PICK k \in DOMAIN Children(t[i]) : Time(t[i + 1]) = Time(Children(t[i])[k])
      BY <3>3 DEF ComesNext, FollowsIn
    <3>5. Time(t[i + 1]) = Time(t[i]) + 1
      BY <3>2, <3>4, PoisedNext DEF IsChild
    <3>6. Time(t[i + 1]) = (i + 1) - 1
      BY <1>1, <3>1, <3>5
    <3> QED
      BY <2>1, <3>6
  <2> QED
    BY <2>2, <2>3
<1>6. 0 .. n \subseteq S
  <2> HIDE DEF S
  <2> QED
    BY <1>4, <1>5, IntervalInduction
<1>7. \A i \in 1 .. n : i \in 0 .. n /\ i # 0
  BY <1>1
<1> QED
  BY <1>2, <1>6, <1>7

\* So the values allowed at an instant are those that the literals of its node leave.
LEMMA AllowedFacts ==
    ASSUME trace \in Seq(Nodes), trace # <<>>, \A i \in DOMAIN trace : Time(trace[i]) = i - 1,
           NEW t \in Nat, NEW x
    PROVE  /\ t < Len(trace) =>
                Allowed(t, x) = {v \in Values(x) :
                    \A l \in LiteralsOf(NodeOf(trace[t + 1])) : l.var = x => v \in l.vals}
           /\ ~(t < Len(trace)) => Allowed(t, x) = Values(x)
<1>1. PICK n \in Nat \ {0} : n = Len(trace)
  OBVIOUS
<1>2. DOMAIN trace = 1 .. n /\ Time(trace[n]) = n - 1
  BY <1>1
<1>3. t <= Time(trace[Len(trace)]) <=> t < n
  BY <1>1, <1>2
<1>4. CASE t < n
  <2> DEFINE At(i) == Time(trace[i]) <= t /\ (i < Len(trace) => t < Time(trace[i + 1]))
             place == CHOOSE i \in DOMAIN trace : At(i)
  <2>1. t + 1 \in DOMAIN trace /\ At(t + 1)
    <3>1. t + 1 \in 1 .. n /\ Time(trace[t + 1]) = t
      BY <1>1, <1>2, <1>4
    <3>2. ASSUME t + 1 < n PROVE t < Time(trace[(t + 1) + 1])
      <4>1. (t + 1) + 1 \in 1 .. n
        BY <1>1, <3>2
      <4>2. Time(trace[(t + 1) + 1]) = ((t + 1) + 1) - 1
        BY <1>2, <4>1
      <4> QED
        BY <4>2
    <3> QED
      BY <1>1, <1>2, <3>1, <3>2
  <2>2. \A i \in DOMAIN trace : At(i) => i = t + 1
    <3> SUFFICES ASSUME NEW i \in DOMAIN trace, At(i) PROVE i = t + 1
      OBVIOUS
    <3>1. i \in 1 .. n /\ Time(trace[i]) = i - 1
      BY <1>2
    <3>2. i - 1 <= t
      BY <3>1
    <3>3. CASE i < n
      <4>1. i + 1 \in 1 .. n
        BY <3>1, <3>3
      <4>2. Time(trace[i + 1]) = (i + 1) - 1
        BY <1>2, <4>1
      <4> QED
        BY <1>1, <3>1, <3>2, <3>3, <4>2
    <3>4. CASE ~(i < n)
      BY <1>1, <1>4, <3>1, <3>2, <3>4
    <3> QED
      BY <3>3, <3>4
  <2> HIDE DEF At
  <2>3. place \in DOMAIN trace /\ At(place)
    BY <2>1, Zenon
  <2>4. place = t + 1
    <3> HIDE DEF place
    <3> QED
      BY <2>2, <2>3
  <2>5. TraceNode(t) = NodeOf(trace[place])
    BY DEF TraceNode, At
  <2> QED
    <3> HIDE DEF place
    <3>1. TraceNode(t) = NodeOf(trace[t + 1])
      BY <2>4, <2>5
    <3> QED
      BY <1>1, <1>3, <1>4, <3>1 DEF Allowed
<1>5. CASE ~(t < n)
  BY <1>1, <1>3, <1>5 DEF Allowed
<1> QED
  BY <1>1, <1>4, <1>5

\* Consistent nodes leave every variable a value at every instant.
LEMMA AllowedSome ==
    ASSUME trace \in Seq(Nodes), Stretch(trace), \A i \in DOMAIN trace : Time(trace[i]) = i - 1,
           NEW t \in Nat, NEW x
    PROVE  Allowed(t, x) # {} /\ Allowed(t, x) \subseteq Values(x)
<1>1. /\ trace # <<>>
      /\ \A i \in DOMAIN trace : Consistent(Literals(trace[i]))
  BY DEF Stretch
<1>2. /\ t < Len(trace) =>
            Allowed(t, x) = {v \in Values(x) :
                \A l \in LiteralsOf(NodeOf(trace[t + 1])) : l.var = x => v \in l.vals}
      /\ ~(t < Len(trace)) => Allowed(t, x) = Values(x)
  BY <1>1, AllowedFacts
<1>3. CASE t < Len(trace)
  <2>1. t + 1 \in DOMAIN trace
    BY <1>3
  <2>2. trace[t + 1] \in Nodes
    BY <2>1
  <2>3. Satisfied(LiteralsOf(NodeOf(trace[t + 1])))
    BY <1>1, <2>1, <2>2, RulesAssumption
  <2>4. \E v \in Values(x) : \A l \in LiteralsOf(NodeOf(trace[t + 1])) : l.var = x => v \in l.vals
    <3>1. CASE \E l \in LiteralsOf(NodeOf(trace[t + 1])) : l.var = x
      BY <2>3, <3>1 DEF Satisfied
    <3>2. CASE ~\E l \in LiteralsOf(NodeOf(trace[t + 1])) : l.var = x
      BY <3>2, ValuesFacts
    <3> QED
      BY <3>1, <3>2
  <2> QED
    BY <1>2, <1>3, <2>4
<1>4. CASE ~(t < Len(trace))
  BY <1>2, <1>4, ValuesFacts
<1> QED
  BY <1>3, <1>4

\* Whatever a reading of the trace leaves open, some signal agrees with it on the window
\* of the root and satisfies the literals of every node of the trace.
LEMMA ReadingExtends ==
    ASSUME Stepwise, TypeOK, Stretch(trace), FitStretch(trace),
           \A i \in DOMAIN trace : Time(trace[i]) = i - 1, NEW v
    PROVE  \E sig \in Signal :
                /\ TraceHolds(sig, trace)
                /\ \A i \in 0 .. End(Root) : \A x \in NodeVars(Root) : sig[i][x] = Reading(v)[i][x]
<1> DEFINE e == End(Root)
           names == NodeVars(Root)
           Left(t, x) == IF t \in Nat THEN Allowed(t, x) ELSE Values(x)
           Read(t, x) == IF v[x] \in Allowed(t, x) THEN v[x] ELSE CHOOSE w \in Allowed(t, x) : TRUE
           Choice(t, x, w) == w \in Left(t, x) /\ (t \in 0 .. e /\ x \in names => w = Read(t, x))
           W(t, x) == CHOOSE w : Choice(t, x, w)
           sig == [t \in Int |-> [x \in STRING |-> W(t, x)]]
<1>1. trace \in Seq(Nodes) /\ root \in Roots
  BY DEF TypeOK
<1>2. names \subseteq STRING
  <2>1. NodeOf(root) \in Node /\ \A i \in DOMAIN NodeOf(root).ops : Coherent[NodeOf(root).ops[i].f]
    BY <1>1, RootFacts DEF Stepwise
  <2> QED
    BY <2>1, NodeWindow DEF Root
<1>3. \A t \in Nat : \A x : Allowed(t, x) # {} /\ Allowed(t, x) \subseteq Values(x)
  BY <1>1, AllowedSome
<1>4. \A t \in Nat : \A x : Read(t, x) \in Allowed(t, x)
  <2> SUFFICES ASSUME NEW t \in Nat, NEW x PROVE Read(t, x) \in Allowed(t, x)
    OBVIOUS
  <2> DEFINE c == CHOOSE w \in Allowed(t, x) : TRUE
  <2>1. c \in Allowed(t, x)
    BY <1>3, Zenon
  <2> HIDE DEF c
  <2>2. Read(t, x) = IF v[x] \in Allowed(t, x) THEN v[x] ELSE c
    BY DEF c
  <2> HIDE DEF Read
  <2> QED
    BY <2>1, <2>2
<1>5. Reading(v) = [t \in 0 .. e |-> [x \in names |-> Read(t, x)]]
  BY DEF Reading
<1> HIDE DEF Read, e, names
<1>6. \A t \in Int, x \in STRING : \E w : Choice(t, x, w)
  <2> SUFFICES ASSUME NEW t \in Int, NEW x \in STRING PROVE \E w : Choice(t, x, w)
    OBVIOUS
  <2>1. CASE t \in Nat
    <3>1. Choice(t, x, Read(t, x))
      BY <1>4, <2>1
    <3> QED
      BY <3>1
  <2>2. CASE t \notin Nat
    <3>1. t \notin 0 .. e
      BY <2>2
    <3>2. Choice(t, x, 1)
      BY <2>2, <3>1, ValuesFacts
    <3> QED
      BY <3>2
  <2> QED
    BY <2>1, <2>2
<1>7. \A t \in Int, x \in STRING : Choice(t, x, W(t, x))
  <2> HIDE DEF Choice
  <2> QED
    BY <1>6, Zenon
<1> HIDE DEF W
<1>8. \A t \in Int, x \in STRING : W(t, x) \in Values(x) /\ W(t, x) \in 0 .. 2
  BY <1>3, <1>7, ValuesFacts
<1> HIDE DEF Choice
<1>9. sig \in Signal
  <2>1. ASSUME NEW t \in Int PROVE [x \in STRING |-> W(t, x)] \in Valuations(STRING)
    BY <1>8 DEF Valuations
  <2> QED
    BY <2>1 DEF Signal
<1>10. \A t \in Int, x \in STRING : sig[t][x] = W(t, x)
  OBVIOUS
<1> HIDE DEF sig
<1>11. ASSUME NEW i \in 0 .. e, NEW x \in names PROVE sig[i][x] = Reading(v)[i][x]
  <2>a. i \in Int
    OBVIOUS
  <2>b. x \in STRING
    BY <1>2
  <2>1. i \in Int /\ x \in STRING
    BY <2>a, <2>b
  <2>2. W(i, x) = Read(i, x)
    BY <1>7, <2>1 DEF Choice
  <2>3. Reading(v)[i][x] = Read(i, x)
    BY <1>5
  <2> QED
    BY <1>10, <2>1, <2>2, <2>3
<1>12. ASSUME NEW i \in DOMAIN trace PROVE LiteralsHold(sig, NodeOf(trace[i]))
  <2> DEFINE n == NodeOf(trace[i])
  <2>1. /\ FitNode(n) /\ trace[i] \in Nodes /\ i \in Nat \ {0} /\ i - 1 < Len(trace)
        /\ i - 1 \in Nat /\ (i - 1) + 1 = i
    BY <1>1 DEF FitStretch
  <2>2. n.time = i - 1
    BY <2>1, RulesAssumption
  <2>3. trace # <<>>
    BY DEF Stretch
  <2>4. \A x : Allowed(i - 1, x) = {w \in Values(x) :
                    \A l \in LiteralsOf(NodeOf(trace[(i - 1) + 1])) : l.var = x => w \in l.vals}
    BY <1>1, <2>1, <2>3, AllowedFacts
  <2>5. \A x : Allowed(i - 1, x) = {w \in Values(x) : \A l \in LiteralsOf(n) : l.var = x => w \in l.vals}
    BY <2>1, <2>4
  <2> HIDE DEF n
  <2>6. ASSUME NEW l \in LiteralsOf(n) PROVE sig[n.time][l.var] \in l.vals
    <3>1. l.var \in STRING
      BY <2>1, LiteralOperand, LiteralHolds, SomeSignal
    <3>2. i - 1 \in Int
      BY <2>1
    <3>3. W(i - 1, l.var) \in Allowed(i - 1, l.var)
      BY <1>7, <2>1, <3>1, <3>2 DEF Choice
    <3>4. sig[i - 1][l.var] = W(i - 1, l.var)
      BY <1>10, <3>1, <3>2
    <3> QED
      BY <2>2, <2>5, <3>3, <3>4
  <2>7. LiteralsHold(sig, n)
    BY <1>9, <2>1, <2>6, AllowedLiterals
  <2> QED
    BY <2>7 DEF n
<1> QED
  BY <1>9, <1>11, <1>12 DEF TraceHolds, e, names

\* The trace of a "sat" answer is a model of the formula: every signal that a user can
\* read from it, with any value wherever it is silent, satisfies the formula.
THEOREM TraceModelsFormula == Stepwise => (Spec => []TraceIsModel)
<1> SUFFICES ASSUME Stepwise PROVE Spec => []TraceIsModel
  OBVIOUS
<1>1. Init => TraceInv /\ TraceModels /\ SatDone
  BY DEF Init, TraceInv, TraceModels, Returning, SatDone
<1>2. StructInv /\ SatDone /\ TraceInv /\ TraceModels /\ [Next]_vars
        => TraceInv' /\ TraceModels' /\ SatDone'
  BY TraceStep, TraceModelsStep, SatDoneStep
<1>3. TypeOK /\ TraceInv /\ TraceModels => TraceIsModel
  <2> SUFFICES ASSUME TypeOK, TraceInv, TraceModels, verdict = "sat", NEW v \in Valuations(NodeVars(Root))
               PROVE  Models(Reading(v), Root)
    BY DEF TraceIsModel
  <2>1. /\ trace \in Seq(Nodes) /\ root \in Roots
        /\ Stretch(trace) /\ FollowsIn(root, trace[1]) /\ FitStretch(trace)
        /\ \A sig \in Signal : TraceHolds(sig, trace) => Models(sig, NodeOf(root))
    BY DEF TypeOK, TraceInv, TraceModels
  <2>2. \A i \in DOMAIN trace : Time(trace[i]) = i - 1
    BY <2>1, TraceTimes
  <2>3. PICK sig \in Signal :
            /\ TraceHolds(sig, trace)
            /\ \A i \in 0 .. End(Root) : \A x \in NodeVars(Root) : sig[i][x] = Reading(v)[i][x]
    BY <2>1, <2>2, ReadingExtends
  <2>4. Models(sig, NodeOf(root))
    BY <2>1, <2>3
  <2> QED
    BY <2>1, <2>3, <2>4, RootAgree DEF Root, Stepwise
<1> QED
  BY <1>1, <1>2, <1>3, Structure, PTL DEF Spec, StructInv
=============================================================================
