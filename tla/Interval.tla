------------------------------ MODULE Interval ------------------------------
(***************************************************************************)
(* Interval of src/src/formula/mod.rs: the closed time intervals of the    *)
(* temporal operators.                                                     *)
(***************************************************************************)
EXTENDS Integers

Interval == {i \in [lower : Nat, upper : Nat] : i.lower <= i.upper}

Span(a, b) == [lower |-> a, upper |-> b]

\* Interval::contains (Contains is an operator on sequences)
Includes(i, j) == i.lower <= j.lower /\ i.upper >= j.upper

Intersects(i, j) == i.upper >= j.lower /\ j.upper >= i.lower

Active(i, time) == time >= i.lower /\ time <= i.upper

Contiguous(i, j) == i.upper + 1 = j.lower \/ j.upper + 1 = i.lower

Lesser(a, b) == IF a <= b THEN a ELSE b
Greater(a, b) == IF a >= b THEN a ELSE b

\* Interval::union: the hull of both
Union(i, j) == Span(Lesser(i.lower, j.lower), Greater(i.upper, j.upper))

\* Interval::shift_left, which is None when the interval has passed
HasShiftLeft(i, time) == time <= i.upper
ShiftLeft(i, time) == Span(Greater(i.lower - time, 0), i.upper - time)

ShiftRight(i, time) == Span(i.lower + time, i.upper + time)
=============================================================================
