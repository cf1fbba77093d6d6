------------------------------ MODULE Doubles -------------------------------
(***************************************************************************)
(* The double of the C++ implementation, as src/number.cpp uses it: finite *)
(* values, infinities and not-a-number, the order on them, and the nearest *)
(* double of an integer.  A finite double is kept as twice its value, so   *)
(* that the odd ones stand for values between two integers.                *)
(***************************************************************************)
EXTENDS Integers

CONSTANTS
  Mantissa,    \* 2^53: the integers up to it are doubles
  Spacings,    \* 1, 2, ..., 2^971: how far apart whole doubles are
  Finite       \* twice the finite doubles that occur

ASSUME DoublesAssumption ==
  /\ Mantissa \in Nat \ {0}
  /\ Spacings \subseteq Nat \ {0}
  /\ Finite \subseteq Int

Double(h) == [rep |-> "double", n |-> h]
Infinity(sign) == [rep |-> "inf", n |-> sign]
NaN == [rep |-> "nan", n |-> 0]
DoubleReps == {"double", "inf", "nan"}
Doubles == {Double(h) : h \in Finite} \cup {Infinity(1), Infinity(-1), NaN}

IsIntegral(d) == d.rep = "double" /\ d.n % 2 = 0

\* The nearest multiple of u, on a tie the even one.
Magnitude(n) == IF n < 0 THEN -n ELSE n
Nearest(m, u) ==
  LET low == u * (m \div u)
      even == (m \div u) % 2 = 0
  IN IF 2 * (m - low) < u \/ (2 * (m - low) = u /\ even) THEN low ELSE low + u

\* Doubles are u apart up to Mantissa * u; the last of them is infinite.
Spacing(m) == {u \in Spacings : /\ m <= Mantissa * u
                                /\ \A v \in Spacings : m <= Mantissa * v => u <= v}
IsFinite(m) == \E u \in Spacings : m < Mantissa * u
to_double(n) ==
  LET m == Magnitude(n)
      near == Nearest(m, CHOOSE u \in Spacing(m) : TRUE)
  IN IF Spacing(m) # {} /\ IsFinite(near)
     THEN Double(IF n < 0 THEN -2 * near ELSE 2 * near)
     ELSE Infinity(IF n < 0 THEN -1 ELSE 1)

\* The operator <=> on doubles.
Below(a, b) ==
  \/ a.rep = "inf" /\ a.n < 0 /\ b # a
  \/ b.rep = "inf" /\ b.n > 0 /\ b # a
  \/ a.rep = "double" /\ b.rep = "double" /\ a.n < b.n
DoubleOrder(a, b) ==
  IF a.rep = "nan" \/ b.rep = "nan" THEN "unordered"
  ELSE IF Below(a, b) THEN "less" ELSE IF Below(b, a) THEN "greater" ELSE "equivalent"
=============================================================================
