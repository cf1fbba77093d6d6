------------------------------ MODULE Numbers -------------------------------
(***************************************************************************)
(* The numeric tower (src/number.cpp): exact integers that are fixnums     *)
(* where they fit and libtommath bignums where they do not, and doubles.   *)
(* Two variables of a program, x and y, hold numbers that the operations   *)
(* of Number build from literals; answer is the last operation, or what it *)
(* returned that is not a number.                                          *)
(*                                                                         *)
(* int64_t arithmetic is modelled with its width: a result that does not   *)
(* fit wraps, where the C++ program would be undefined.  The arithmetic of *)
(* doubles is the processor's: it returns any double that occurs.          *)
(***************************************************************************)
EXTENDS Doubles

CONSTANTS
  FixMax,      \* INT64_MAX
  SizeMax,     \* the largest size_t
  MaxPower,    \* INT_MAX, the largest exponent expt computes exactly
  Literals,    \* the integers and doubles that occur in programs
  Bound        \* model bound: the magnitude of the exact results followed

ASSUME NumbersAssumption ==
  /\ FixMax \in Nat \ {0} /\ SizeMax \in Nat /\ MaxPower \in 0 .. FixMax
  /\ Literals \subseteq Int /\ Bound \in Nat

VARIABLES x, y, answer
vars == <<x, y, answer>>
-----------------------------------------------------------------------------
Fix(n) == [rep |-> "fix", n |-> n]
Big(n) == [rep |-> "big", n |-> n]
INT_MIN == -FixMax - 1
fixnum_min == -FixMax
\* int64_t arithmetic.
Wrap(n) == ((n + FixMax + 1) % (2 * (FixMax + 1))) - (FixMax + 1)

\* INT64_MIN kept as a fixnum.
BugOfI64(v) == Fix(v)
of_i64(v) == IF v < fixnum_min THEN Big(v) ELSE Fix(v)
\* mp_count_bits of the value below 64.
from_bigint(n) == IF Magnitude(n) <= FixMax THEN of_i64(n) ELSE Big(n)

is_exact(a) == a.rep \notin DoubleReps
AsDouble(a) == IF is_exact(a) THEN to_double(a.n) ELSE a
is_zero(a) == a.rep # "nan" /\ a.n = 0
is_negative(a) == a.n < 0
is_integer(a) == is_exact(a) \/ IsIntegral(a)

\* Two fixnums are computed in 128 bits, anything else by libtommath.
arith(a, b, n) ==
  IF a.rep = "fix" /\ b.rep = "fix" /\ n >= fixnum_min /\ n <= FixMax
  THEN of_i64(n) ELSE from_bigint(n)

\* Division truncates, that of int64_t and that of libtommath.
Quo(a, b) == LET q == Magnitude(a) \div Magnitude(b)
             IN IF (a < 0) # (b < 0) THEN -q ELSE q
Rem(a, b) == a - b * Quo(a, b)
divmod(a, b) ==
  IF a.rep = "fix" /\ b.rep = "fix"
  THEN [quot |-> of_i64(Wrap(Quo(a.n, b.n))), rem |-> of_i64(Wrap(Rem(a.n, b.n)))]
  ELSE [quot |-> from_bigint(Quo(a.n, b.n)), rem |-> from_bigint(Rem(a.n, b.n))]

unary(a, n) == IF a.rep = "fix" THEN of_i64(Wrap(n)) ELSE from_bigint(n)

remainder(a, b) == divmod(a, b).rem
modulo(a, b) ==
  LET r == remainder(a, b)
  IN IF ~is_zero(r) /\ is_negative(r) # is_negative(b) THEN arith(r, b, r.n + b.n) ELSE r

compare(a, b) ==
  CASE ~is_exact(a) \/ ~is_exact(b) -> DoubleOrder(AsDouble(a), AsDouble(b))
    [] a.rep = "fix" /\ b.rep = "big" -> IF is_negative(b) THEN "greater" ELSE "less"
    [] a.rep = "big" /\ b.rep = "fix" -> IF is_negative(a) THEN "less" ELSE "greater"
    [] OTHER -> IF a.n < b.n THEN "less" ELSE IF a.n > b.n THEN "greater" ELSE "equivalent"
eqv(a, b) == is_exact(a) = is_exact(b) /\ compare(a, b) = "equivalent"

is_even(a) == CASE is_exact(a) -> a.n % 2 = 0
                [] OTHER -> a.rep = "double" /\ a.n % 4 = 0

\* A size_t narrower than int64_t, the fixnum cast to it unchecked.
BugToSize(a) ==
  CASE a.rep = "fix" -> IF a.n < 0 THEN -1 ELSE a.n % (SizeMax + 1)
    [] a.rep = "big" -> IF is_negative(a) \/ a.n > SizeMax THEN -1 ELSE a.n
    [] a.rep = "double" -> IF ~IsIntegral(a) \/ a.n < 0 \/ a.n >= 2 * (SizeMax + 1)
                           THEN -1 ELSE a.n \div 2
    [] OTHER -> -1

\* The index a number stands for, -1 where it stands for none.
to_size(a) ==
  CASE a.rep = "fix" -> IF a.n < 0 \/ a.n > SizeMax THEN -1 ELSE a.n
    [] a.rep = "big" -> IF is_negative(a) \/ a.n > SizeMax THEN -1 ELSE a.n
    [] a.rep = "double" -> IF ~IsIntegral(a) \/ a.n < 0 \/ a.n >= 2 * (SizeMax + 1)
                           THEN -1 ELSE a.n \div 2
    [] OTHER -> -1
-----------------------------------------------------------------------------
None == <<"none">>
Init == x = Fix(0) /\ y = Fix(0) /\ answer = None

Exact == is_exact(x) /\ is_exact(y)
Store(op, v) == x' = v /\ answer' = <<op>> /\ UNCHANGED y
StoreExact(op, v) == Magnitude(v.n) <= Bound /\ Store(op, v)
StoreDouble(op) == \E d \in Doubles : Store(op, d)
Answers(question, a) == answer' = <<question, a>> /\ UNCHANGED <<x, y>>
Fails(why) == Answers("error", why)

\* Number::parse of an integer: from_chars, or a bignum where it is out of
\* range of int64_t.
parse(n) == IF n >= INT_MIN /\ n <= FixMax THEN of_i64(n) ELSE from_bigint(n)
Literal ==
  /\ \/ \E n \in Literals : y' = parse(n)
     \/ y' \in Doubles
  /\ answer' = None /\ UNCHANGED x
Assign == y' = x /\ answer' = None /\ UNCHANGED x

Add == \/ Exact /\ StoreExact("add", arith(x, y, x.n + y.n))
       \/ ~Exact /\ StoreDouble("add")
Sub == \/ Exact /\ StoreExact("sub", arith(x, y, x.n - y.n))
       \/ ~Exact /\ StoreDouble("sub")
Mul == \/ Exact /\ StoreExact("mul", arith(x, y, x.n * y.n))
       \/ ~Exact /\ StoreDouble("mul")

Div ==
  \/ Exact /\ is_zero(y) /\ Fails("division by zero")
  \/ Exact /\ ~is_zero(y) /\ is_zero(divmod(x, y).rem) /\ StoreExact("div", divmod(x, y).quot)
  \/ Exact /\ ~is_zero(y) /\ ~is_zero(divmod(x, y).rem) /\ StoreDouble("div")
  \/ ~Exact /\ StoreDouble("div")

\* quotient, remainder and modulo reject a divisor of either zero.
Divide(op, result) ==
  \/ is_zero(y) /\ Fails("division by zero")
  \/ Exact /\ ~is_zero(y) /\ StoreExact(op, result)
  \/ ~Exact /\ ~is_zero(y) /\ StoreDouble(op)
quotient(a, b) == divmod(a, b).quot
Quotient == Divide("quotient", quotient(x, y))
Remainder == Divide("remainder", remainder(x, y))
Modulo == Divide("modulo", modulo(x, y))

Negate == \/ is_exact(x) /\ StoreExact("neg", unary(x, -x.n))
          \/ ~is_exact(x) /\ StoreDouble("neg")
Absolute == \/ is_exact(x) /\ StoreExact("abs", unary(x, IF x.n < 0 THEN -x.n ELSE x.n))
            \/ ~is_exact(x) /\ StoreDouble("abs")

\* An exact root where there is one.
Roots(n) == {r \in 0 .. Magnitude(n) : r * r = n}
Sqrt == \/ \E r \in Roots(x.n) : is_exact(x) /\ StoreExact("sqrt", from_bigint(r))
        \/ (is_exact(x) => Roots(x.n) = {}) /\ StoreDouble("sqrt")

Power(a, e) == IF e = 0 THEN 1 ELSE a ^ e
Computable == is_exact(x) /\ y.rep = "fix" /\ y.n >= 0 /\ y.n <= MaxPower
Expt == \/ /\ Computable
           /\ \E p \in -Bound .. Bound :
                p = Power(x.n, y.n) /\ Store("expt", from_bigint(p))
        \/ ~Computable /\ StoreDouble("expt")

ToInexact == Store("inexact", AsDouble(x))

\* A double that is an integer of int64_t's range: from -2^63, below 2^63.
ToExact ==
  \/ is_exact(x) /\ Store("exact", x)
  \/ ~is_exact(x) /\ ~IsIntegral(x) /\ Fails("not an integer")
  \/ /\ IsIntegral(x) /\ (x.n < 2 * INT_MIN \/ x.n >= 2 * (FixMax + 1))
     /\ Fails("magnitude too large")
  \/ /\ IsIntegral(x) /\ x.n >= 2 * INT_MIN /\ x.n < 2 * (FixMax + 1)
     /\ StoreExact("exact", of_i64(Wrap(x.n \div 2)))

\* max and min of x and y, inexact when either is.
Extreme(wanted) ==
  LET best == IF compare(y, x) = wanted THEN y ELSE x
  IN Store(wanted, IF Exact THEN best ELSE AsDouble(best))
MinMax == Extreme("greater") \/ Extreme("less")

Compare == Answers("compare", compare(x, y))
Eqv == Answers("eqv", eqv(x, y))
IsEven == Answers("even", is_even(x))
IsInteger == Answers("integer", is_integer(x))
ToSize == Answers("size", to_size(x))

Next == Literal \/ Assign \/ Add \/ Sub \/ Mul \/ Div \/ Quotient \/ Remainder \/ Modulo
        \/ Negate \/ Absolute \/ Sqrt \/ Expt \/ ToInexact \/ ToExact \/ MinMax
        \/ Compare \/ Eqv \/ IsEven \/ IsInteger \/ ToSize

Spec == Init /\ [][Next]_vars
-----------------------------------------------------------------------------
\* The comment of number.cpp:43: "a bignum never holds a value that fits a
\* fixnum", and INT64_MIN, whose negation overflows, is not a fixnum.
Canonical(v) ==
  \/ v.rep = "fix" /\ v.n \in fixnum_min .. FixMax
  \/ v.rep = "big" /\ v.n \in Int /\ Magnitude(v.n) > FixMax
  \/ v.rep \in DoubleReps /\ v.n \in Int
AllCanonical == Canonical(x) /\ Canonical(y)

\* One exact integer, however large, in place of fixnums and bignums.
Value(a) == IF is_exact(a) THEN [rep |-> "integer", n |-> a.n] ELSE a
Ideal == INSTANCE IdealNumbers WITH u <- Value(x), w <- Value(y)
\* Which representation a number has is never seen: not in a result, not in
\* an order, not in an index, and no int64_t operation overflows.
IdealSpec == Ideal!Spec
=============================================================================
