---------------------------- MODULE Numbers_proof ----------------------------
(***************************************************************************)
(* The numeric tower, for fixnums of every width, every size_t, every      *)
(* format of doubles and every program's literals: representations stay    *)
(* canonical, and the tower implements the integers.                       *)
(***************************************************************************)
EXTENDS Numbers, TLAPS

Int64 == INT_MIN .. FixMax

LEMMA WrapFits ==
  /\ \A n \in Int : Wrap(n) \in Int64
  /\ \A n \in Int64 : Wrap(n) = n
<1>1. FixMax \in Nat /\ FixMax > 0
  BY NumbersAssumption
<1>2. \A m \in Int : m % (2 * (FixMax + 1)) \in 0 .. 2 * FixMax + 1
  <2>1. \A k \in Nat \ {0} : \A m \in Int : m % k \in 0 .. k - 1
    OBVIOUS
  <2> QED BY <1>1, <2>1
<1>3. \A m \in 0 .. 2 * FixMax + 1 : m % (2 * (FixMax + 1)) = m
  <2>1. \A k \in Nat \ {0} : \A m \in 0 .. k - 1 : m % k = m
    OBVIOUS
  <2> QED BY <1>1, <2>1
<1>4. ASSUME NEW n \in Int PROVE Wrap(n) \in Int64
  <2>1. (n + FixMax + 1) % (2 * (FixMax + 1)) \in 0 .. 2 * FixMax + 1
    BY <1>1, <1>2
  <2> QED BY <1>1, <2>1 DEF Wrap, Int64, INT_MIN
<1>5. ASSUME NEW n \in Int64 PROVE Wrap(n) = n
  <2>1. n + FixMax + 1 \in 0 .. 2 * FixMax + 1
    BY <1>1 DEF Int64, INT_MIN
  <2> QED BY <1>1, <1>3, <2>1 DEF Wrap, Int64, INT_MIN
<1> QED BY <1>4, <1>5

\* What of_i64 and from_bigint return is canonical.
LEMMA OfI64 == ASSUME NEW v \in Int64
               PROVE  Canonical(of_i64(v)) /\ Value(of_i64(v)) = [rep |-> "integer", n |-> v]
BY NumbersAssumption DEF Int64, INT_MIN, of_i64, Canonical, Value, is_exact, DoubleReps,
   Fix, Big, fixnum_min, Magnitude

LEMMA FromBigint == ASSUME NEW v \in Int
                    PROVE  /\ Canonical(from_bigint(v))
                           /\ Value(from_bigint(v)) = [rep |-> "integer", n |-> v]
<1>1. CASE Magnitude(v) <= FixMax
  <2>1. v \in Int64
    BY <1>1, NumbersAssumption DEF Int64, INT_MIN, Magnitude
  <2> QED BY <1>1, <2>1, OfI64 DEF from_bigint
<1>2. CASE ~(Magnitude(v) <= FixMax)
  BY <1>2, NumbersAssumption DEF from_bigint, Canonical, Value, is_exact, DoubleReps, Big, Magnitude
<1> QED BY <1>1, <1>2

\* The nearest double of an integer is a double.
LEMMA ToDouble == ASSUME NEW n \in Int
                  PROVE  to_double(n).rep \in DoubleReps /\ to_double(n).n \in Int
<1> DEFINE m == Magnitude(n)
           u == CHOOSE k \in Spacing(m) : TRUE
<1>1. m \in Int
  BY DEF Magnitude
<1>2. CASE Spacing(m) # {}
  <2>1. u \in Nat \ {0}
    BY <1>2, DoublesAssumption DEF Spacing
  <2>2. m \div u \in Int
    BY <1>1, <2>1
  <2>3. Nearest(m, u) \in Int
    BY <2>1, <2>2 DEF Nearest
  <2> QED BY <2>3 DEF to_double, Double, Infinity, DoubleReps
<1>3. CASE Spacing(m) = {}
  BY <1>3 DEF to_double, Infinity, DoubleReps
<1> QED BY <1>2, <1>3

\* Integer division.
LEMMA QuoFits ==
  ASSUME NEW a \in Int, NEW b \in Int, b # 0
  PROVE  /\ Quo(a, b) \in Int /\ Rem(a, b) \in Int
         /\ Magnitude(Quo(a, b)) <= Magnitude(a)
<1>1. \A m \in Nat : \A n \in Nat \ {0} : m \div n \in Nat /\ m \div n <= m
  OBVIOUS
<1>2. Magnitude(a) \in Nat /\ Magnitude(b) \in Nat \ {0}
  BY DEF Magnitude
<1>3. Magnitude(a) \div Magnitude(b) \in Nat /\ Magnitude(a) \div Magnitude(b) <= Magnitude(a)
  BY <1>1, <1>2
<1> DEFINE q == Magnitude(a) \div Magnitude(b)
<1>4. Quo(a, b) = q \/ Quo(a, b) = -q
  BY DEF Quo
<1> HIDE DEF q
<1>5. q \in Nat /\ q <= Magnitude(a)
  BY <1>3 DEF q
<1>6. Quo(a, b) \in Int /\ Magnitude(Quo(a, b)) <= Magnitude(a)
  BY <1>4, <1>5 DEF Magnitude
<1>7. Rem(a, b) \in Int
  BY <1>6 DEF Rem
<1> QED BY <1>6, <1>7

LEMMA DivmodCanonical ==
  ASSUME NEW a, NEW b, Canonical(a), Canonical(b), is_exact(a), is_exact(b), b.n # 0
  PROVE  Canonical(divmod(a, b).quot) /\ Canonical(divmod(a, b).rem)
<1>1. a.n \in Int /\ b.n \in Int
  BY NumbersAssumption DEF Canonical, is_exact, fixnum_min
<1>2. Quo(a.n, b.n) \in Int /\ Rem(a.n, b.n) \in Int
  BY <1>1, QuoFits
<1>3. Wrap(Quo(a.n, b.n)) \in Int64 /\ Wrap(Rem(a.n, b.n)) \in Int64
  BY <1>2, WrapFits
<1> QED BY <1>2, <1>3, OfI64, FromBigint DEF divmod

LEMMA DoublesCanonical == \A d \in Doubles : Canonical(d)
BY DoublesAssumption DEF Doubles, Double, Infinity, NaN, Canonical, DoubleReps

LEMMA AsDoubleCanonical == ASSUME NEW a, Canonical(a) PROVE Canonical(AsDouble(a))
<1>1. CASE is_exact(a)
  <2>1. a.n \in Int
    BY <1>1, NumbersAssumption DEF Canonical, is_exact, fixnum_min
  <2> QED BY <1>1, <2>1, ToDouble DEF AsDouble, Canonical
<1>2. CASE ~is_exact(a)
  BY <1>2 DEF AsDouble
<1> QED BY <1>1, <1>2

LEMMA ArithCanonical ==
  ASSUME NEW a, NEW b, NEW n \in Int
  PROVE  Canonical(arith(a, b, n)) /\ Value(arith(a, b, n)) = [rep |-> "integer", n |-> n]
<1>1. CASE a.rep = "fix" /\ b.rep = "fix" /\ n >= fixnum_min /\ n <= FixMax
  <2>1. n \in Int64
    BY <1>1, NumbersAssumption DEF Int64, INT_MIN, fixnum_min
  <2> QED BY <1>1, <2>1, OfI64 DEF arith
<1>2. CASE ~(a.rep = "fix" /\ b.rep = "fix" /\ n >= fixnum_min /\ n <= FixMax)
  BY <1>2, FromBigint DEF arith
<1> QED BY <1>1, <1>2

LEMMA UnaryCanonical ==
  ASSUME NEW a, NEW n \in Int PROVE Canonical(unary(a, n))
<1>1. Wrap(n) \in Int64
  BY WrapFits
<1> QED BY <1>1, OfI64, FromBigint DEF unary

LEMMA ParseCanonical ==
  ASSUME NEW n \in Int
  PROVE  Canonical(parse(n)) /\ Value(parse(n)) = [rep |-> "integer", n |-> n]
<1>1. CASE n >= INT_MIN /\ n <= FixMax
  <2>1. n \in Int64
    BY <1>1, NumbersAssumption DEF Int64, INT_MIN
  <2> QED BY <1>1, <2>1, OfI64 DEF parse
<1>2. CASE ~(n >= INT_MIN /\ n <= FixMax)
  BY <1>2, FromBigint DEF parse
<1> QED BY <1>1, <1>2

LEMMA ExactInt == ASSUME NEW a, Canonical(a) PROVE a.n \in Int
BY NumbersAssumption DEF Canonical, fixnum_min

\* The steps that put a number in x.
LEMMA StoreCanonical ==
  ASSUME AllCanonical, NEW op, NEW v, Store(op, v), Canonical(v)
  PROVE  AllCanonical'
BY DEF Store, AllCanonical, Canonical, fixnum_min, Magnitude, DoubleReps

LEMMA StoreDoubleCanonical ==
  ASSUME AllCanonical, NEW op, StoreDouble(op)
  PROVE  AllCanonical'
BY StoreCanonical, DoublesCanonical DEF StoreDouble

LEMMA NoStore == ASSUME AllCanonical, UNCHANGED <<x, y>> PROVE AllCanonical'
BY DEF AllCanonical, Canonical, fixnum_min, Magnitude, DoubleReps

LEMMA DivideCanonical ==
  ASSUME AllCanonical, NEW op, NEW r, Canonical(r),
         \/ is_zero(y) /\ Fails("division by zero")
         \/ StoreExact(op, r)
         \/ StoreDouble(op)
  PROVE  AllCanonical'
BY StoreCanonical, StoreDoubleCanonical, NoStore DEF Fails, Answers, StoreExact

\* number.cpp:43: "a bignum never holds a value that fits a fixnum", and no
\* fixnum is INT64_MIN, for every width.
THEOREM CanonicalForm == Spec => []AllCanonical
<1>1. Init => AllCanonical
  BY NumbersAssumption DEF Init, AllCanonical, Canonical, Fix, fixnum_min
<1>2. AllCanonical /\ [Next]_vars => AllCanonical'
  <2> SUFFICES ASSUME AllCanonical, [Next]_vars PROVE AllCanonical'
    OBVIOUS
  <2>0. x.n \in Int /\ y.n \in Int /\ Canonical(x) /\ Canonical(y)
    BY ExactInt DEF AllCanonical
  <2>1. CASE Literal
    <3>1. \A n \in Literals : Canonical(parse(n))
      BY ParseCanonical, NumbersAssumption
    <3>2. Canonical(y') /\ x' = x
      BY <2>1, <3>1, DoublesCanonical DEF Literal
    <3> QED BY <2>0, <3>2 DEF AllCanonical, Canonical, fixnum_min, Magnitude, DoubleReps
  <2>2. CASE Assign
    BY <2>2 DEF Assign, AllCanonical, Canonical, fixnum_min, Magnitude, DoubleReps
  <2>3. CASE Add
    <3>1. Canonical(arith(x, y, x.n + y.n))
      BY <2>0, ArithCanonical
    <3> QED BY <2>3, <3>1, StoreCanonical, StoreDoubleCanonical DEF Add, StoreExact
  <2>4. CASE Sub
    <3>1. Canonical(arith(x, y, x.n - y.n))
      BY <2>0, ArithCanonical
    <3> QED BY <2>4, <3>1, StoreCanonical, StoreDoubleCanonical DEF Sub, StoreExact
  <2>5. CASE Mul
    <3>1. Canonical(arith(x, y, x.n * y.n))
      BY <2>0, ArithCanonical
    <3> QED BY <2>5, <3>1, StoreCanonical, StoreDoubleCanonical DEF Mul, StoreExact
  <2>6. Exact /\ ~is_zero(y) => Canonical(divmod(x, y).quot) /\ Canonical(divmod(x, y).rem)
    BY <2>0, DivmodCanonical DEF Exact, is_zero, is_exact, DoubleReps
  <2>7. CASE Div
    BY <2>7, <2>6, StoreCanonical, StoreDoubleCanonical, NoStore DEF Div, StoreExact, Fails, Answers
  <2>8. CASE Quotient
    BY <2>8, <2>6, StoreCanonical, StoreDoubleCanonical, NoStore
    DEF Quotient, Divide, quotient, StoreExact, Fails, Answers
  <2>9. CASE Remainder
    BY <2>9, <2>6, StoreCanonical, StoreDoubleCanonical, NoStore
    DEF Remainder, Divide, remainder, StoreExact, Fails, Answers
  <2>10. CASE Modulo
    <3>1. ASSUME Exact, ~is_zero(y) PROVE Canonical(modulo(x, y))
      <4>1. Canonical(remainder(x, y))
        BY <2>6, <3>1 DEF remainder
      <4>2. remainder(x, y).n \in Int
        BY <4>1, ExactInt
      <4>3. Canonical(arith(remainder(x, y), y, remainder(x, y).n + y.n))
        BY <2>0, <4>2, ArithCanonical
      <4> QED BY <4>1, <4>3 DEF modulo
    <3> QED BY <2>10, <3>1, StoreCanonical, StoreDoubleCanonical, NoStore
            DEF Modulo, Divide, StoreExact, Fails, Answers
  <2>11. CASE Negate
    <3>1. Canonical(unary(x, -x.n))
      BY <2>0, UnaryCanonical
    <3> QED BY <2>11, <3>1, StoreCanonical, StoreDoubleCanonical DEF Negate, StoreExact
  <2>12. CASE Absolute
    <3>1. Canonical(unary(x, IF x.n < 0 THEN -x.n ELSE x.n))
      BY <2>0, UnaryCanonical
    <3> QED BY <2>12, <3>1, StoreCanonical, StoreDoubleCanonical DEF Absolute, StoreExact
  <2>13. CASE Sqrt
    <3>1. \A r \in Roots(x.n) : Canonical(from_bigint(r))
      BY <2>0, FromBigint DEF Roots, Magnitude
    <3> QED BY <2>13, <3>1, StoreCanonical, StoreDoubleCanonical DEF Sqrt, StoreExact
  <2>14. CASE Expt
    <3>1. \A p \in -Bound .. Bound : Canonical(from_bigint(p))
      BY FromBigint, NumbersAssumption
    <3> QED BY <2>14, <3>1, StoreCanonical, StoreDoubleCanonical DEF Expt
  <2>15. CASE ToInexact
    BY <2>0, <2>15, AsDoubleCanonical, StoreCanonical DEF ToInexact
  <2>16. CASE ToExact
    <3>1. x.n \div 2 \in Int
      BY <2>0
    <3>2. Canonical(of_i64(Wrap(x.n \div 2)))
      BY <3>1, WrapFits, OfI64
    <3> QED BY <2>0, <2>16, <3>2, StoreCanonical, NoStore DEF ToExact, StoreExact, Fails, Answers
  <2>17. CASE MinMax
    <3>1. Canonical(AsDouble(x)) /\ Canonical(AsDouble(y))
      BY <2>0, AsDoubleCanonical
    <3>2. ASSUME NEW wanted, Extreme(wanted) PROVE AllCanonical'
      BY <2>0, <3>1, <3>2, StoreCanonical DEF Extreme
    <3> QED BY <2>17, <3>2 DEF MinMax
  <2>18. CASE Compare \/ Eqv \/ IsEven \/ IsInteger \/ ToSize
    BY <2>18, NoStore DEF Compare, Eqv, IsEven, IsInteger, ToSize, Answers
  <2>19. CASE UNCHANGED vars
    BY <2>19, NoStore DEF vars
  <2> QED BY <2>1, <2>2, <2>3, <2>4, <2>5, <2>7, <2>8, <2>9, <2>10, <2>11, <2>12, <2>13,
             <2>14, <2>15, <2>16, <2>17, <2>18, <2>19 DEF Next
<1> QED BY <1>1, <1>2, PTL DEF Spec
-----------------------------------------------------------------------------
\* The doubles of the two specifications are the same.
LEMMA SameNearest == \A m, u : Nearest(m, u) = Ideal!Nearest(m, u)
BY DEF Nearest, Ideal!Nearest

LEMMA SameToDouble == \A n : to_double(n) = Ideal!to_double(n)
<1> SUFFICES ASSUME NEW n PROVE to_double(n) = Ideal!to_double(n)
  OBVIOUS
<1>1. Magnitude(n) = Ideal!Magnitude(n)
  BY DEF Magnitude, Ideal!Magnitude
<1>2. \A m : Spacing(m) = Ideal!Spacing(m)
  BY DEF Spacing, Ideal!Spacing
<1>3. \A m : IsFinite(m) = Ideal!IsFinite(m)
  BY DEF IsFinite, Ideal!IsFinite
<1>4. \A k : Double(k) = Ideal!Double(k) /\ Infinity(k) = Ideal!Infinity(k)
  BY DEF Double, Ideal!Double, Infinity, Ideal!Infinity
<1> QED BY <1>1, <1>2, <1>3, <1>4, SameNearest DEF to_double, Ideal!to_double

LEMMA SameDoubles ==
  /\ Doubles = Ideal!Doubles
  /\ \A d : IsIntegral(d) = Ideal!IsIntegral(d)
  /\ \A a, b : DoubleOrder(a, b) = Ideal!DoubleOrder(a, b)
  /\ \A n : Magnitude(n) = Ideal!Magnitude(n)
BY DEF Doubles, Ideal!Doubles, Double, Ideal!Double, Infinity, Ideal!Infinity, NaN, Ideal!NaN,
   IsIntegral, Ideal!IsIntegral, DoubleOrder, Ideal!DoubleOrder, Below, Ideal!Below,
   Magnitude, Ideal!Magnitude

\* What the value of a number keeps of it.
LEMMA Values ==
  ASSUME NEW a, Canonical(a)
  PROVE  /\ Value(a).n = a.n /\ a.n \in Int
         /\ (Ideal!exact(Value(a)) <=> is_exact(a))
         /\ (~is_exact(a) => Value(a) = a)
         /\ (is_exact(a) => Value(a) = Ideal!Integer(a.n))
         /\ (is_zero(a) <=> Ideal!Zero(Value(a)))
         /\ Ideal!AsDouble(Value(a)) = AsDouble(a)
<1>1. a.n \in Int
  BY ExactInt
<1>2. CASE is_exact(a)
  <2>1. Value(a) = [rep |-> "integer", n |-> a.n] /\ a.rep # "nan"
    BY <1>2 DEF Value, is_exact, DoubleReps
  <2>2. Ideal!AsDouble(Value(a)) = AsDouble(a)
    BY <2>1, <1>2, SameToDouble DEF Ideal!AsDouble, AsDouble, Ideal!exact
  <2> QED BY <1>1, <1>2, <2>1, <2>2 DEF Ideal!exact, Ideal!Integer, is_zero, Ideal!Zero
<1>3. CASE ~is_exact(a)
  <2>1. Value(a) = a /\ a.rep # "integer"
    BY <1>3 DEF Value, is_exact, DoubleReps
  <2> QED BY <1>1, <1>3, <2>1 DEF Ideal!exact, Ideal!Integer, is_zero, Ideal!Zero,
          Ideal!AsDouble, AsDouble
<1> QED BY <1>2, <1>3

\* The comparison of a fixnum with a bignum looks at the sign of the bignum
\* only; canonical forms make that enough.
LEMMA CompareIsOrder ==
  ASSUME NEW a, NEW b, Canonical(a), Canonical(b)
  PROVE  compare(a, b) = Ideal!Order(Value(a), Value(b))
<1>1. a.n \in Int /\ b.n \in Int
  BY ExactInt
<1>2. CASE is_exact(a) /\ is_exact(b)
  <2>1. Ideal!Order(Value(a), Value(b)) =
          IF a.n < b.n THEN "less" ELSE IF a.n = b.n THEN "equivalent" ELSE "greater"
    BY <1>2, Values DEF Ideal!Order
  <2>2. CASE a.rep = "fix" /\ b.rep = "big"
    <3>1. a.n >= -FixMax /\ a.n <= FixMax /\ (b.n > FixMax \/ b.n < -FixMax)
      BY <2>2, NumbersAssumption DEF Canonical, fixnum_min, Magnitude, DoubleReps
    <3>2. compare(a, b) = IF b.n < 0 THEN "greater" ELSE "less"
      BY <1>2, <2>2 DEF compare, is_negative
    <3> QED BY <1>1, <2>1, <3>1, <3>2, NumbersAssumption
  <2>3. CASE a.rep = "big" /\ b.rep = "fix"
    <3>1. b.n >= -FixMax /\ b.n <= FixMax /\ (a.n > FixMax \/ a.n < -FixMax)
      BY <2>3, NumbersAssumption DEF Canonical, fixnum_min, Magnitude, DoubleReps
    <3>2. compare(a, b) = IF a.n < 0 THEN "less" ELSE "greater"
      BY <1>2, <2>3 DEF compare, is_negative
    <3> QED BY <1>1, <2>1, <3>1, <3>2, NumbersAssumption
  <2>4. CASE ~(a.rep = "fix" /\ b.rep = "big") /\ ~(a.rep = "big" /\ b.rep = "fix")
    <3>1. compare(a, b) = IF a.n < b.n THEN "less" ELSE IF a.n > b.n THEN "greater"
                                                           ELSE "equivalent"
      BY <1>2, <2>4 DEF compare
    <3> QED BY <1>1, <2>1, <3>1
  <2> QED BY <2>2, <2>3, <2>4
<1>3. CASE ~(is_exact(a) /\ is_exact(b))
  <2>1. compare(a, b) = DoubleOrder(AsDouble(a), AsDouble(b))
    BY <1>3 DEF compare, is_exact, DoubleReps
  <2> QED BY <1>3, <2>1, Values, SameDoubles DEF Ideal!Order
<1> QED BY <1>2, <1>3

\* Quotient and remainder are determined by what they satisfy.
LEMMA DivUnique ==
  ASSUME NEW n \in Int, NEW k \in Nat \ {0}, NEW q \in Int, NEW r \in 0 .. k - 1, n = k * q + r
  PROVE  n \div k = q /\ n % k = r
<1> DEFINE d == n \div k
           s == n % k
<1>1. d \in Int /\ s \in 0 .. k - 1 /\ n = k * d + s
  OBVIOUS
<1> HIDE DEF d, s
<1>2. k * d + s = k * q + r
  BY <1>1
<1>3. \A i, j \in Int : i >= j + 1 => k * i >= k * j + k
  <2> SUFFICES ASSUME NEW i \in Int, NEW j \in Int, i >= j + 1 PROVE k * i >= k * j + k
    OBVIOUS
  <2>1. i = j + 1 + (i - j - 1) /\ i - j - 1 \in Nat
    OBVIOUS
  <2>2. \A c \in Nat : k * c >= 0 /\ k * c \in Int
    OBVIOUS
  <2>3. \A c \in Nat : k * (j + 1 + c) = k * j + k + k * c
    OBVIOUS
  <2>4. k * i = k * j + k + k * (i - j - 1)
    BY <2>1, <2>3
  <2>5. k * (i - j - 1) >= 0 /\ k * (i - j - 1) \in Int /\ k * j \in Int
    BY <2>1, <2>2
  <2> QED BY <2>4, <2>5
<1>4. k * d \in Int /\ k * q \in Int
  BY <1>1
<1>5. d = q
  BY <1>1, <1>2, <1>3, <1>4
<1>6. s = r
  BY <1>1, <1>2, <1>4, <1>5
<1> QED BY <1>5, <1>6 DEF d, s

LEMMA DivNegated ==
  ASSUME NEW m \in Nat, NEW k \in Nat \ {0}
  PROVE  /\ m \div k \in Nat /\ m % k \in 0 .. k - 1 /\ m = k * (m \div k) + (m % k)
         /\ (m % k = 0 => (-m) \div k = -(m \div k) /\ (-m) % k = 0)
         /\ (m % k # 0 => (-m) \div k = -(m \div k) - 1 /\ (-m) % k = k - (m % k))
<1> DEFINE d == m \div k
           s == m % k
<1>1. d \in Nat /\ s \in 0 .. k - 1 /\ m = k * d + s
  OBVIOUS
<1> HIDE DEF d, s
<1>2. k * (-d) = -(k * d) /\ k * (-d - 1) = -(k * d) - k /\ k * d \in Int
  BY <1>1
<1>3. s = 0 => (-m) \div k = -d /\ (-m) % k = 0
  BY <1>1, <1>2, DivUnique
<1>4. s # 0 => (-m) \div k = -d - 1 /\ (-m) % k = k - s
  <2> SUFFICES ASSUME s # 0 PROVE (-m) \div k = -d - 1 /\ (-m) % k = k - s
    OBVIOUS
  <2> DEFINE q == -d - 1
             r == k - s
  <2>1. q \in Int /\ r \in 0 .. k - 1 /\ -m \in Int
    BY <1>1
  <2>2. -m = k * q + r
    BY <1>1, <1>2
  <2> HIDE DEF q, r
  <2>3. (-m) \div k = q /\ (-m) % k = r
    BY <2>1, <2>2, DivUnique
  <2> QED BY <2>3 DEF q, r
<1> QED BY <1>1, <1>3, <1>4 DEF d, s

\* Truncation and the adjusted remainder of Number::modulo against floors.
LEMMA DivisionAgrees ==
  ASSUME NEW a \in Int, NEW b \in Int, b # 0
  PROVE  /\ Quo(a, b) = Ideal!Toward0(a, b)
         /\ Rem(a, b) = a - b * Ideal!Toward0(a, b)
         /\ (Rem(a, b) = 0 <=> Ideal!Mod(a, b) = 0)
         /\ (Rem(a, b) = 0 => Quo(a, b) = Ideal!Floor(a, b))
         /\ Ideal!Mod(a, b) = IF Rem(a, b) # 0 /\ (Rem(a, b) < 0) # (b < 0)
                              THEN Rem(a, b) + b ELSE Rem(a, b)
<1> DEFINE m == Magnitude(a)
           k == Magnitude(b)
           d == m \div k
           s == m % k
<1>1. m \in Nat /\ k \in Nat \ {0} /\ (a = m \/ a = -m) /\ (b = k \/ b = -k)
      /\ (a < 0 <=> a # m) /\ (b < 0 <=> b # k) /\ (a < 0 => a = -m) /\ (b < 0 => b = -k)
  BY DEF Magnitude
<1>2. /\ d \in Nat /\ s \in 0 .. k - 1 /\ m = k * d + s
      /\ (s = 0 => (-m) \div k = -d /\ (-m) % k = 0)
      /\ (s # 0 => (-m) \div k = -d - 1 /\ (-m) % k = k - s)
  <2> HIDE DEF m, k
  <2> QED BY <1>1, DivNegated
<1>3. Quo(a, b) = (IF (a < 0) # (b < 0) THEN -d ELSE d)
  BY DEF Quo
<1>4. /\ Ideal!Mod(a, b) = (IF b > 0 THEN a % b ELSE -((-a) % (-b)))
      /\ Ideal!Floor(a, b) = (IF b > 0 THEN a \div b ELSE (-a) \div (-b))
      /\ Ideal!Toward0(a, b) = (IF Ideal!Floor(a, b) < 0 /\ Ideal!Mod(a, b) # 0
                                THEN Ideal!Floor(a, b) + 1 ELSE Ideal!Floor(a, b))
  BY DEF Ideal!Mod, Ideal!Floor, Ideal!Toward0
<1>5. m \div k = d /\ m % k = s
  OBVIOUS
<1> HIDE DEF m, k, d, s
<1>6. k * (-d) = -(k * d) /\ (-k) * d = -(k * d) /\ (-k) * (-d) = k * d /\ k * d \in Int
  BY <1>1, <1>2
\* a = d b + s and so on, sign by sign.
<1>7. CASE ~(a < 0) /\ ~(b < 0)
  <2>1. a = m /\ b = k /\ b > 0
    BY <1>1, <1>7
  <2>2. Ideal!Mod(a, b) = s /\ Ideal!Floor(a, b) = d /\ Quo(a, b) = d
    BY <1>3, <1>4, <1>5, <1>7, <2>1
  <2>3. Rem(a, b) = s
    BY <1>2, <1>6, <2>1, <2>2 DEF Rem
  <2>4. Ideal!Toward0(a, b) = d
    BY <1>2, <1>4, <2>2
  <2>5. ~(Rem(a, b) < 0) /\ ~(b < 0)
    BY <1>1, <1>2, <1>7, <2>3
  <2> QED BY <2>2, <2>3, <2>4, <2>5 DEF Rem
<1>8. CASE a < 0 /\ ~(b < 0)
  <2>1. a = -m /\ b = k /\ b > 0
    BY <1>1, <1>8
  <2>2. Ideal!Mod(a, b) = (-m) % k /\ Ideal!Floor(a, b) = (-m) \div k /\ Quo(a, b) = -d
    BY <1>3, <1>4, <1>8, <2>1
  <2>3. Rem(a, b) = -s
    BY <1>2, <1>6, <2>1, <2>2 DEF Rem
  <2> QED BY <1>1, <1>2, <1>4, <1>8, <2>1, <2>2, <2>3 DEF Rem
<1>9. CASE ~(a < 0) /\ b < 0
  <2>1. a = m /\ b = -k /\ ~(b > 0) /\ -b = k
    BY <1>1, <1>9
  <2>2. Ideal!Mod(a, b) = -((-m) % k) /\ Ideal!Floor(a, b) = (-m) \div k /\ Quo(a, b) = -d
    BY <1>3, <1>4, <1>9, <2>1
  <2>3. Rem(a, b) = s
    BY <1>2, <1>6, <2>1, <2>2 DEF Rem
  <2> QED BY <1>1, <1>2, <1>4, <1>9, <2>1, <2>2, <2>3 DEF Rem
<1>10. CASE a < 0 /\ b < 0
  <2>1. a = -m /\ b = -k /\ ~(b > 0) /\ -b = k /\ -a = m
    BY <1>1, <1>10
  <2>2. Ideal!Mod(a, b) = -s /\ Ideal!Floor(a, b) = d /\ Quo(a, b) = d
    BY <1>3, <1>4, <1>5, <1>10, <2>1
  <2>3. Rem(a, b) = -s
    BY <1>2, <1>6, <2>1, <2>2 DEF Rem
  <2> QED BY <1>1, <1>2, <1>4, <1>10, <2>1, <2>2, <2>3 DEF Rem
<1> QED BY <1>7, <1>8, <1>9, <1>10

LEMMA RemFits ==
  ASSUME NEW a \in Int, NEW b \in Int, b # 0
  PROVE  Rem(a, b) \in Int /\ Magnitude(Rem(a, b)) < Magnitude(b)
<1> DEFINE mod == Ideal!Mod(a, b)
           r == Rem(a, b)
<1>1. \A n \in Int : \A k \in Nat \ {0} : n % k \in 0 .. k - 1
  OBVIOUS
<1>2. (b > 0 => mod \in 0 .. b - 1) /\ (b < 0 => -mod \in 0 .. -b - 1 /\ mod \in Int)
  <2>1. CASE b > 0
    BY <1>1, <2>1 DEF Ideal!Mod
  <2>2. CASE b < 0
    <3>1. -a \in Int /\ -b \in Nat \ {0}
      BY <2>2
    <3>2. (-a) % (-b) \in 0 .. -b - 1
      BY <1>1, <3>1
    <3>3. mod = -((-a) % (-b))
      BY <2>2 DEF Ideal!Mod
    <3> QED BY <2>2, <3>2, <3>3
  <2> QED BY <2>1, <2>2
<1>3. (r = 0 <=> mod = 0) /\ (mod = r \/ mod = r + b)
  BY DivisionAgrees
<1>4. r \in Int
  BY QuoFits
<1> HIDE DEF mod, r
<1>5. -Magnitude(b) < r /\ r < Magnitude(b)
  BY <1>2, <1>3, <1>4 DEF Magnitude
<1>6. Magnitude(r) < Magnitude(b)
  BY <1>4, <1>5 DEF Magnitude
<1> QED BY <1>4, <1>6 DEF r

LEMMA DivmodValue ==
  ASSUME NEW a, NEW b, Canonical(a), Canonical(b), is_exact(a), is_exact(b), b.n # 0
  PROVE  /\ Value(divmod(a, b).quot) = Ideal!Integer(Quo(a.n, b.n))
         /\ Value(divmod(a, b).rem) = Ideal!Integer(Rem(a.n, b.n))
<1>1. a.n \in Int /\ b.n \in Int
  BY ExactInt
<1>2. Quo(a.n, b.n) \in Int /\ Rem(a.n, b.n) \in Int
  BY <1>1, QuoFits
<1>3. CASE a.rep = "fix" /\ b.rep = "fix"
  <2>1. Magnitude(a.n) <= FixMax /\ Magnitude(b.n) <= FixMax
    BY <1>1, <1>3, NumbersAssumption DEF Canonical, DoubleReps, Magnitude, fixnum_min
  <2>2. Magnitude(Quo(a.n, b.n)) <= FixMax /\ Magnitude(Rem(a.n, b.n)) <= FixMax
    <3>1. Magnitude(Quo(a.n, b.n)) <= Magnitude(a.n)
      BY <1>1, QuoFits
    <3>2. Magnitude(Rem(a.n, b.n)) < Magnitude(b.n)
      BY <1>1, RemFits
    <3>3. \A n \in Int : Magnitude(n) \in Int
      BY DEF Magnitude
    <3> QED BY <1>1, <1>2, <2>1, <3>1, <3>2, <3>3, NumbersAssumption
  <2>3. Quo(a.n, b.n) \in Int64 /\ Rem(a.n, b.n) \in Int64
    BY <1>2, <2>2, NumbersAssumption DEF Magnitude, Int64, INT_MIN
  <2>4. /\ Wrap(Quo(a.n, b.n)) = Quo(a.n, b.n)
        /\ Wrap(Rem(a.n, b.n)) = Rem(a.n, b.n)
    BY <2>3, WrapFits
  <2> QED BY <1>3, <2>3, <2>4, OfI64 DEF divmod, Ideal!Integer
<1>4. CASE ~(a.rep = "fix" /\ b.rep = "fix")
  BY <1>2, <1>4, FromBigint DEF divmod, Ideal!Integer
<1> QED BY <1>3, <1>4

\* Negation and magnitude never leave int64_t: INT64_MIN is not a fixnum.
LEMMA UnaryValue ==
  ASSUME NEW a, Canonical(a), NEW n \in {-a.n, Magnitude(a.n)}
  PROVE  Value(unary(a, n)) = Ideal!Integer(n)
<1>1. a.n \in Int /\ n \in Int
  BY ExactInt DEF Magnitude
<1>2. CASE a.rep = "fix"
  <2>1. n \in Int64
    BY <1>1, <1>2, NumbersAssumption DEF Canonical, DoubleReps, fixnum_min, Magnitude, Int64, INT_MIN
  <2> QED BY <1>2, <2>1, WrapFits, OfI64 DEF unary, Ideal!Integer
<1>3. CASE a.rep # "fix"
  BY <1>1, <1>3, FromBigint DEF unary, Ideal!Integer
<1> QED BY <1>2, <1>3

LEMMA ModuloValue ==
  ASSUME NEW a, NEW b, Canonical(a), Canonical(b), is_exact(a), is_exact(b), b.n # 0
  PROVE  Value(modulo(a, b)) = Ideal!Integer(Ideal!Mod(a.n, b.n))
<1> DEFINE r == remainder(a, b)
<1>1. a.n \in Int /\ b.n \in Int
  BY ExactInt
<1>2. Canonical(r) /\ Value(r) = Ideal!Integer(Rem(a.n, b.n))
  BY DivmodCanonical, DivmodValue DEF remainder
<1>3. r.n = Rem(a.n, b.n) /\ r.n \in Int /\ is_exact(r)
  <2>1. Value(r).n = r.n /\ r.n \in Int
    BY <1>2, Values
  <2>2. Ideal!exact(Value(r))
    BY <1>2 DEF Ideal!exact, Ideal!Integer
  <2>3. is_exact(r)
    BY <1>2, <2>2, Values
  <2>4. Value(r).n = Rem(a.n, b.n)
    BY <1>2 DEF Ideal!Integer
  <2> QED BY <2>1, <2>3, <2>4
<1>4. is_zero(r) <=> r.n = 0
  BY <1>3 DEF is_zero, is_exact, DoubleReps
<1>5. modulo(a, b) = IF r.n # 0 /\ (r.n < 0) # (b.n < 0) THEN arith(r, b, r.n + b.n) ELSE r
  BY <1>4 DEF modulo, is_negative
<1>6. Value(arith(r, b, r.n + b.n)) = Ideal!Integer(r.n + b.n)
  BY <1>1, <1>3, ArithCanonical DEF Ideal!Integer
<1>7. Ideal!Mod(a.n, b.n) = IF r.n # 0 /\ (r.n < 0) # (b.n < 0) THEN r.n + b.n ELSE r.n
  BY <1>1, <1>3, DivisionAgrees
<1> HIDE DEF r
<1> QED BY <1>2, <1>3, <1>5, <1>6, <1>7
-----------------------------------------------------------------------------
\* How the steps of Numbers look through Value.
LEMMA StoreMaps == ASSUME NEW op, NEW v, Store(op, v) PROVE Ideal!Store(op, Value(v))
BY DEF Store, Ideal!Store, Value, is_exact

LEMMA StoreExactMaps ==
  ASSUME NEW op, NEW v, NEW n, StoreExact(op, v), Value(v) = Ideal!Integer(n)
  PROVE  Ideal!StoreInteger(op, n)
<1>1. v.n = n
  BY DEF Value, Ideal!Integer
<1> QED BY <1>1, StoreMaps, SameDoubles DEF StoreExact, Ideal!StoreInteger

LEMMA StoreDoubleMaps == ASSUME NEW op, StoreDouble(op) PROVE Ideal!StoreDouble(op)
<1>1. PICK d \in Doubles : Store(op, d)
  BY DEF StoreDouble
<1>2. Value(d) = d
  BY DEF Doubles, Double, Infinity, NaN, Value, is_exact, DoubleReps
<1> QED BY <1>1, <1>2, StoreMaps, SameDoubles DEF Ideal!StoreDouble

LEMMA AnswersMap == ASSUME NEW q, NEW a, Answers(q, a) PROVE Ideal!Answers(q, a)
BY DEF Answers, Ideal!Answers, Value, is_exact

LEMMA FailsMaps == ASSUME NEW why, Fails(why) PROVE Ideal!Answers("error", why)
BY AnswersMap DEF Fails

\* An operation that has no result, an exact one, or some double.
LEMMA OperateMaps ==
  ASSUME NEW op \in Ideal!Operations,
         \/ Ideal!Undefined(op) /\ Fails("division by zero")
         \/ /\ ~Ideal!Undefined(op) /\ Ideal!AllExact(op)
            /\ \E n \in Ideal!Results(op) : \E v :
                 Value(v) = Ideal!Integer(n) /\ StoreExact(op, v)
         \/ /\ ~Ideal!Undefined(op) /\ ~(Ideal!AllExact(op) /\ Ideal!Results(op) # {})
            /\ StoreDouble(op)
  PROVE  Ideal!Next
<1>1. Ideal!Operate(op)
  BY FailsMaps, StoreExactMaps, StoreDoubleMaps DEF Ideal!Operate
<1> QED BY <1>1 DEF Ideal!Next

\* The facts about x and y that every step below uses.
Known ==
  /\ Canonical(x) /\ Canonical(y)
  /\ Value(x).n = x.n /\ Value(y).n = y.n /\ x.n \in Int /\ y.n \in Int
  /\ (Ideal!exact(Value(x)) <=> is_exact(x)) /\ (Ideal!exact(Value(y)) <=> is_exact(y))
  /\ (is_zero(y) <=> Ideal!Zero(Value(y)))
  /\ (is_exact(y) => (is_zero(y) <=> y.n = 0))

LEMMA AllKnown == AllCanonical => Known
BY Values DEF AllCanonical, Known, is_zero, is_exact, DoubleReps

LEMMA BinaryMaps ==
  ASSUME Known, NEW op \in {"add", "sub", "mul"}, NEW n \in Int, Ideal!Results(op) = {n},
         \/ Exact /\ StoreExact(op, arith(x, y, n))
         \/ ~Exact /\ StoreDouble(op)
  PROVE  Ideal!Next
<1>1. Value(arith(x, y, n)) = Ideal!Integer(n)
  BY ArithCanonical DEF Ideal!Integer
<1>2. op \in Ideal!Operations /\ ~Ideal!Undefined(op) /\ (Ideal!AllExact(op) <=> Exact)
  BY DEF Ideal!Operations, Ideal!Unary, Ideal!Integral, Ideal!Undefined, Ideal!AllExact,
         Exact, Known
<1> QED BY <1>1, <1>2, OperateMaps

LEMMA DivideMaps ==
  ASSUME Known, NEW op \in {"quotient", "remainder", "modulo"}, NEW n, NEW r,
         Ideal!Results(op) = {n},
         Exact /\ ~is_zero(y) => Value(r) = Ideal!Integer(n),
         \/ is_zero(y) /\ Fails("division by zero")
         \/ Exact /\ ~is_zero(y) /\ StoreExact(op, r)
         \/ ~Exact /\ ~is_zero(y) /\ StoreDouble(op)
  PROVE  Ideal!Next
<1>1. /\ op \in Ideal!Operations /\ (Ideal!Undefined(op) <=> is_zero(y))
      /\ (Ideal!AllExact(op) <=> Exact)
  BY DEF Ideal!Operations, Ideal!Unary, Ideal!Integral, Ideal!Undefined, Ideal!AllExact,
         Exact, Known
<1> QED BY <1>1, OperateMaps

LEMMA DivMaps == ASSUME Known, Div PROVE Ideal!Next
<1>1. /\ "div" \in Ideal!Operations
      /\ (Ideal!Undefined("div") <=> Exact /\ is_zero(y))
      /\ (Ideal!AllExact("div") <=> Exact)
      /\ Ideal!Results("div") = IF Ideal!Mod(x.n, y.n) = 0 THEN {Ideal!Floor(x.n, y.n)} ELSE {}
  BY DEF Ideal!Operations, Ideal!Unary, Ideal!Integral, Ideal!Undefined, Ideal!AllExact,
         Ideal!Exact, Exact, Known, Ideal!Results
<1>2. CASE Exact /\ is_zero(y) /\ Fails("division by zero")
  BY <1>1, <1>2, OperateMaps
<1>3. CASE ~Exact /\ StoreDouble("div")
  BY <1>1, <1>3, OperateMaps
<1>4. CASE Exact /\ ~is_zero(y)
  <2> DEFINE q == divmod(x, y).quot
             r == divmod(x, y).rem
  <2>1. y.n # 0 /\ is_exact(x) /\ is_exact(y)
    BY <1>4 DEF Known, Exact
  <2>2. /\ Value(q) = Ideal!Integer(Quo(x.n, y.n))
        /\ Value(r) = Ideal!Integer(Rem(x.n, y.n)) /\ Canonical(r)
    BY <2>1, DivmodValue, DivmodCanonical DEF Known
  <2>3. is_zero(r) <=> Rem(x.n, y.n) = 0
    <3>1. Value(r).n = r.n /\ (Ideal!exact(Value(r)) <=> is_exact(r))
      BY <2>2, Values
    <3> QED BY <2>2, <3>1 DEF Ideal!exact, Ideal!Integer, is_zero, is_exact, DoubleReps
  <2>4. /\ (Rem(x.n, y.n) = 0 <=> Ideal!Mod(x.n, y.n) = 0)
        /\ (Rem(x.n, y.n) = 0 => Quo(x.n, y.n) = Ideal!Floor(x.n, y.n))
    BY <2>1, DivisionAgrees DEF Known
  <2>5. \/ is_zero(r) /\ StoreExact("div", q)
        \/ ~is_zero(r) /\ StoreDouble("div")
    BY <1>4 DEF Div
  <2> HIDE DEF q, r
  <2>6. CASE is_zero(r) /\ StoreExact("div", q)
    <3>1. Ideal!Floor(x.n, y.n) \in Ideal!Results("div")
      BY <1>1, <2>3, <2>4, <2>6
    <3>2. Value(q) = Ideal!Integer(Ideal!Floor(x.n, y.n))
      BY <2>2, <2>3, <2>4, <2>6
    <3> QED BY <1>1, <1>4, <2>6, <3>1, <3>2, OperateMaps
  <2>7. CASE ~is_zero(r) /\ StoreDouble("div")
    BY <1>1, <1>4, <2>3, <2>4, <2>7, OperateMaps
  <2> QED BY <2>5, <2>6, <2>7
<1> QED BY <1>2, <1>3, <1>4 DEF Div

LEMMA UnaryMaps ==
  ASSUME Known, NEW op \in {"neg", "abs"}, NEW n \in {-x.n, Magnitude(x.n)},
         Ideal!Results(op) = {n},
         \/ is_exact(x) /\ StoreExact(op, unary(x, n))
         \/ ~is_exact(x) /\ StoreDouble(op)
  PROVE  Ideal!Next
<1>1. Value(unary(x, n)) = Ideal!Integer(n)
  BY UnaryValue DEF Known
<1>2. op \in Ideal!Operations /\ ~Ideal!Undefined(op) /\ (Ideal!AllExact(op) <=> is_exact(x))
  BY DEF Ideal!Operations, Ideal!Unary, Ideal!Integral, Ideal!Undefined, Ideal!AllExact, Known
<1> QED BY <1>1, <1>2, OperateMaps

LEMMA SqrtMaps == ASSUME Known, Sqrt PROVE Ideal!Next
<1>1. /\ "sqrt" \in Ideal!Operations /\ ~Ideal!Undefined("sqrt")
      /\ (Ideal!AllExact("sqrt") <=> is_exact(x))
      /\ Ideal!Results("sqrt") = Roots(x.n)
  BY SameDoubles DEF Ideal!Operations, Ideal!Unary, Ideal!Integral, Ideal!Undefined,
     Ideal!AllExact, Known, Ideal!Results, Ideal!Root, Roots
<1>2. \A r \in Roots(x.n) : Value(from_bigint(r)) = Ideal!Integer(r)
  BY FromBigint DEF Known, Roots, Magnitude, Ideal!Integer
<1> QED BY <1>1, <1>2, OperateMaps DEF Sqrt

LEMMA ExptMaps == ASSUME Known, AllCanonical, Expt PROVE Ideal!Next
<1>1. /\ "expt" \in Ideal!Operations /\ ~Ideal!Undefined("expt")
      /\ (Ideal!AllExact("expt") <=> Exact)
      /\ Ideal!Results("expt") = IF y.n \in 0 .. MaxPower THEN {Power(x.n, y.n)} ELSE {}
  BY DEF Ideal!Operations, Ideal!Unary, Ideal!Integral, Ideal!Undefined, Ideal!AllExact,
         Exact, Known, Ideal!Results, Ideal!Power, Power
<1>2. CASE Computable
  <2>1. Exact /\ y.n \in 0 .. MaxPower
    BY <1>2 DEF Computable, Exact, is_exact, DoubleReps, Known
  <2>2. PICK p \in -Bound .. Bound : p = Power(x.n, y.n) /\ Store("expt", from_bigint(p))
    BY <1>2 DEF Expt
  <2>3. p \in Int /\ Value(from_bigint(p)) = Ideal!Integer(p) /\ Magnitude(p) <= Bound
    BY FromBigint, NumbersAssumption DEF Ideal!Integer, Magnitude
  <2>4. from_bigint(p).n = p
    BY <2>3 DEF Value, Ideal!Integer
  <2>5. StoreExact("expt", from_bigint(p))
    BY <2>2, <2>3, <2>4 DEF StoreExact
  <2> QED BY <1>1, <2>1, <2>2, <2>3, <2>5, OperateMaps
<1>3. CASE ~Computable /\ StoreDouble("expt")
  <2>1. y.rep = "big" => ~(y.n \in 0 .. MaxPower)
    BY NumbersAssumption DEF Known, Canonical, DoubleReps, Magnitude
  <2>2. ~(Exact /\ y.n \in 0 .. MaxPower)
    BY <1>3, <2>1 DEF Computable, Exact, is_exact, DoubleReps, Known, Canonical
  <2> QED BY <1>1, <1>3, <2>2, OperateMaps
<1> QED BY <1>2, <1>3 DEF Expt

LEMMA EvenAgrees ==
  ASSUME NEW a, Canonical(a)
  PROVE  /\ is_even(a) = (IF Ideal!exact(Value(a)) THEN Value(a).n % 2 = 0
                          ELSE Ideal!IsIntegral(Value(a)) /\ Value(a).n % 4 = 0)
         /\ is_integer(a) = (Ideal!exact(Value(a)) \/ Ideal!IsIntegral(Value(a)))
<1>1. a.n \in Int /\ Value(a).n = a.n /\ (Ideal!exact(Value(a)) <=> is_exact(a))
  BY Values
<1>2. CASE is_exact(a)
  BY <1>1, <1>2 DEF is_even, is_integer
<1>3. CASE ~is_exact(a)
  <2>1. Value(a) = a
    BY <1>3 DEF Value
  <2>2. \A n \in Int : n % 4 = 0 => n % 2 = 0
    OBVIOUS
  <2>3. Ideal!IsIntegral(a) <=> a.rep = "double" /\ a.n % 2 = 0
    BY SameDoubles DEF IsIntegral
  <2>4. is_even(a) <=> a.rep = "double" /\ a.n % 4 = 0
    BY <1>3 DEF is_even
  <2>5. is_integer(a) <=> Ideal!IsIntegral(a)
    BY <1>3, SameDoubles DEF is_integer
  <2>6. is_even(a) \in BOOLEAN /\ is_integer(a) \in BOOLEAN
    BY <1>3 DEF is_even, is_integer, IsIntegral
  <2> QED BY <1>1, <1>3, <2>1, <2>2, <2>3, <2>4, <2>5, <2>6
<1> QED BY <1>2, <1>3

\* A double is an index below 2 ** digits, an integer up to the largest size_t.
LEMMA IndexAgrees == ASSUME NEW a, Canonical(a) PROVE to_size(a) = Ideal!Index(Value(a))
<1>1. a.n \in Int /\ Value(a).n = a.n /\ (Ideal!exact(Value(a)) <=> is_exact(a))
  BY Values
<1>2. CASE a.rep = "fix" \/ a.rep = "big"
  <2>1. Ideal!Index(Value(a)) = IF a.n \in 0 .. SizeMax THEN a.n ELSE -1
    BY <1>1, <1>2 DEF Ideal!Index, is_exact, DoubleReps
  <2>2. to_size(a) = IF a.n < 0 \/ a.n > SizeMax THEN -1 ELSE a.n
    BY <1>2 DEF to_size, is_negative
  <2> QED BY <1>1, <2>1, <2>2, NumbersAssumption
<1>3. CASE a.rep \in DoubleReps
  <2>1. Value(a) = a /\ ~is_exact(a)
    BY <1>3 DEF Value, is_exact
  <2> DEFINE h == a.n \div 2
  <2>2. Ideal!Index(a) = IF IsIntegral(a) /\ h \in 0 .. SizeMax THEN h ELSE -1
    BY <1>1, <2>1, SameDoubles DEF Ideal!Index
  <2>3. to_size(a) = IF IsIntegral(a) /\ ~(a.n < 0) /\ ~(a.n >= 2 * (SizeMax + 1)) THEN h ELSE -1
    BY <1>3 DEF to_size, DoubleReps, IsIntegral
  <2>4. IsIntegral(a) => a.n = 2 * h /\ h \in Int
    <3>1. \A n \in Int : n % 2 = 0 => n = 2 * (n \div 2) /\ n \div 2 \in Int
      OBVIOUS
    <3> QED BY <1>1, <3>1 DEF IsIntegral
  <2> HIDE DEF h
  <2> QED BY <1>1, <2>1, <2>2, <2>3, <2>4, NumbersAssumption
<1> QED BY <1>2, <1>3 DEF Canonical

\* README: "Numbers are exact integers (fixnum, auto-promoting to arbitrary-
\* precision bignum) or inexact reals": which of the two an exact integer is,
\* and the width of a fixnum, change no result, no order and no index.
THEOREM Implements == Spec => IdealSpec
<1>1. Init => Ideal!Init
  BY DEF Init, Ideal!Init, Fix, Value, is_exact, DoubleReps, Ideal!Integer, None, Ideal!None
<1>2. AllCanonical /\ [Next]_vars => [Ideal!Next]_(Ideal!vars)
  <2> SUFFICES ASSUME AllCanonical, [Next]_vars PROVE Ideal!Next \/ UNCHANGED Ideal!vars
    OBVIOUS
  <2>0. Known
    BY AllKnown
  <2>1. CASE Literal
    <3>1. \A n \in Literals : Value(parse(n)) = Ideal!Integer(n)
      BY ParseCanonical, NumbersAssumption DEF Ideal!Integer
    <3>2. \A d \in Doubles : Value(d) = d
      BY DEF Doubles, Double, Infinity, NaN, Value, is_exact, DoubleReps
    <3>3. Value(y') \in {Ideal!Integer(n) : n \in Literals} \cup Ideal!Doubles
      BY <2>1, <3>1, <3>2, SameDoubles DEF Literal
    <3>4. Ideal!Literal
      BY <2>1, <3>3 DEF Literal, Ideal!Literal, Value, is_exact, None, Ideal!None
    <3> QED BY <3>4 DEF Ideal!Next
  <2>2. CASE Assign
    <3>1. Ideal!Assign
      BY <2>2 DEF Assign, Ideal!Assign, Value, is_exact, None, Ideal!None
    <3> QED BY <3>1 DEF Ideal!Next
  <2>3. CASE Add
    <3>1. Ideal!Results("add") = {x.n + y.n}
      BY <2>0 DEF Known, Ideal!Results
    <3> QED BY <2>0, <2>3, <3>1, BinaryMaps DEF Add, Known
  <2>4. CASE Sub
    <3>1. Ideal!Results("sub") = {x.n - y.n}
      BY <2>0 DEF Known, Ideal!Results
    <3> QED BY <2>0, <2>4, <3>1, BinaryMaps DEF Sub, Known
  <2>5. CASE Mul
    <3>1. Ideal!Results("mul") = {x.n * y.n}
      BY <2>0 DEF Known, Ideal!Results
    <3>2. x.n * y.n \in Int
      BY <2>0 DEF Known
    <3> QED BY <2>0, <2>5, <3>1, <3>2, BinaryMaps DEF Mul
  <2>6. CASE Div
    BY <2>0, <2>6, DivMaps
  <2>7. Exact /\ ~is_zero(y) =>
          /\ y.n # 0 /\ is_exact(x) /\ is_exact(y) /\ x.n \in Int /\ y.n \in Int
          /\ Canonical(x) /\ Canonical(y)
    BY <2>0 DEF Known, Exact
  <2>8. CASE Quotient
    <3>1. Ideal!Results("quotient") = {Ideal!Toward0(x.n, y.n)}
      BY <2>0 DEF Known, Ideal!Results
    <3>2. Exact /\ ~is_zero(y) =>
            Value(quotient(x, y)) = Ideal!Integer(Ideal!Toward0(x.n, y.n))
      BY <2>7, DivmodValue, DivisionAgrees DEF quotient
    <3> QED BY <2>0, <2>8, <3>1, <3>2, DivideMaps DEF Quotient, Divide
  <2>9. CASE Remainder
    <3>1. Ideal!Results("remainder") = {x.n - y.n * Ideal!Toward0(x.n, y.n)}
      BY <2>0 DEF Known, Ideal!Results
    <3>2. Exact /\ ~is_zero(y) =>
            Value(remainder(x, y)) = Ideal!Integer(x.n - y.n * Ideal!Toward0(x.n, y.n))
      BY <2>7, DivmodValue, DivisionAgrees DEF remainder
    <3> QED BY <2>0, <2>9, <3>1, <3>2, DivideMaps DEF Remainder, Divide
  <2>10. CASE Modulo
    <3>1. Ideal!Results("modulo") = {Ideal!Mod(x.n, y.n)}
      BY <2>0 DEF Known, Ideal!Results
    <3>2. Exact /\ ~is_zero(y) => Value(modulo(x, y)) = Ideal!Integer(Ideal!Mod(x.n, y.n))
      BY <2>7, ModuloValue
    <3> QED BY <2>0, <2>10, <3>1, <3>2, DivideMaps DEF Modulo, Divide
  <2>11. CASE Negate
    <3>1. Ideal!Results("neg") = {-x.n}
      BY <2>0 DEF Known, Ideal!Results
    <3> QED BY <2>0, <2>11, <3>1, UnaryMaps DEF Negate
  <2>12. CASE Absolute
    <3>1. Ideal!Results("abs") = {Magnitude(x.n)}
      BY <2>0, SameDoubles DEF Known, Ideal!Results
    <3>2. Magnitude(x.n) = IF x.n < 0 THEN -x.n ELSE x.n
      BY DEF Magnitude
    <3> QED BY <2>0, <2>12, <3>1, <3>2, UnaryMaps DEF Absolute
  <2>13. CASE Sqrt
    BY <2>0, <2>13, SqrtMaps
  <2>14. CASE Expt
    BY <2>0, <2>14, ExptMaps
  <2>15. \A a : Canonical(a) => Value(AsDouble(a)) = Ideal!AsDouble(Value(a))
    <3> SUFFICES ASSUME NEW a, Canonical(a)
                 PROVE  Value(AsDouble(a)) = Ideal!AsDouble(Value(a))
      OBVIOUS
    <3>1. AsDouble(a) = Ideal!AsDouble(Value(a))
      BY Values
    <3>2. ~is_exact(AsDouble(a))
      BY ToDouble, ExactInt DEF AsDouble, is_exact
    <3> QED BY <3>1, <3>2 DEF Value
  <2>16. CASE ToInexact
    <3>1. Ideal!Store("inexact", Value(AsDouble(x)))
      BY <2>16, StoreMaps DEF ToInexact
    <3>2. Ideal!ToInexact
      BY <2>0, <2>15, <3>1 DEF Ideal!ToInexact, Known
    <3> QED BY <3>2 DEF Ideal!Next
  <2>17. CASE ToExact
    <3>1. CASE is_exact(x) /\ Store("exact", x)
      <4>1. Ideal!ToExact
        BY <2>0, <3>1, StoreMaps DEF Ideal!ToExact, Known
      <4> QED BY <4>1 DEF Ideal!Next
    <3>2. ASSUME ~is_exact(x) PROVE Value(x) = x /\ ~Ideal!exact(Value(x))
      BY <2>0, <3>2 DEF Known, Value
    <3>3. CASE ~is_exact(x) /\ ~IsIntegral(x) /\ Fails("not an integer")
      <4>1. Ideal!ToExact
        BY <3>2, <3>3, FailsMaps, SameDoubles DEF Ideal!ToExact
      <4> QED BY <4>1 DEF Ideal!Next
    <3>4. IsIntegral(x) => ~is_exact(x) /\ x.n = 2 * (x.n \div 2) /\ x.n \div 2 \in Int
      <4>1. \A n \in Int : n % 2 = 0 => n = 2 * (n \div 2) /\ n \div 2 \in Int
        OBVIOUS
      <4> QED BY <2>0, <4>1 DEF Known, IsIntegral, is_exact, DoubleReps
    <3> DEFINE h == x.n \div 2
    <3>5. CASE /\ IsIntegral(x) /\ (x.n < 2 * INT_MIN \/ x.n >= 2 * (FixMax + 1))
               /\ Fails("magnitude too large")
      <4>1. ~(h \in -FixMax - 1 .. FixMax)
        <5>1. x.n = 2 * h /\ h \in Int
          BY <3>4, <3>5
        <5> HIDE DEF h
        <5>2. x.n < 2 * (-FixMax - 1) \/ x.n >= 2 * (FixMax + 1)
          BY <3>5 DEF INT_MIN
        <5>3. FixMax \in Nat
          BY NumbersAssumption
        <5> QED BY <5>1, <5>2, <5>3
      <4>2. Ideal!ToExact
        BY <3>2, <3>4, <3>5, <4>1, FailsMaps, SameDoubles DEF Ideal!ToExact
      <4> QED BY <4>2 DEF Ideal!Next
    <3>6. CASE /\ IsIntegral(x) /\ x.n >= 2 * INT_MIN /\ x.n < 2 * (FixMax + 1)
               /\ StoreExact("exact", of_i64(Wrap(h)))
      <4>1. h \in -FixMax - 1 .. FixMax /\ h \in Int64
        BY <3>4, <3>6, NumbersAssumption DEF INT_MIN, Int64
      <4>2. Value(of_i64(Wrap(h))) = Ideal!Integer(h)
        BY <4>1, WrapFits, OfI64 DEF Ideal!Integer
      <4>3. Ideal!Store("exact", Ideal!Integer(h))
        BY <3>6, <4>2, StoreMaps DEF StoreExact
      <4>4. Ideal!ToExact
        BY <3>2, <3>4, <3>6, <4>1, <4>3, SameDoubles DEF Ideal!ToExact
      <4> QED BY <4>4 DEF Ideal!Next
    <3> QED BY <2>17, <3>1, <3>3, <3>5, <3>6 DEF ToExact
  <2>18. CASE MinMax
    <3>1. ASSUME NEW wanted \in {"greater", "less"}, Extreme(wanted) PROVE Ideal!MinMax
      <4> DEFINE best == IF compare(y, x) = wanted THEN y ELSE x
                 up == IF Ideal!Order(Value(y), Value(x)) = wanted THEN Value(y) ELSE Value(x)
      <4>1. Canonical(best) /\ up = Value(best)
        BY <2>0, CompareIsOrder DEF Known
      <4>2. Store(wanted, IF Exact THEN best ELSE AsDouble(best))
        BY <3>1 DEF Extreme
      <4>3. Exact <=> Ideal!Exact
        BY <2>0 DEF Known, Exact, Ideal!Exact
      <4>4. Ideal!Store(wanted, IF Ideal!Exact THEN up ELSE Ideal!AsDouble(up))
        <5> HIDE DEF best, up
        <5> QED BY <2>15, <4>1, <4>2, <4>3, StoreMaps
      <4> QED BY <4>4 DEF Ideal!MinMax
    <3> QED BY <2>18, <3>1 DEF MinMax, Ideal!Next
  <2>19. CASE Compare
    <3>1. Ideal!Answers("compare", Ideal!Order(Value(x), Value(y)))
      BY <2>0, <2>19, CompareIsOrder, AnswersMap DEF Compare, Known
    <3> QED BY <3>1 DEF Ideal!Next, Ideal!Ask
  <2>20. CASE Eqv
    <3>1. eqv(x, y) <=> (Ideal!exact(Value(x)) = Ideal!exact(Value(y))
                         /\ Ideal!Order(Value(x), Value(y)) = "equivalent")
      BY <2>0, CompareIsOrder DEF eqv, Known, is_exact, Ideal!exact
    <3>2. Ideal!Answers("eqv", eqv(x, y))
      BY <2>20, AnswersMap DEF Eqv
    <3> QED BY <3>1, <3>2 DEF Ideal!Next, Ideal!Ask, eqv
  <2>21. CASE IsEven
    <3>1. Ideal!Answers("even", is_even(x))
      BY <2>21, AnswersMap DEF IsEven
    <3>2. is_even(x) = IF Ideal!exact(Value(x)) THEN Value(x).n % 2 = 0
                       ELSE Ideal!IsIntegral(Value(x)) /\ Value(x).n % 4 = 0
      BY <2>0, EvenAgrees DEF Known
    <3> QED BY <3>1, <3>2 DEF Ideal!Next, Ideal!Ask
  <2>22. CASE IsInteger
    <3>1. Ideal!Answers("integer", is_integer(x))
      BY <2>22, AnswersMap DEF IsInteger
    <3>2. is_integer(x) = (Ideal!exact(Value(x)) \/ Ideal!IsIntegral(Value(x)))
      BY <2>0, EvenAgrees DEF Known
    <3> QED BY <3>1, <3>2 DEF Ideal!Next, Ideal!Ask
  <2>23. CASE ToSize
    <3>1. Ideal!Answers("size", to_size(x))
      BY <2>23, AnswersMap DEF ToSize
    <3>2. to_size(x) = Ideal!Index(Value(x))
      BY <2>0, IndexAgrees DEF Known
    <3> QED BY <3>1, <3>2 DEF Ideal!Next, Ideal!Ask
  <2>24. CASE UNCHANGED vars
    BY <2>24 DEF vars, Ideal!vars, Value, is_exact
  <2> QED BY <2>1, <2>2, <2>3, <2>4, <2>5, <2>6, <2>8, <2>9, <2>10, <2>11, <2>12, <2>13, <2>14,
             <2>16, <2>17, <2>18, <2>19, <2>20, <2>21, <2>22, <2>23, <2>24 DEF Next
<1> QED BY <1>1, <1>2, CanonicalForm, PTL DEF Spec, IdealSpec, Ideal!Spec
=============================================================================
