---------------------------- MODULE IdealNumbers ----------------------------
(***************************************************************************)
(* What the numeric tower promises: exact numbers are the integers, with   *)
(* their order and their division, and an operation on two of them is      *)
(* exact where its result is an integer.                                   *)
(***************************************************************************)
EXTENDS Doubles

CONSTANTS FixMax, SizeMax, MaxPower, Literals, Bound

VARIABLES u, w, answer
vars == <<u, w, answer>>

Integer(n) == [rep |-> "integer", n |-> n]
exact(a) == a.rep = "integer"
AsDouble(a) == IF exact(a) THEN to_double(a.n) ELSE a
None == <<"none">>
Init == u = Integer(0) /\ w = Integer(0) /\ answer = None

Exact == exact(u) /\ exact(w)
Store(op, a) == u' = a /\ answer' = <<op>> /\ UNCHANGED w
StoreInteger(op, n) == Magnitude(n) <= Bound /\ Store(op, Integer(n))
StoreDouble(op) == \E d \in Doubles : Store(op, d)
Answers(question, a) == answer' = <<question, a>> /\ UNCHANGED <<u, w>>
Zero(a) == a.rep # "nan" /\ a.n = 0

Literal == /\ w' \in {Integer(n) : n \in Literals} \cup Doubles
           /\ answer' = None /\ UNCHANGED u
Assign == w' = u /\ answer' = None /\ UNCHANGED u

\* The quotient toward zero and its remainder; modulo is the remainder of the
\* quotient toward minus infinity, so it has the sign of the divisor.
Mod(a, b) == IF b > 0 THEN a % b ELSE -((-a) % (-b))
Floor(a, b) == IF b > 0 THEN a \div b ELSE (-a) \div (-b)
Toward0(a, b) == IF Floor(a, b) < 0 /\ Mod(a, b) # 0 THEN Floor(a, b) + 1 ELSE Floor(a, b)
Root(n) == {r \in 0 .. Magnitude(n) : r * r = n}
Power(a, e) == IF e = 0 THEN 1 ELSE a ^ e

\* The integers an operation can return on integers, and where it has none.
Results(op) ==
  LET a == u.n
      b == w.n
  IN CASE op = "add" -> {a + b}
       [] op = "sub" -> {a - b}
       [] op = "mul" -> {a * b}
       [] op = "div" -> IF Mod(a, b) = 0 THEN {Floor(a, b)} ELSE {}
       [] op = "quotient" -> {Toward0(a, b)}
       [] op = "remainder" -> {a - b * Toward0(a, b)}
       [] op = "modulo" -> {Mod(a, b)}
       [] op = "neg" -> {-a}
       [] op = "abs" -> {Magnitude(a)}
       [] op = "sqrt" -> Root(a)
       [] op = "expt" -> IF b \in 0 .. MaxPower THEN {Power(a, b)} ELSE {}
Unary == {"neg", "abs", "sqrt"}
Integral == {"quotient", "remainder", "modulo"}
Operations == Unary \cup Integral \cup {"add", "sub", "mul", "div", "expt"}

Undefined(op) == \/ op \in Integral /\ Zero(w)
                 \/ op = "div" /\ Exact /\ Zero(w)
AllExact(op) == exact(u) /\ (op \in Unary \/ exact(w))
Operate(op) ==
  IF Undefined(op) THEN Answers("error", "division by zero")
  ELSE IF AllExact(op) /\ Results(op) # {}
       THEN \E n \in Results(op) : StoreInteger(op, n)
       ELSE StoreDouble(op)

ToInexact == Store("inexact", AsDouble(u))
ToExact ==
  IF exact(u) THEN Store("exact", u)
  ELSE IF ~IsIntegral(u) THEN Answers("error", "not an integer")
  ELSE IF u.n \div 2 \in -FixMax - 1 .. FixMax THEN Store("exact", Integer(u.n \div 2))
  ELSE Answers("error", "magnitude too large")

Order(a, b) ==
  IF exact(a) /\ exact(b)
  THEN IF a.n < b.n THEN "less" ELSE IF a.n = b.n THEN "equivalent" ELSE "greater"
  ELSE DoubleOrder(AsDouble(a), AsDouble(b))
\* The operand that is beyond the other, or the first.
MinMax ==
  \E beyond \in {"greater", "less"} :
    LET best == IF Order(w, u) = beyond THEN w ELSE u
    IN Store(beyond, IF Exact THEN best ELSE AsDouble(best))

Index(a) ==
  LET n == IF exact(a) THEN a.n ELSE a.n \div 2
  IN IF (exact(a) \/ IsIntegral(a)) /\ n \in 0 .. SizeMax THEN n ELSE -1
Ask ==
  \/ Answers("compare", Order(u, w))
  \/ Answers("eqv", exact(u) = exact(w) /\ Order(u, w) = "equivalent")
  \/ Answers("even", IF exact(u) THEN u.n % 2 = 0 ELSE IsIntegral(u) /\ u.n % 4 = 0)
  \/ Answers("integer", exact(u) \/ IsIntegral(u))
  \/ Answers("size", Index(u))

Next == Literal \/ Assign \/ (\E op \in Operations : Operate(op)) \/ ToInexact
        \/ ToExact \/ MinMax \/ Ask
Spec == Init /\ [][Next]_vars
=============================================================================
