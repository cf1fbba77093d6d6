------------------------ MODULE SessionContract_proof -----------------------
(***************************************************************************)
(* Session implements SessionContract, for any programs, files, callbacks  *)
(* and depth limit.  While a call is in progress its frames tell what it   *)
(* will come to: what has happened so far, then the rest of the innermost  *)
(* frame, then the rest of the one below, and so on outwards.  That this   *)
(* is always what the contract says of the call is the invariant           *)
(* (Promised): each step turns some of what is to come into what has been. *)
(*                                                                         *)
(* The contract is told in recursive functions: of the forms of a source,  *)
(* and of the evaluations that may still nest, since files load files.     *)
(* That they satisfy their equations is proved first, by induction over    *)
(* sets of numbers.                                                        *)
(***************************************************************************)
EXTENDS Session_proof, WellFoundedInduction

(***************************************************************************)
(* Effects, one after another.                                             *)
(***************************************************************************)
Kinds == {"output", "result"}
Exceptions == {"none", "scheme", "host", "exit"}
Effects == [events : Seq(Kinds), exc : Exceptions, value : {"void", "some"}]

LEMMA EffectType ==
  ASSUME NEW ev \in Seq(Kinds), NEW x \in Exceptions, NEW v \in {"void", "some"}
  PROVE  Contract!Effect(ev, x, v) \in Effects
BY DEF Effects, Contract!Effect

LEMMA IsEffect ==
  ASSUME NEW a \in Effects
  PROVE  a = Contract!Effect(a.events, a.exc, a.value)
BY DEF Effects, Contract!Effect

LEMMA ThenStops ==
  ASSUME NEW a, a.exc # "none", NEW b PROVE Contract!Then(a, b) = a
BY DEF Contract!Then

LEMMA ThenGoes ==
  ASSUME NEW a \in Effects, a.exc = "none", NEW b \in Effects
  PROVE  /\ Contract!Then(a, b) = Contract!Effect(a.events \o b.events, b.exc, b.value)
         /\ a.events \o b.events \in Seq(Kinds)
<1> DEFINE ev == a.events \o b.events
<1>1. ev \in Seq(Kinds)
  BY DEF Effects
<1>2. Contract!Then(a, b) = [b EXCEPT !.events = ev]
  BY DEF Contract!Then
<1> HIDE DEF ev
<1>3. [b EXCEPT !.events = ev] = Contract!Effect(ev, b.exc, b.value)
  BY DEF Effects, Contract!Effect
<1> QED BY <1>1, <1>2, <1>3 DEF ev

LEMMA ThenEnds ==
  ASSUME NEW a \in Effects, a.exc = "none", NEW x \in Exceptions, NEW v \in {"void", "some"}
  PROVE  Contract!Then(a, Contract!Effect(<<>>, x, v)) = Contract!Effect(a.events, x, v)
<1> DEFINE b == Contract!Effect(<<>>, x, v)
<1>1. b \in Effects
  <2>1. <<>> \in Seq(Kinds)
    OBVIOUS
  <2> QED BY <2>1, EffectType
<1>2. b.events = <<>> /\ b.exc = x /\ b.value = v
  BY DEF Contract!Effect
<1>3. a.events \o <<>> = a.events
  BY DEF Effects
<1> HIDE DEF b
<1>4. Contract!Then(a, b) = Contract!Effect(a.events, x, v)
  BY <1>1, <1>2, <1>3, ThenGoes
<1> QED BY <1>4 DEF b

\* What comes first may be nothing at all.
LEMMA ThenQuiet ==
  ASSUME NEW b \in Effects, NEW v \in {"void", "some"}
  PROVE  Contract!Then(Contract!Effect(<<>>, "none", v), b) = b
<1> DEFINE a == Contract!Effect(<<>>, "none", v)
<1>1. a \in Effects
  <2>1. <<>> \in Seq(Kinds) /\ "none" \in Exceptions
    BY DEF Exceptions
  <2> QED BY <2>1, EffectType
<1>2. a.events = <<>> /\ a.exc = "none"
  BY DEF Contract!Effect
<1>3. <<>> \o b.events = b.events
  BY DEF Effects
<1> HIDE DEF a
<1>4. Contract!Then(a, b) = Contract!Effect(b.events, b.exc, b.value)
  BY <1>1, <1>2, <1>3, ThenGoes
<1> QED BY <1>4, IsEffect DEF a

LEMMA ThenType ==
  ASSUME NEW a \in Effects, NEW b \in Effects PROVE Contract!Then(a, b) \in Effects
<1>1. CASE a.exc # "none"
  BY <1>1, ThenStops
<1>2. CASE a.exc = "none"
  <2>1. b.exc \in Exceptions /\ b.value \in {"void", "some"}
    BY DEF Effects
  <2> QED BY <1>2, <2>1, ThenGoes, EffectType
<1> QED BY <1>1, <1>2

\* The events, the exception and the value of one effect after another.
LEMMA ThenParts ==
  ASSUME NEW a \in Effects, a.exc = "none", NEW b \in Effects
  PROVE  /\ Contract!Then(a, b).events = a.events \o b.events
         /\ Contract!Then(a, b).exc = b.exc
         /\ Contract!Then(a, b).value = b.value
<1> DEFINE ev == a.events \o b.events
           ab == Contract!Then(a, b)
<1>1. ab = [events |-> ev, exc |-> b.exc, value |-> b.value]
  BY ThenGoes DEF Contract!Effect
<1> HIDE DEF ev, ab
<1>2. ab.events = ev /\ ab.exc = b.exc /\ ab.value = b.value
  BY <1>1
<1> QED BY <1>2 DEF ev, ab

LEMMA ThenAssociates ==
  ASSUME NEW a \in Effects, NEW b \in Effects, NEW c \in Effects
  PROVE  Contract!Then(Contract!Then(a, b), c) = Contract!Then(a, Contract!Then(b, c))
<1>1. CASE a.exc # "none"
  BY <1>1, ThenStops
<1>2. CASE a.exc = "none" /\ b.exc # "none"
  <2>1. Contract!Then(a, b).exc # "none"
    BY <1>2, ThenParts
  <2> QED BY <1>2, <2>1, ThenStops
<1>3. CASE a.exc = "none" /\ b.exc = "none"
  <2> DEFINE ab == Contract!Then(a, b)
             bc == Contract!Then(b, c)
  <2>1. ab \in Effects /\ ab.exc = "none" /\ ab.events = a.events \o b.events
    BY <1>3, ThenType, ThenParts
  <2>2. bc \in Effects /\ bc.exc = c.exc /\ bc.value = c.value /\ bc.events = b.events \o c.events
    BY <1>3, ThenType, ThenParts
  <2>3. (a.events \o b.events) \o c.events = a.events \o (b.events \o c.events)
    BY ConcatAssociative DEF Effects
  <2> HIDE DEF ab, bc
  <2>4. Contract!Then(a, bc) = Contract!Effect(a.events \o (b.events \o c.events), c.exc, c.value)
    BY <1>3, <2>2, ThenGoes
  <2>5. Contract!Then(ab, c) = Contract!Effect((a.events \o b.events) \o c.events, c.exc, c.value)
    BY <2>1, ThenGoes
  <2> QED BY <2>3, <2>4, <2>5 DEF ab, bc
<1> QED BY <1>1, <1>2, <1>3

LEMMA GuardedType ==
  ASSUME NEW a \in Effects, NEW form PROVE Contract!Guarded(form, a) \in Effects
BY EffectType DEF Contract!Guarded, Effects, Exceptions

\* What was done before the body of a guard stays done.
LEMMA GuardedThen ==
  ASSUME NEW a \in Effects, a.exc = "none", NEW b \in Effects, NEW form
  PROVE  Contract!Then(a, Contract!Guarded(form, b)) = Contract!Guarded(form, Contract!Then(a, b))
<1>1. CASE b.exc = "scheme" /\ form.guard = "else"
  <2> DEFINE c == Contract!Effect(b.events, "none", "void")
  <2>1. c \in Effects /\ c.events = b.events /\ c.exc = "none" /\ c.value = "void"
    BY EffectType DEF Effects, Exceptions, Contract!Effect
  <2>2. Contract!Guarded(form, b) = c
    BY <1>1 DEF Contract!Guarded
  <2> HIDE DEF c
  <2>3. Contract!Then(a, c) = Contract!Effect(a.events \o b.events, "none", "void")
    BY <2>1, ThenGoes
  <2>4. Contract!Guarded(form, Contract!Then(a, b)) =
          Contract!Effect(a.events \o b.events, "none", "void")
    BY <1>1, ThenParts DEF Contract!Guarded
  <2> QED BY <2>2, <2>3, <2>4
<1>2. CASE ~(b.exc = "scheme" /\ form.guard = "else")
  BY <1>2, ThenParts DEF Contract!Guarded
<1> QED BY <1>1, <1>2

LEMMA SimpleEffects ==
  /\ Contract!Quiet \in Effects /\ Contract!Failure \in Effects
  /\ Contract!Effect(<<>>, "exit", "void") \in Effects
  /\ \A v \in {"void", "some"} : Contract!Effect(<<>>, "none", v) \in Effects
  /\ \A k \in Kinds : \A e : Contract!Event(k, e) \in Effects
<1>1. <<>> \in Seq(Kinds) /\ \A k \in Kinds : <<k>> \in Seq(Kinds)
  OBVIOUS
<1>2. {"none", "scheme", "host", "exit"} \subseteq Exceptions
  BY DEF Exceptions
<1> QED BY <1>1, <1>2, EffectType DEF Contract!Quiet, Contract!Failure, Contract!Event

LEMMA LeastElement ==
  ASSUME NEW T, T \subseteq Nat, T # {} PROVE \E n \in T : \A m \in T : n <= m
<1> DEFINE Initials == {1 .. n : n \in T}
<1>1. Initials \subseteq FiniteSubsetsOf(Nat) /\ Initials # {}
  <2>1. \A n \in T : 1 .. n \in SUBSET Nat /\ IsFiniteSet(1 .. n)
    BY FS_Interval
  <2> QED BY <2>1 DEF FiniteSubsetsOf
<1>2. IsWellFoundedOn(StrictSubsetOrdering(Nat), FiniteSubsetsOf(Nat))
  BY FS_StrictSubsetOrderingWellFounded
<1>3. PICK B \in Initials : \A A \in Initials : <<A, B>> \notin StrictSubsetOrdering(Nat)
  <2> HIDE DEF Initials
  <2> QED BY <1>1, <1>2, WFMin
<1>4. PICK n \in T : B = 1 .. n
  BY <1>3
<1>5. ASSUME NEW m \in T, m < n PROVE FALSE
  <2>1. 1 .. m \in Initials
    OBVIOUS
  <2>2. 1 .. m \subseteq 1 .. n /\ n \in 1 .. n /\ n \notin 1 .. m
    BY <1>5
  <2>3. <<1 .. m, B>> \in StrictSubsetOrdering(Nat)
    BY <2>2, <1>4 DEF StrictSubsetOrdering
  <2> QED BY <2>1, <2>3, <1>3
<1> QED BY <1>5

LEMMA Induction ==
  ASSUME NEW T, 0 \in T, \A n \in Nat : n \in T => n + 1 \in T PROVE Nat \subseteq T
<1>1. SUFFICES ASSUME Nat \ T # {} PROVE FALSE
  OBVIOUS
<1>2. PICK n \in Nat \ T : \A m \in Nat \ T : n <= m
  BY <1>1, LeastElement
<1>3. n # 0 /\ n - 1 \in Nat /\ n - 1 \in T
  BY <1>2
<1> QED BY <1>2, <1>3

(***************************************************************************)
(* What a list of effects comes to.                                        *)
(***************************************************************************)
InOrderUpTo(s, n, h) ==
  h = [j \in 0 .. n |-> IF j = 0 THEN Contract!Quiet
                        ELSE Contract!Then(s[Len(s) - j + 1], h[j - 1])]

LEMMA InOrderExists ==
  ASSUME NEW s, Len(s) \in Nat PROVE \E h : InOrderUpTo(s, Len(s), h)
<1> DEFINE T == {n \in Nat : \E h : InOrderUpTo(s, n, h)}
<1>1. 0 \in T
  <2> DEFINE g == [j \in 0 .. 0 |-> Contract!Quiet]
  <2>1. InOrderUpTo(s, 0, g)
    BY DEF InOrderUpTo
  <2> QED BY <2>1
<1>2. ASSUME NEW n \in Nat, n \in T PROVE n + 1 \in T
  <2>1. PICK h : InOrderUpTo(s, n, h)
    BY <1>2
  <2> DEFINE new == Contract!Then(s[Len(s) - (n + 1) + 1], h[n])
             g == [j \in 0 .. n + 1 |-> IF j <= n THEN h[j] ELSE new]
  <2>2. \A j \in 0 .. n : g[j] = h[j]
    OBVIOUS
  <2>3. g[n + 1] = new
    OBVIOUS
  <2>4. g = [j \in 0 .. n + 1 |-> g[j]]
    OBVIOUS
  <2> HIDE DEF g
  <2>5. ASSUME NEW j \in 0 .. n + 1
        PROVE  g[j] = IF j = 0 THEN Contract!Quiet
                      ELSE Contract!Then(s[Len(s) - j + 1], g[j - 1])
    <3>1. CASE j = n + 1
      <4>1. g[j - 1] = h[n] /\ j # 0
        BY <2>2, <3>1
      <4> QED BY <2>3, <3>1, <4>1
    <3>2. CASE j <= n
      <4>1. h[j] = IF j = 0 THEN Contract!Quiet
                   ELSE Contract!Then(s[Len(s) - j + 1], h[j - 1])
        BY <2>1, <3>2 DEF InOrderUpTo
      <4>2. j # 0 => g[j - 1] = h[j - 1]
        BY <2>2, <3>2
      <4> QED BY <2>2, <3>2, <4>1, <4>2
    <3> QED BY <3>1, <3>2
  <2>6. InOrderUpTo(s, n + 1, g)
    BY <2>4, <2>5, Zenon DEF InOrderUpTo
  <2> QED BY <2>6
<1>3. Nat \subseteq T
  <2> HIDE DEF T
  <2> QED BY <1>1, <1>2, Induction
<1> QED BY <1>3

LEMMA InOrderLaw ==
  ASSUME NEW s, Len(s) \in Nat
  PROVE  /\ Contract!InOrder(s, Len(s) + 1) = Contract!Quiet
         /\ \A i \in 1 .. Len(s) :
              Contract!InOrder(s, i) = Contract!Then(s[i], Contract!InOrder(s, i + 1))
<1> DEFINE H == CHOOSE h : h = [j \in 0 .. Len(s) |-> IF j = 0 THEN Contract!Quiet
                        ELSE Contract!Then(s[Len(s) - j + 1], h[j - 1])]
<1>1. InOrderUpTo(s, Len(s), H)
  <2>1. \E h : h = [j \in 0 .. Len(s) |-> IF j = 0 THEN Contract!Quiet
                        ELSE Contract!Then(s[Len(s) - j + 1], h[j - 1])]
    <3>1. PICK h : InOrderUpTo(s, Len(s), h)
      BY InOrderExists
    <3> QED BY <3>1 DEF InOrderUpTo
  <2>2. H = [j \in 0 .. Len(s) |-> IF j = 0 THEN Contract!Quiet
                        ELSE Contract!Then(s[Len(s) - j + 1], H[j - 1])]
    BY <2>1
  <2> HIDE DEF H
  <2> QED BY <2>2 DEF InOrderUpTo
<1>2. \A i : Contract!InOrder(s, i) =
        IF i > Len(s) THEN Contract!Quiet ELSE H[Len(s) - i + 1]
  BY DEF Contract!InOrder
<1> HIDE DEF H
<1>3. Contract!InOrder(s, Len(s) + 1) = Contract!Quiet
  BY <1>2
<1>4. ASSUME NEW i \in 1 .. Len(s)
      PROVE  Contract!InOrder(s, i) = Contract!Then(s[i], Contract!InOrder(s, i + 1))
  <2> DEFINE j == Len(s) - i + 1
  <2>1. j \in 0 .. Len(s) /\ j # 0 /\ Len(s) - j + 1 = i
    OBVIOUS
  <2>2. H[j] = Contract!Then(s[i], H[j - 1])
    <3> HIDE DEF j
    <3> QED BY <1>1, <2>1 DEF InOrderUpTo
  <2>3. Contract!InOrder(s, i) = H[j]
    BY <1>2
  <2>4. Contract!InOrder(s, i + 1) = H[j - 1]
    <3>1. CASE i = Len(s)
      <4>1. H[0] = Contract!Quiet
        BY <1>1 DEF InOrderUpTo
      <4> QED BY <1>2, <3>1, <4>1
    <3>2. CASE i < Len(s)
      <4>1. ~(i + 1 > Len(s)) /\ Len(s) - (i + 1) + 1 = j - 1
        BY <3>2
      <4> QED BY <1>2, <4>1
    <3> QED BY <3>1, <3>2
  <2> QED BY <2>2, <2>3, <2>4
<1> QED BY <1>3, <1>4

LEMMA InOrderType ==
  ASSUME NEW s, Len(s) \in Nat, \A k \in 1 .. Len(s) : s[k] \in Effects
  PROVE  \A i \in 1 .. Len(s) + 1 : Contract!InOrder(s, i) \in Effects
<1> DEFINE T == {n \in Nat : n <= Len(s) => Contract!InOrder(s, Len(s) + 1 - n) \in Effects}
<1>1. 0 \in T
  BY InOrderLaw, SimpleEffects
<1>2. ASSUME NEW n \in Nat, n \in T PROVE n + 1 \in T
  <2> SUFFICES ASSUME n + 1 <= Len(s)
               PROVE  Contract!InOrder(s, Len(s) + 1 - (n + 1)) \in Effects
    OBVIOUS
  <2> DEFINE i == Len(s) + 1 - (n + 1)
  <2>1. i \in 1 .. Len(s) /\ Len(s) + 1 - n = i + 1
    OBVIOUS
  <2>2. Contract!InOrder(s, i + 1) \in Effects
    BY <1>2, <2>1
  <2> HIDE DEF i
  <2>3. Contract!InOrder(s, i) \in Effects
    BY <2>1, <2>2, InOrderLaw, ThenType
  <2> QED BY <2>3 DEF i
<1>3. Nat \subseteq T
  <2> HIDE DEF T
  <2> QED BY <1>1, <1>2, Induction
<1>4. ASSUME NEW i \in 1 .. Len(s) + 1 PROVE Contract!InOrder(s, i) \in Effects
  <2>1. Len(s) + 1 - i \in T /\ Len(s) + 1 - i <= Len(s) /\ Len(s) + 1 - (Len(s) + 1 - i) = i
    BY <1>3
  <2> QED BY <2>1
<1> QED BY <1>4

-----------------------------------------------------------------------------
(***************************************************************************)
(* What a program comes to, given what its files come to at each level.    *)
(***************************************************************************)
Loaded(l, n) == \A j \in 0 .. n : \A f \in FileNames : l[j][f] \in Effects

LEMMA OpType ==
  ASSUME NEW op \in Op, NEW n \in Nat, NEW e, NEW l, Loaded(l, n)
  PROVE  Contract!MOp(op, n, e, l) \in Effects
<1>1. op.op \in {"display", "raise", "exit", "load"} /\ (op.op = "load" => op.file \in FileNames)
  BY DEF Op
<1>2. CASE op.op = "display"
  BY <1>2, SimpleEffects DEF Contract!MOp, Kinds
<1>3. CASE op.op = "raise"
  BY <1>3, SimpleEffects DEF Contract!MOp
<1>4. CASE op.op = "exit"
  BY <1>4, SimpleEffects DEF Contract!MOp
<1>5. CASE op.op = "load"
  <2>1. l[n][op.file] \in Effects
    BY <1>1, <1>5 DEF Loaded
  <2> QED BY <1>5, <2>1 DEF Contract!MOp
<1> QED BY <1>1, <1>2, <1>3, <1>4, <1>5

LEMMA OpsLaw ==
  ASSUME NEW ops \in Seq(Op), NEW n \in Nat, NEW e, NEW l
  PROVE  /\ Contract!MOps(ops, Len(ops) + 1, n, e, l) = Contract!Quiet
         /\ \A i \in 1 .. Len(ops) :
              Contract!MOps(ops, i, n, e, l) =
                Contract!Then(Contract!MOp(ops[i], n, e, l), Contract!MOps(ops, i + 1, n, e, l))
         /\ Loaded(l, n) =>
              \A i \in 1 .. Len(ops) + 1 : Contract!MOps(ops, i, n, e, l) \in Effects
<1> DEFINE s == [k \in DOMAIN ops |-> Contract!MOp(ops[k], n, e, l)]
<1>1. DOMAIN ops = 1 .. Len(ops) /\ Len(ops) \in Nat
  OBVIOUS
<1>2. Len(s) = Len(ops) /\ \A i \in 1 .. Len(ops) : s[i] = Contract!MOp(ops[i], n, e, l)
  BY <1>1
<1>3. \A i : Contract!MOps(ops, i, n, e, l) = Contract!InOrder(s, i)
  BY DEF Contract!MOps
<1> HIDE DEF s
<1>4. Loaded(l, n) => \A i \in 1 .. Len(ops) : s[i] \in Effects
  BY <1>2, OpType
<1>5. Loaded(l, n) => \A i \in 1 .. Len(ops) + 1 : Contract!InOrder(s, i) \in Effects
  BY <1>1, <1>2, <1>4, InOrderType
<1>6. /\ Contract!InOrder(s, Len(ops) + 1) = Contract!Quiet
      /\ \A i \in 1 .. Len(ops) :
           Contract!InOrder(s, i) = Contract!Then(s[i], Contract!InOrder(s, i + 1))
  BY <1>1, <1>2, InOrderLaw
<1> QED BY <1>2, <1>3, <1>5, <1>6

LEMMA OpsNext ==
  ASSUME NEW ops \in Seq(Op), NEW n \in Nat, NEW e, NEW l, NEW i \in 1 .. Len(ops)
  PROVE  Contract!MOps(ops, i, n, e, l) =
           Contract!Then(Contract!MOp(ops[i], n, e, l), Contract!MOps(ops, i + 1, n, e, l))
BY OpsLaw

LEMMA BodyType ==
  ASSUME NEW form \in Form, NEW n \in Nat, NEW e, NEW l, Loaded(l, n - 1)
  PROVE  Contract!MBody(form, n, e, l) \in Effects
<1>1. form.ops \in Seq(Op) /\ form.value \in {"void", "some"}
  BY DEF Form
<1>2. CASE n = 0
  BY <1>2, SimpleEffects DEF Contract!MBody
<1>3. CASE n # 0
  <2>1. n - 1 \in Nat /\ 1 \in 1 .. Len(form.ops) + 1
    BY <1>1, <1>3
  <2>2. Contract!MOps(form.ops, 1, n - 1, e, l) \in Effects
    BY <1>1, <2>1, OpsLaw
  <2> QED BY <1>1, <1>3, <2>2, SimpleEffects, ThenType DEF Contract!MBody
<1> QED BY <1>2, <1>3

LEMMA FormType ==
  ASSUME NEW form \in Form, NEW n \in Nat, NEW e, NEW l, Loaded(l, n - 1)
  PROVE  Contract!MForm(form, n, e, l) \in Effects
<1>1. CASE form.guard = "none" \/ n = 0
  BY <1>1, BodyType DEF Contract!MForm
<1>2. CASE ~(form.guard = "none" \/ n = 0)
  <2>1. n - 1 \in Nat /\ Loaded(l, n - 1 - 1)
    BY <1>2 DEF Loaded
  <2> QED BY <1>2, <2>1, BodyType, GuardedType DEF Contract!MForm
<1> QED BY <1>1, <1>2

LEMMA EchoedType == \A v, n, e : Contract!Echoed(v, n, e) \in Effects
BY SimpleEffects DEF Contract!Echoed, Kinds

LEMMA EndType == \A src, strict : Contract!MEnd(src, strict) \in Effects
BY SimpleEffects DEF Contract!MEnd

\* A form, and the echo of its value.
FormEchoed(form, n, e, l) ==
  Contract!Then(Contract!MForm(form, n, e, l),
                Contract!Echoed(Contract!MForm(form, n, e, l).value, n, e))

LEMMA FormEchoedType ==
  ASSUME NEW form \in Form, NEW n \in Nat, NEW e, NEW l, Loaded(l, n - 1)
  PROVE  FormEchoed(form, n, e, l) \in Effects
BY FormType, EchoedType, ThenType DEF FormEchoed

\* What the forms of a source come to, one by one.
Items(forms, n, e, l) == [k \in DOMAIN forms |-> FormEchoed(forms[k], n, e, l)]

LEMMA ItemsLaw ==
  ASSUME NEW forms \in Seq(Form), NEW n \in Nat, NEW e, NEW l, Loaded(l, n - 1)
  PROVE  LET s == Items(forms, n, e, l)
         IN /\ \A i : Contract!MForms(forms, i, n, e, l) = Contract!InOrder(s, i)
            /\ Len(s) = Len(forms) /\ Len(forms) \in Nat
            /\ \A i \in 1 .. Len(forms) : s[i] = FormEchoed(forms[i], n, e, l)
            /\ \A i \in 1 .. Len(forms) : s[i] \in Effects
            /\ \A i \in 1 .. Len(forms) + 1 : Contract!InOrder(s, i) \in Effects
<1> DEFINE s == Items(forms, n, e, l)
<1>1. DOMAIN forms = 1 .. Len(forms) /\ Len(forms) \in Nat
  OBVIOUS
<1>2. Len(s) = Len(forms) /\ \A i \in 1 .. Len(forms) : s[i] = FormEchoed(forms[i], n, e, l)
  BY <1>1 DEF Items
<1>3. \A i : Contract!MForms(forms, i, n, e, l) = Contract!InOrder(s, i)
  BY DEF Contract!MForms, Items, FormEchoed
<1> HIDE DEF s
<1>4. \A i \in 1 .. Len(forms) : s[i] \in Effects
  <2> SUFFICES ASSUME NEW i \in 1 .. Len(forms) PROVE s[i] \in Effects
    OBVIOUS
  <2>1. forms[i] \in Form
    BY <1>1
  <2> QED BY <1>2, <2>1, FormEchoedType
<1>5. \A i \in 1 .. Len(forms) + 1 : Contract!InOrder(s, i) \in Effects
  BY <1>1, <1>2, <1>4, InOrderType
<1> QED BY <1>1, <1>2, <1>3, <1>4, <1>5 DEF s

LEMMA RunType ==
  ASSUME NEW src \in Source, NEW strict, NEW n \in Nat, NEW e, NEW l, Loaded(l, n - 1),
         NEW i \in 1 .. Len(src.forms) + 1
  PROVE  Contract!MRun(src, i, strict, n, e, l) \in Effects
<1> DEFINE forms == src.forms
<1>1. forms \in Seq(Form)
  BY DEF Source
<1> HIDE DEF forms
<1>2. i \in 1 .. Len(forms) + 1
  BY DEF forms
<1>3. Contract!MForms(forms, i, n, e, l) \in Effects
  <2> DEFINE s == Items(forms, n, e, l)
  <2> HIDE DEF s
  <2>1. /\ Contract!MForms(forms, i, n, e, l) = Contract!InOrder(s, i)
        /\ \A j \in 1 .. Len(forms) + 1 : Contract!InOrder(s, j) \in Effects
    BY <1>1, ItemsLaw DEF s
  <2> QED BY <1>2, <2>1
<1> QED BY <1>3, EndType, ThenType DEF Contract!MRun, forms

LEMMA RunEnds ==
  ASSUME NEW src \in Source, NEW strict, NEW n \in Nat, NEW e, NEW l, Loaded(l, n - 1)
  PROVE  Contract!MRun(src, Len(src.forms) + 1, strict, n, e, l) = Contract!MEnd(src, strict)
<1> DEFINE forms == src.forms
           s == Items(forms, n, e, l)
<1>1. forms \in Seq(Form)
  BY DEF Source
<1> HIDE DEF forms, s
<1>2. /\ Len(s) = Len(forms) /\ Len(forms) \in Nat /\ \A i \in 1 .. Len(forms) : s[i] \in Effects
      /\ Contract!MForms(forms, Len(forms) + 1, n, e, l) = Contract!InOrder(s, Len(forms) + 1)
  BY <1>1, ItemsLaw DEF s
<1>3. Contract!InOrder(s, Len(forms) + 1) = Contract!Quiet
  BY <1>2, InOrderLaw
<1>4. Contract!MForms(src.forms, Len(src.forms) + 1, n, e, l) = Contract!Quiet
  BY <1>2, <1>3 DEF forms
<1> QED BY <1>4, EndType, ThenQuiet DEF Contract!MRun, Contract!Quiet

\* A run is its next form, the echo of its value, and the rest of the run.
LEMMA RunNext ==
  ASSUME NEW src \in Source, NEW strict, NEW n \in Nat, NEW e, NEW l, Loaded(l, n - 1),
         NEW i \in 1 .. Len(src.forms)
  PROVE  /\ Contract!MRun(src, i, strict, n, e, l) =
              Contract!Then(FormEchoed(src.forms[i], n, e, l),
                            Contract!MRun(src, i + 1, strict, n, e, l))
         /\ Contract!MRun(src, i + 1, strict, n, e, l) \in Effects
         /\ FormEchoed(src.forms[i], n, e, l) \in Effects
<1> DEFINE forms == src.forms
           s == Items(forms, n, e, l)
           end == Contract!MEnd(src, strict)
<1>1. forms \in Seq(Form)
  BY DEF Source
<1>2. \A j : Contract!MRun(src, j, strict, n, e, l) = Contract!Then(Contract!MForms(forms, j, n, e, l), end)
  BY DEF Contract!MRun
<1>3. end \in Effects
  BY EndType
<1>4. i \in 1 .. Len(forms)
  OBVIOUS
<1> HIDE DEF forms, s, end
<1>5. /\ Len(s) = Len(forms) /\ Len(forms) \in Nat /\ \A j \in 1 .. Len(forms) : s[j] \in Effects
      /\ s[i] = FormEchoed(forms[i], n, e, l)
      /\ Contract!MForms(forms, i, n, e, l) = Contract!InOrder(s, i)
      /\ Contract!MForms(forms, i + 1, n, e, l) = Contract!InOrder(s, i + 1)
      /\ \A j \in 1 .. Len(forms) + 1 : Contract!InOrder(s, j) \in Effects
  BY <1>1, <1>4, ItemsLaw DEF s
<1>6. s[i] \in Effects /\ Contract!InOrder(s, i + 1) \in Effects
  <2>1. i + 1 \in 1 .. Len(forms) + 1
    BY <1>4, <1>5
  <2> QED BY <1>4, <1>5, <2>1
<1>7. Contract!InOrder(s, i) = Contract!Then(s[i], Contract!InOrder(s, i + 1))
  BY <1>4, <1>5, InOrderLaw
<1>8. Contract!Then(Contract!Then(s[i], Contract!InOrder(s, i + 1)), end)
        = Contract!Then(s[i], Contract!Then(Contract!InOrder(s, i + 1), end))
  BY <1>3, <1>6, ThenAssociates
<1>9. Contract!MRun(src, i, strict, n, e, l) =
        Contract!Then(s[i], Contract!MRun(src, i + 1, strict, n, e, l))
  BY <1>2, <1>5, <1>7, <1>8
<1>10. Contract!MRun(src, i + 1, strict, n, e, l) \in Effects
  BY <1>2, <1>3, <1>5, <1>6, ThenType
<1> QED BY <1>5, <1>6, <1>9, <1>10 DEF forms

USE SessionAssumption

(***************************************************************************)
(* What a run comes to at a level depends on what files come to below it.  *)
(***************************************************************************)
Agree(l, k, n) == \A j \in 0 .. n : l[j] = k[j]

LEMMA OpsAgree ==
  ASSUME NEW ops, NEW n \in Nat, NEW e, NEW l, NEW k, Agree(l, k, n), NEW i
  PROVE  Contract!MOps(ops, i, n, e, l) = Contract!MOps(ops, i, n, e, k)
<1>1. l[n] = k[n]
  BY DEF Agree
<1>2. \A op : Contract!MOp(op, n, e, l) = Contract!MOp(op, n, e, k)
  BY <1>1 DEF Contract!MOp
<1>3. [j \in DOMAIN ops |-> Contract!MOp(ops[j], n, e, l)] =
        [j \in DOMAIN ops |-> Contract!MOp(ops[j], n, e, k)]
  BY <1>2
<1> QED BY <1>3 DEF Contract!MOps

LEMMA FormAgree ==
  ASSUME NEW form, NEW n \in Nat, NEW e, NEW l, NEW k, Agree(l, k, n - 1)
  PROVE  Contract!MForm(form, n, e, l) = Contract!MForm(form, n, e, k)
<1>1. ASSUME NEW m \in Nat, m <= n
      PROVE  Contract!MBody(form, m, e, l) = Contract!MBody(form, m, e, k)
  <2>1. CASE m = 0
    BY <2>1 DEF Contract!MBody
  <2>2. CASE m # 0
    <3>1. m - 1 \in Nat /\ Agree(l, k, m - 1)
      BY <1>1, <2>2 DEF Agree
    <3>2. Contract!MOps(form.ops, 1, m - 1, e, l) = Contract!MOps(form.ops, 1, m - 1, e, k)
      BY <3>1, OpsAgree
    <3> QED BY <2>2, <3>2 DEF Contract!MBody
  <2> QED BY <2>1, <2>2
<1>2. Contract!MBody(form, n, e, l) = Contract!MBody(form, n, e, k)
  BY <1>1
<1>3. n # 0 => Contract!MBody(form, n - 1, e, l) = Contract!MBody(form, n - 1, e, k)
  BY <1>1
<1> QED BY <1>2, <1>3 DEF Contract!MForm

LEMMA RunAgree ==
  ASSUME NEW src, NEW strict, NEW n \in Nat, NEW e, NEW l, NEW k, Agree(l, k, n - 1), NEW i
  PROVE  Contract!MRun(src, i, strict, n, e, l) = Contract!MRun(src, i, strict, n, e, k)
<1> DEFINE item(form, x) == LET m == Contract!MForm(form, n, e, x)
                            IN Contract!Then(m, Contract!Echoed(m.value, n, e))
           s(x) == [j \in DOMAIN src.forms |-> item(src.forms[j], x)]
<1>1. \A form : item(form, l) = item(form, k)
  BY FormAgree
<1>2. \A x : Contract!MForms(src.forms, i, n, e, x) = Contract!InOrder(s(x), i)
  BY DEF Contract!MForms
<1> HIDE DEF item
<1>3. s(l) = s(k)
  BY <1>1
<1> HIDE DEF s
<1>4. Contract!MForms(src.forms, i, n, e, l) = Contract!MForms(src.forms, i, n, e, k)
  BY <1>2, <1>3
<1> QED BY <1>4 DEF Contract!MRun

(***************************************************************************)
(* What loading a file comes to, at every level.                           *)
(***************************************************************************)
LoadsAt(e, n, h) ==
  [f \in DOMAIN Files |-> IF Files[f] = Absent THEN Contract!Failure
                          ELSE Contract!MRun(Files[f], 1, TRUE, n, e, h)]
LoadsUpTo(e, n, h) == h = [j \in 0 .. n |-> LoadsAt(e, j, h)]

LEMMA LoadsAgree ==
  ASSUME NEW e, NEW n \in Nat, NEW g, NEW h, Agree(g, h, n - 1)
  PROVE  LoadsAt(e, n, g) = LoadsAt(e, n, h)
<1>1. ASSUME NEW f
      PROVE  Contract!MRun(Files[f], 1, TRUE, n, e, g) = Contract!MRun(Files[f], 1, TRUE, n, e, h)
  <2> DEFINE src == Files[f]
             strict == TRUE
  <2> HIDE DEF src, strict
  <2>1. Contract!MRun(src, 1, strict, n, e, g) = Contract!MRun(src, 1, strict, n, e, h)
    BY RunAgree
  <2> QED BY <2>1 DEF src, strict
<1> QED BY <1>1 DEF LoadsAt

LEMMA LoadsExist == ASSUME NEW e PROVE \A n \in Nat : \E h : LoadsUpTo(e, n, h)
<1> DEFINE T == {n \in Nat : \E h : LoadsUpTo(e, n, h)}
<1>1. 0 \in T
  <2> DEFINE none == [j \in {} |-> {}]
             g == [j \in 0 .. 0 |-> LoadsAt(e, 0, none)]
  <2>1. Agree(g, none, 0 - 1)
    BY DEF Agree
  <2>2. LoadsAt(e, 0, g) = LoadsAt(e, 0, none)
    <3> HIDE DEF g, none
    <3> QED BY <2>1, LoadsAgree
  <2>3. \A j \in 0 .. 0 : g[j] = LoadsAt(e, j, g)
    BY <2>2
  <2>4. g = [j \in 0 .. 0 |-> g[j]]
    OBVIOUS
  <2> HIDE DEF g
  <2>5. LoadsUpTo(e, 0, g)
    BY <2>3, <2>4, Zenon DEF LoadsUpTo
  <2> QED BY <2>5
<1>2. ASSUME NEW n \in Nat, n \in T PROVE n + 1 \in T
  <2>1. PICK h : LoadsUpTo(e, n, h)
    BY <1>2
  <2> DEFINE new == LoadsAt(e, n + 1, h)
             g == [j \in 0 .. n + 1 |-> IF j <= n THEN h[j] ELSE new]
  <2>2. \A j \in 0 .. n : g[j] = h[j]
    OBVIOUS
  <2>3. g[n + 1] = new
    OBVIOUS
  <2>4. g = [j \in 0 .. n + 1 |-> g[j]]
    OBVIOUS
  <2> HIDE DEF g
  <2>5. ASSUME NEW j \in 0 .. n + 1 PROVE g[j] = LoadsAt(e, j, g)
    <3>1. Agree(g, h, j - 1)
      BY <2>2 DEF Agree
    <3>2. LoadsAt(e, j, g) = LoadsAt(e, j, h)
      BY <3>1, LoadsAgree
    <3>3. CASE j = n + 1
      BY <2>3, <3>2, <3>3
    <3>4. CASE j <= n
      <4>1. h[j] = LoadsAt(e, j, h)
        BY <2>1, <3>4 DEF LoadsUpTo
      <4> QED BY <2>2, <3>2, <3>4, <4>1
    <3> QED BY <3>3, <3>4
  <2>6. LoadsUpTo(e, n + 1, g)
    BY <2>4, <2>5, Zenon DEF LoadsUpTo
  <2> QED BY <2>6
<1>3. Nat \subseteq T
  <2> HIDE DEF T
  <2> QED BY <1>1, <1>2, Induction
<1> QED BY <1>3

LEMMA LoadsLaw ==
  ASSUME NEW e
  PROVE  \A n \in 0 .. MaxDepth : Contract!Loads(e)[n] = LoadsAt(e, n, Contract!Loads(e))
<1> DEFINE L == Contract!Loads(e)
           H == CHOOSE h : h = [j \in 0 .. MaxDepth |->
                  [f \in DOMAIN Files |-> IF Files[f] = Absent THEN Contract!Failure
                                          ELSE Contract!MRun(Files[f], 1, TRUE, j, e, h)]]
<1>1. L = H
  BY DEF Contract!Loads
<1>2. \E h : h = [j \in 0 .. MaxDepth |->
                  [f \in DOMAIN Files |-> IF Files[f] = Absent THEN Contract!Failure
                                          ELSE Contract!MRun(Files[f], 1, TRUE, j, e, h)]]
  <2>1. PICK h : LoadsUpTo(e, MaxDepth, h)
    BY LoadsExist
  <2> QED BY <2>1 DEF LoadsUpTo, LoadsAt
<1>3. H = [j \in 0 .. MaxDepth |->
                  [f \in DOMAIN Files |-> IF Files[f] = Absent THEN Contract!Failure
                                          ELSE Contract!MRun(Files[f], 1, TRUE, j, e, H)]]
  BY <1>2
<1> HIDE DEF H
<1>4. \A n \in 0 .. MaxDepth : H[n] = LoadsAt(e, n, H)
  BY <1>3 DEF LoadsAt
<1> QED BY <1>1, <1>4

LEMMA LoadsType == ASSUME NEW e PROVE Loaded(Contract!Loads(e), MaxDepth)
<1> DEFINE L == Contract!Loads(e)
           T == {n \in Nat : n <= MaxDepth + 1 => Loaded(L, n - 1)}
<1>1. 0 \in T
  BY DEF Loaded
<1>2. ASSUME NEW n \in Nat, n \in T PROVE n + 1 \in T
  <2> SUFFICES ASSUME n + 1 <= MaxDepth + 1 PROVE Loaded(L, n)
    OBVIOUS
  <2>1. Loaded(L, n - 1) /\ n \in 0 .. MaxDepth
    BY <1>2
  <2>2. L[n] = LoadsAt(e, n, L)
    BY <2>1, LoadsLaw
  <2> HIDE DEF L
  <2>3. ASSUME NEW f \in FileNames PROVE L[n][f] \in Effects
    <3>1. L[n][f] = IF Files[f] = Absent THEN Contract!Failure
                    ELSE Contract!MRun(Files[f], 1, TRUE, n, e, L)
      BY <2>2 DEF LoadsAt, FileNames
    <3>2. CASE Files[f] = Absent
      BY <3>1, <3>2, SimpleEffects
    <3>3. CASE Files[f] # Absent
      <4>1. Files[f] \in Source
        BY <3>3
      <4>2. 1 \in 1 .. Len(Files[f].forms) + 1
        BY <4>1 DEF Source
      <4> DEFINE strict == TRUE
      <4> HIDE DEF strict
      <4>3. Contract!MRun(Files[f], 1, strict, n, e, L) \in Effects
        BY <2>1, <4>1, <4>2, RunType
      <4> QED BY <3>1, <3>3, <4>3 DEF strict
    <3> QED BY <3>2, <3>3
  <2> QED BY <2>1, <2>3 DEF Loaded
<1>3. Nat \subseteq T
  <2> HIDE DEF T
  <2> QED BY <1>1, <1>2, Induction
<1>4. MaxDepth + 1 \in T
  BY <1>3
<1>5. MaxDepth + 1 - 1 = MaxDepth
  OBVIOUS
<1> QED BY <1>4, <1>5

-----------------------------------------------------------------------------
(***************************************************************************)
(* What a call in progress will have come to, read off its frames: each    *)
(* frame turns what the frame above it will come to, and the depth it      *)
(* leaves behind, into its own; the innermost starts from what has         *)
(* happened so far.  Kept promises are those of SessionContract.           *)
(***************************************************************************)
Said(eff, d) == [eff |-> eff, depth |-> d]
Left(p) == MaxDepth - p.depth
RestOfRun(fr, p, e) ==
  IF fr.at = "loop"
  THEN Contract!Then(p.eff, Contract!MRun(fr.source, fr.pos + 1, fr.strict, Left(p), e,
                                          Contract!Loads(e)))
  ELSE Contract!Then(Contract!Then(p.eff, Contract!Echoed(p.eff.value, Left(p), e)),
                     Contract!MRun(fr.source, fr.pos + 2, fr.strict, Left(p), e,
                                   Contract!Loads(e)))
RestOfForm(fr, next, p, e) ==
  Contract!Then(Contract!Then(p.eff, Contract!MOps(fr.form.ops, next, Left(p), e,
                                                   Contract!Loads(e))),
                Contract!Effect(<<>>, "none", fr.form.value))
RestOfGuard(fr, above, p, e) ==
  Contract!Guarded(fr.form, IF above # "eval" /\ fr.ip = 0
                            THEN Contract!Then(p.eff, Contract!MBody(fr.form, Left(p), e,
                                                                     Contract!Loads(e)))
                            ELSE p.eff)
Surprise(fr, e) ==
  IF Behaviour[e] = "throw" \/ (Behaviour[e] = "reenter-throw" /\ ~fr.refused)
  THEN "host" ELSE "none"
RestOfEmit(fr, p, e) == Contract!Then(p.eff, Contract!Effect(<<>>, Surprise(fr, e), "void"))

\* "above" is the kind of the frame above fr.
Comes(fr, above, p, e) ==
  CASE fr.f = "run" -> Said(RestOfRun(fr, p, e), p.depth)
    [] fr.f = "eval" /\ fr.role = "form" ->
         Said(RestOfForm(fr, IF above = "run" THEN fr.ip + 2 ELSE fr.ip + 1, p, e), p.depth - 1)
    [] fr.f = "eval" /\ fr.role = "guard" -> Said(RestOfGuard(fr, above, p, e), p.depth - 1)
    [] fr.f = "emit" -> Said(RestOfEmit(fr, p, e), p.depth)

Above(s, k) == IF k = Len(s) THEN "none" ELSE s[k + 1].f
Foretold(s, A, p, e) ==
  /\ A[Len(s) + 1] = p
  /\ \A k \in 2 .. Len(s) : A[k] = Comes(s[k], Above(s, k), A[k + 1], e)
\* From p on, the frames s of a call of e come to the effect o.
Promise(s, p, e, o) == \E A : Foretold(s, A, p, e) /\ A[2].eff = o

\* The innermost frame is another, and the others are as they were.
LEMMA PromiseMoves ==
  ASSUME NEW s, NEW t, NEW p, NEW q, NEW e, NEW o, Promise(s, p, e, o),
         Len(s) \in Nat, Len(s) >= 2, Len(t) = Len(s), t[Len(s)].f = s[Len(s)].f,
         \A k \in 1 .. Len(s) - 1 : t[k] = s[k],
         Comes(t[Len(s)], "none", q, e) = Comes(s[Len(s)], "none", p, e)
  PROVE  Promise(t, q, e, o)
<1> DEFINE n == Len(s)
<1>1. PICK A : Foretold(s, A, p, e) /\ A[2].eff = o
  BY DEF Promise
<1> DEFINE B == [k \in 2 .. n + 1 |-> IF k = n + 1 THEN q ELSE A[k]]
<1>2. B[n + 1] = q /\ \A k \in 2 .. n : B[k] = A[k]
  OBVIOUS
<1> HIDE DEF B
<1>3. ASSUME NEW k \in 2 .. n PROVE B[k] = Comes(t[k], Above(t, k), B[k + 1], e)
  <2>1. A[k] = Comes(s[k], Above(s, k), A[k + 1], e)
    BY <1>1 DEF Foretold
  <2>2. CASE k = n
    <3>1. Above(s, k) = "none" /\ Above(t, k) = "none" /\ A[k + 1] = p /\ B[k + 1] = q
      BY <1>1, <1>2, <2>2 DEF Above, Foretold
    <3> QED BY <1>2, <2>1, <2>2, <3>1
  <2>3. CASE k < n
    <3>1. t[k] = s[k] /\ t[k + 1].f = s[k + 1].f /\ B[k + 1] = A[k + 1] /\ B[k] = A[k]
      BY <1>2, <2>3
    <3>2. Above(t, k) = Above(s, k)
      BY <2>3, <3>1 DEF Above
    <3> QED BY <2>1, <3>1, <3>2
  <2> QED BY <2>2, <2>3
<1>4. Foretold(t, B, q, e) /\ B[2].eff = o
  BY <1>1, <1>2, <1>3 DEF Foretold
<1> QED BY <1>4 DEF Promise

\* A frame is pushed.
LEMMA PromisePushes ==
  ASSUME NEW s, NEW t, NEW p, NEW q, NEW e, NEW o, Promise(s, p, e, o),
         Len(s) \in Nat, Len(s) >= 2, Len(t) = Len(s) + 1, t[Len(s)].f = s[Len(s)].f,
         \A k \in 1 .. Len(s) - 1 : t[k] = s[k],
         Comes(t[Len(s)], t[Len(s) + 1].f, Comes(t[Len(s) + 1], "none", q, e), e)
           = Comes(s[Len(s)], "none", p, e)
  PROVE  Promise(t, q, e, o)
<1> DEFINE n == Len(s)
           r == Comes(t[n + 1], "none", q, e)
<1>1. PICK A : Foretold(s, A, p, e) /\ A[2].eff = o
  BY DEF Promise
<1> DEFINE B == [k \in 2 .. n + 2 |-> IF k = n + 2 THEN q ELSE IF k = n + 1 THEN r ELSE A[k]]
<1>2. B[n + 2] = q /\ B[n + 1] = r /\ \A k \in 2 .. n : B[k] = A[k]
  OBVIOUS
<1> HIDE DEF B
<1>3. ASSUME NEW k \in 2 .. n + 1 PROVE B[k] = Comes(t[k], Above(t, k), B[k + 1], e)
  <2>1. CASE k = n + 1
    <3>1. Above(t, k) = "none" /\ B[k + 1] = q
      BY <1>2, <2>1 DEF Above
    <3> QED BY <1>2, <2>1, <3>1
  <2>2. CASE k = n
    <3>1. A[k] = Comes(s[k], "none", p, e)
      BY <1>1, <2>2 DEF Foretold, Above
    <3>2. Above(t, k) = t[n + 1].f /\ B[k + 1] = r
      BY <1>2, <2>2 DEF Above
    <3> QED BY <1>2, <2>2, <3>1, <3>2
  <2>3. CASE k < n
    <3>1. A[k] = Comes(s[k], Above(s, k), A[k + 1], e)
      BY <1>1, <2>3 DEF Foretold
    <3>2. t[k] = s[k] /\ t[k + 1].f = s[k + 1].f /\ B[k + 1] = A[k + 1] /\ B[k] = A[k]
      BY <1>2, <2>3
    <3>3. Above(t, k) = Above(s, k)
      BY <2>3, <3>2 DEF Above
    <3> QED BY <3>1, <3>2, <3>3
  <2> QED BY <2>1, <2>2, <2>3
<1>4. Foretold(t, B, q, e) /\ B[2].eff = o
  BY <1>1, <1>2, <1>3 DEF Foretold
<1> QED BY <1>4 DEF Promise

\* A frame is popped.
LEMMA PromisePops ==
  ASSUME NEW s, NEW t, NEW p, NEW q, NEW e, NEW o, Promise(s, p, e, o),
         Len(s) \in Nat, Len(s) >= 2, Len(t) = Len(s) - 1,
         \A k \in 1 .. Len(s) - 2 : t[k] = s[k],
         Comes(s[Len(s)], "none", p, e) = q,
         Len(s) > 2 => /\ t[Len(s) - 1].f = s[Len(s) - 1].f
                       /\ Comes(t[Len(s) - 1], "none", q, e)
                            = Comes(s[Len(s) - 1], s[Len(s)].f, q, e)
  PROVE  Promise(t, q, e, o)
<1> DEFINE n == Len(s)
<1>1. PICK A : Foretold(s, A, p, e) /\ A[2].eff = o
  BY DEF Promise
<1>2. A[n] = q
  BY <1>1 DEF Foretold, Above
<1>3. ASSUME NEW k \in 2 .. n - 1 PROVE A[k] = Comes(t[k], Above(t, k), A[k + 1], e)
  <2>1. A[k] = Comes(s[k], Above(s, k), A[k + 1], e)
    BY <1>1 DEF Foretold
  <2>2. CASE k = n - 1
    <3>1. Above(s, k) = s[n].f /\ Above(t, k) = "none" /\ A[k + 1] = q
      BY <1>2, <2>2 DEF Above
    <3> QED BY <2>1, <2>2, <3>1
  <2>3. CASE k < n - 1
    <3>1. t[k] = s[k] /\ t[k + 1].f = s[k + 1].f
      BY <2>3
    <3>2. Above(t, k) = Above(s, k)
      BY <2>3, <3>1 DEF Above
    <3> QED BY <2>1, <3>1, <3>2
  <2> QED BY <2>2, <2>3
<1>4. Foretold(t, A, q, e)
  BY <1>2, <1>3 DEF Foretold
<1> QED BY <1>1, <1>4 DEF Promise

(***************************************************************************)
(* Which frame may stand on which, and how far a run is.                   *)
(***************************************************************************)
Fits(b, f) ==
  /\ f.f # "call"
  /\ f.f = "run" => b.f = "call" \/ (b.f = "eval" /\ b.role = "form")
  /\ f.f = "eval" => \/ b.f = "run" /\ b.at = "eval"
                     \/ f.role = "form" /\ b.f = "eval" /\ b.role = "guard" /\ b.ip = 0
  /\ f.f = "emit" => (b.f = "run" /\ b.at = "loop") \/ (b.f = "eval" /\ b.role = "form")
Within(fr) ==
  fr.f = "run" => /\ fr.pos <= Len(fr.source.forms)
                  /\ fr.at # "loop" => fr.pos < Len(fr.source.forms)
Shape(s) ==
  /\ \A i \in 2 .. Len(s) : Fits(s[i - 1], s[i]) /\ Within(s[i])
  /\ Len(s) > 1 => s[2].f = "run" /\ s[2].source = s[1].source
\* What an action may make of a frame.
Like(g, f) == /\ g.f = f.f
              /\ f.f = "eval" => g.role = f.role
              /\ f.f = "run" => g.source = f.source

\* What has happened so far; a value counts between its evaluation and its echo.
Held ==
  IF exc = "none" /\ ((Top.f = "run" /\ Top.at = "echo")
                      \/ (Top.f = "eval" /\ Top.role = "guard" /\ Top.ip = 1))
  THEN value ELSE "void"
Now == Said(Contract!Effect(events, exc, Held), depth)

Meant(call) ==
  Contract!MRun(call.source, 1, call.op = "execute", MaxDepth, call.emitter,
                Contract!Loads(call.emitter))
Returned(call) ==
  [consumed |-> Len(call.source.forms), incomplete |-> call.source.tail = "open"]
Promised ==
  active =>
    /\ Shape(stack)
    /\ Len(history) < MaxCalls /\ stack[1].source \in Sources
    /\ Promise(stack, Now, emit, Meant(stack[1]))
    /\ Len(stack) = 1 /\ exc = "none" /\ stack[1].op = "run" => result = Returned(stack[1])

LEMMA InCall ==
  ASSUME IInv, active
  PROVE  /\ stack \in Seq(Frames) /\ Len(stack) \in Nat \ {0} /\ stack # <<>>
         /\ DOMAIN stack = 1 .. Len(stack)
         /\ stack[1] \in CallFrames /\ stack[1].f = "call"
         /\ emit = stack[1].emitter /\ emit \in Emitters /\ emit # NoOp
         /\ Top = stack[Len(stack)] /\ Top \in Frames
         /\ Top.f # "call" => Len(stack) >= 2
<1>1. 1 \in FramesOf(stack, "call")
  BY DEF IInv, Balanced
<1>2. stack \in Seq(Frames) /\ 1 \in DOMAIN stack /\ stack[1].f = "call"
  BY <1>1 DEF FramesOf, IInv, Balanced
<1>3. Len(stack) \in Nat \ {0} /\ DOMAIN stack = 1 .. Len(stack) /\ stack # <<>>
  BY <1>2
<1>4. stack[1] \in CallFrames
  BY <1>2, Tags
<1>5. emit = stack[1].emitter /\ stack[1].emitter \in Emitters
  BY <1>4 DEF IInv, Balanced, CallFrames
<1> QED BY <1>2, <1>3, <1>4, <1>5 DEF Top

LEMMA LikeFits ==
  ASSUME NEW b, NEW f, NEW g, Fits(b, f), Like(g, f) PROVE Fits(b, g)
BY DEF Fits, Like

(***************************************************************************)
(* The three ways a step within a call touches the frames.                 *)
(***************************************************************************)
LEMMA Moving ==
  ASSUME IInv, Promised, active, active', emit' = emit, history' = history,
         Len(stack) >= 2, Len(stack') = Len(stack),
         \A k \in 1 .. Len(stack) - 1 : stack'[k] = stack[k],
         Like(stack'[Len(stack)], Top), Within(stack'[Len(stack)]),
         Comes(stack'[Len(stack)], "none", Now', emit) = Comes(Top, "none", Now, emit)
  PROVE  Promised'
<1> DEFINE n == Len(stack)
           t == stack'
           q == Now'
<1>1. /\ Shape(stack) /\ Len(history) < MaxCalls /\ stack[1].source \in Sources
      /\ Promise(stack, Now, emit, Meant(stack[1]))
      /\ n \in Nat \ {0} /\ Top = stack[n]
  BY InCall DEF Promised
<1> HIDE DEF t, q
<1>2. t[1] = stack[1]
  BY <1>1 DEF t
<1>3. t[n].f = stack[n].f
  BY <1>1 DEF t, Like
<1>4. Promise(t, q, emit, Meant(t[1]))
  BY <1>1, <1>2, <1>3, PromiseMoves DEF t, q
<1>5. Shape(t)
  <2>1. ASSUME NEW i \in 2 .. n PROVE Fits(t[i - 1], t[i]) /\ Within(t[i])
    <3>1. Fits(stack[i - 1], stack[i]) /\ Within(stack[i])
      BY <1>1 DEF Shape
    <3>2. t[i - 1] = stack[i - 1]
      BY <1>1 DEF t
    <3>3. CASE i < n
      BY <1>1, <3>1, <3>2, <3>3 DEF t
    <3>4. CASE i = n
      BY <1>1, <3>1, <3>2, <3>4, LikeFits DEF t
    <3> QED BY <3>3, <3>4, <1>1
  <2>2. t[2].f = "run" /\ t[2].source = t[1].source
    <3>1. stack[2].f = "run" /\ stack[2].source = stack[1].source
      BY <1>1 DEF Shape
    <3>2. CASE n = 2
      <4>1. t[2].f = stack[2].f /\ t[2].source = stack[2].source
        BY <1>1, <3>1, <3>2 DEF t, Like
      <4> QED BY <1>2, <3>1, <4>1
    <3>3. CASE n > 2
      <4>1. 2 \in 1 .. n - 1
        BY <1>1, <3>3
      <4>2. t[2] = stack[2]
        BY <4>1 DEF t
      <4> QED BY <1>2, <3>1, <4>2
    <3> QED BY <1>1, <3>2, <3>3
  <2> QED BY <1>1, <2>1, <2>2 DEF t, Shape
<1>6. Len(t) # 1
  BY <1>1 DEF t
<1> QED BY <1>1, <1>2, <1>4, <1>5, <1>6 DEF Promised, t, q

LEMMA Pushing ==
  ASSUME IInv, Promised, active, active', emit' = emit, history' = history,
         Len(stack) >= 2, Len(stack') = Len(stack) + 1,
         \A k \in 1 .. Len(stack) - 1 : stack'[k] = stack[k],
         Like(stack'[Len(stack)], Top), Within(stack'[Len(stack)]),
         Fits(stack'[Len(stack)], stack'[Len(stack) + 1]), Within(stack'[Len(stack) + 1]),
         Comes(stack'[Len(stack)], stack'[Len(stack) + 1].f,
               Comes(stack'[Len(stack) + 1], "none", Now', emit), emit)
           = Comes(Top, "none", Now, emit)
  PROVE  Promised'
<1> DEFINE n == Len(stack)
           t == stack'
           q == Now'
<1>1. /\ Shape(stack) /\ Len(history) < MaxCalls /\ stack[1].source \in Sources
      /\ Promise(stack, Now, emit, Meant(stack[1]))
      /\ n \in Nat \ {0} /\ Top = stack[n]
  BY InCall DEF Promised
<1> HIDE DEF t, q
<1>2. t[1] = stack[1]
  BY <1>1 DEF t
<1>3. t[n].f = stack[n].f
  BY <1>1 DEF t, Like
<1>4. Promise(t, q, emit, Meant(t[1]))
  BY <1>1, <1>2, <1>3, PromisePushes DEF t, q
<1>5. Shape(t)
  <2>1. ASSUME NEW i \in 2 .. n PROVE Fits(t[i - 1], t[i]) /\ Within(t[i])
    <3>1. Fits(stack[i - 1], stack[i]) /\ Within(stack[i])
      BY <1>1 DEF Shape
    <3>2. t[i - 1] = stack[i - 1]
      BY <1>1 DEF t
    <3>3. CASE i < n
      BY <1>1, <3>1, <3>2, <3>3 DEF t
    <3>4. CASE i = n
      BY <1>1, <3>1, <3>2, <3>4, LikeFits DEF t
    <3> QED BY <3>3, <3>4, <1>1
  <2>2. t[2].f = "run" /\ t[2].source = t[1].source
    <3>1. stack[2].f = "run" /\ stack[2].source = stack[1].source
      BY <1>1 DEF Shape
    <3>2. CASE n = 2
      <4>1. t[2].f = stack[2].f /\ t[2].source = stack[2].source
        BY <1>1, <3>1, <3>2 DEF t, Like
      <4> QED BY <1>2, <3>1, <4>1
    <3>3. CASE n > 2
      <4>1. 2 \in 1 .. n - 1
        BY <1>1, <3>3
      <4>2. t[2] = stack[2]
        BY <4>1 DEF t
      <4> QED BY <1>2, <3>1, <4>2
    <3>4. n = 2 \/ n > 2
      <4>1. \A m \in Nat : m >= 2 => m = 2 \/ m > 2
        OBVIOUS
      <4> QED BY <1>1, <4>1, Zenon
    <3> QED BY <3>2, <3>3, <3>4
  <2>3. Fits(t[n + 1 - 1], t[n + 1]) /\ Within(t[n + 1])
    BY <1>1 DEF t
  <2>4. \A i \in 2 .. n + 1 : i \in 2 .. n \/ i = n + 1
    BY <1>1
  <2>5. \A i \in 2 .. n + 1 : Fits(t[i - 1], t[i]) /\ Within(t[i])
    BY <2>1, <2>3, <2>4
  <2> QED BY <1>1, <2>2, <2>5 DEF t, Shape
<1>6. Len(t) # 1
  BY <1>1 DEF t
<1> QED BY <1>1, <1>2, <1>4, <1>5, <1>6 DEF Promised, t, q

LEMMA Popping ==
  ASSUME IInv, Promised, active, active', emit' = emit, history' = history,
         Len(stack) >= 2, Len(stack') = Len(stack) - 1,
         \A k \in 1 .. Len(stack) - 2 : stack'[k] = stack[k],
         Comes(Top, "none", Now, emit) = Now',
         Len(stack) = 2 => /\ stack'[1] = stack[1]
                           /\ exc' = "none" /\ stack[1].op = "run" => result' = Returned(stack[1]),
         Len(stack) > 2 => /\ Like(stack'[Len(stack) - 1], stack[Len(stack) - 1])
                           /\ Within(stack'[Len(stack) - 1])
                           /\ Comes(stack'[Len(stack) - 1], "none", Now', emit)
                                = Comes(stack[Len(stack) - 1], Top.f, Now', emit)
  PROVE  Promised'
<1> DEFINE n == Len(stack)
           t == stack'
           q == Now'
<1>1. /\ Shape(stack) /\ Len(history) < MaxCalls /\ stack[1].source \in Sources
      /\ Promise(stack, Now, emit, Meant(stack[1]))
      /\ n \in Nat \ {0} /\ Top = stack[n]
  BY InCall DEF Promised
<1> HIDE DEF t, q
<1>2. t[1] = stack[1]
  BY <1>1 DEF t
<1>3. n > 2 => t[n - 1].f = stack[n - 1].f
  BY DEF t, Like
<1>4. Promise(t, q, emit, Meant(t[1]))
  BY <1>1, <1>2, <1>3, PromisePops DEF t, q
<1>5. Shape(t)
  <2>1. ASSUME NEW i \in 2 .. n - 1 PROVE Fits(t[i - 1], t[i]) /\ Within(t[i])
    <3>1. Fits(stack[i - 1], stack[i]) /\ Within(stack[i])
      <4>1. i \in 2 .. n
        BY <1>1
      <4> QED BY <1>1, <4>1 DEF Shape
    <3>2. t[i - 1] = stack[i - 1]
      BY <1>1 DEF t
    <3>3. CASE i < n - 1
      BY <1>1, <3>1, <3>2, <3>3 DEF t
    <3>4. CASE i = n - 1
      BY <1>1, <3>1, <3>2, <3>4, LikeFits DEF t
    <3> QED BY <3>3, <3>4, <1>1
  <2>2. n > 2 => t[2].f = "run" /\ t[2].source = t[1].source
    <3>1. stack[2].f = "run" /\ stack[2].source = stack[1].source
      BY <1>1 DEF Shape
    <3>2. CASE n = 3
      BY <1>1, <1>2, <3>1, <3>2 DEF t, Like
    <3>3. CASE n > 3
      <4>1. 2 \in 1 .. n - 2
        BY <1>1, <3>3
      <4>2. t[2] = stack[2]
        BY <4>1 DEF t
      <4> QED BY <1>2, <3>1, <4>2
    <3> QED BY <1>1, <3>2, <3>3
  <2> QED BY <1>1, <2>1, <2>2 DEF t, Shape
<1>6. Len(t) = 1 /\ exc' = "none" /\ t[1].op = "run" => result' = Returned(t[1])
  <2>1. Len(t) = 1 => n = 2
    <3>1. Len(t) = n - 1 /\ n \in Nat
      BY <1>1 DEF t
    <3>2. \A m \in Nat : m - 1 = 1 => m = 2
      OBVIOUS
    <3> HIDE DEF n
    <3> QED BY <3>1, <3>2, Zenon
  <2>2. n = 2 => (exc' = "none" /\ stack[1].op = "run" => result' = Returned(stack[1]))
    OBVIOUS
  <2> QED BY <1>2, <2>1, <2>2
<1> QED BY <1>1, <1>2, <1>4, <1>5, <1>6 DEF Promised, t, q

LEMMA ComesOf ==
  ASSUME NEW fr, NEW above, NEW p, NEW e
  PROVE  /\ fr.f = "run" => Comes(fr, above, p, e) = Said(RestOfRun(fr, p, e), p.depth)
         /\ fr.f = "eval" /\ fr.role = "form" =>
              Comes(fr, above, p, e) =
                Said(RestOfForm(fr, IF above = "run" THEN fr.ip + 2 ELSE fr.ip + 1, p, e),
                     p.depth - 1)
         /\ fr.f = "eval" /\ fr.role = "guard" =>
              Comes(fr, above, p, e) = Said(RestOfGuard(fr, above, p, e), p.depth - 1)
         /\ fr.f = "emit" => Comes(fr, above, p, e) = Said(RestOfEmit(fr, p, e), p.depth)
BY DEF Comes

\* An exception passes through every frame but a guard that stops it.
LEMMA ThrownPasses ==
  ASSUME NEW fr, NEW above, NEW p, NEW e, p.eff.exc # "none"
  PROVE  /\ fr.f \in {"run", "emit"} => Comes(fr, above, p, e) = Said(p.eff, p.depth)
         /\ fr.f = "eval" /\ fr.role = "form" =>
              Comes(fr, above, p, e) = Said(p.eff, p.depth - 1)
         /\ fr.f = "eval" /\ fr.role = "guard" =>
              Comes(fr, above, p, e) = Said(Contract!Guarded(fr.form, p.eff), p.depth - 1)
<1>1. \A b : Contract!Then(p.eff, b) = p.eff
  BY ThenStops
<1>2. RestOfRun(fr, p, e) = p.eff /\ RestOfEmit(fr, p, e) = p.eff
  BY <1>1 DEF RestOfRun, RestOfEmit
<1>3. \A i : RestOfForm(fr, i, p, e) = p.eff
  BY <1>1 DEF RestOfForm
<1>4. RestOfGuard(fr, above, p, e) = Contract!Guarded(fr.form, p.eff)
  BY <1>1 DEF RestOfGuard
<1> QED BY <1>2, <1>3, <1>4, ComesOf

LEMMA NowIs ==
  ASSUME IInv
  PROVE  /\ Now = Said(Contract!Effect(events, exc, Held), depth)
         /\ Now.eff = Contract!Effect(events, exc, Held) /\ Now.depth = depth
         /\ Now.eff \in Effects /\ Now.eff.exc = exc /\ Now.eff.value = Held
         /\ Now.eff.events = events
         /\ Left(Now) = MaxDepth - depth /\ Left(Now) \in 0 .. MaxDepth
         /\ \A e : /\ Loaded(Contract!Loads(e), Left(Now))
                   /\ Loaded(Contract!Loads(e), Left(Now) - 1)
<1>1. Held \in {"void", "some"} /\ events \in Seq(Kinds) /\ exc \in Exceptions
  BY DEF Held, IInv, Kinds, Exceptions
<1>2. Contract!Effect(events, exc, Held) \in Effects
  BY <1>1, EffectType
<1>3. Left(Now) = MaxDepth - depth /\ Left(Now) \in 0 .. MaxDepth
  BY DEF IInv, Balanced, Left, Now, Said
<1>4. \A e : Loaded(Contract!Loads(e), MaxDepth)
  BY LoadsType
<1>5. \A e : Loaded(Contract!Loads(e), Left(Now)) /\ Loaded(Contract!Loads(e), Left(Now) - 1)
  BY <1>3, <1>4 DEF Loaded
<1> QED BY <1>2, <1>3, <1>5 DEF Now, Said, Contract!Effect

\* What Promised says of the innermost frame.
LEMMA OnTop ==
  ASSUME IInv, Promised, active, Top.f # "call"
  PROVE  /\ Len(stack) >= 2 /\ Len(stack) \in Nat /\ stack # <<>>
         /\ Top = stack[Len(stack)] /\ Top \in Frames
         /\ Fits(stack[Len(stack) - 1], Top) /\ Within(Top)
         /\ Top.f \in {"run", "eval", "emit"}
<1>1. /\ Len(stack) >= 2 /\ Len(stack) \in Nat /\ stack # <<>>
      /\ Top = stack[Len(stack)] /\ Top \in Frames
  BY InCall
<1>2. Shape(stack)
  BY DEF Promised
<1>3. Fits(stack[Len(stack) - 1], Top) /\ Within(Top)
  BY <1>1, <1>2 DEF Shape
<1>4. Top.f \in {"run", "eval", "emit"}
  BY <1>1 DEF Frames, CallFrames, RunFrames, EvalFrames, EmitFrames
<1> QED BY <1>1, <1>3, <1>4

LEMMA LikeItself == \A f : Like(f, f)
BY DEF Like

\* Throwing is what the contract says, if the frame was to come to that.
LEMMA Throwing ==
  ASSUME IInv, Promised, active, Top.f # "call",
         NEW k \in {"scheme", "host", "exit"}, Throw(k),
         Comes(Top, "none", Said(Contract!Effect(events, k, "void"), depth), emit)
           = Comes(Top, "none", Now, emit)
  PROVE  Promised'
<1>1. stack' = stack /\ exc' = k /\ UNCHANGED <<active, emit, depth, value, result, events, history>>
  BY DEF Throw
<1>2. Now' = Said(Contract!Effect(events, k, "void"), depth)
  BY <1>1 DEF Now, Held
<1>3. /\ Len(stack) >= 2 /\ Len(stack) \in Nat /\ Top = stack[Len(stack)] /\ Within(Top)
  BY OnTop
<1>4. Like(Top, Top)
  BY LikeItself
<1>5. Comes(stack'[Len(stack)], "none", Now', emit) = Comes(Top, "none", Now, emit)
  BY <1>1, <1>2, <1>3
<1> QED BY <1>1, <1>3, <1>4, <1>5, Moving

LEMMA UnwindKeeps ==
  ASSUME IInv, Promised, active, Unwind PROVE Promised'
<1>1. /\ exc # "none" /\ ~Caught /\ Top.f # "call" /\ stack' = Below(stack)
      /\ depth' = (IF Top.f = "eval" THEN depth - 1 ELSE depth)
      /\ UNCHANGED <<active, emit, exc, value, result, events, history>>
  BY DEF Unwind, Rest, Below
<1>2. /\ Len(stack) >= 2 /\ Len(stack) \in Nat /\ Top = stack[Len(stack)] /\ Within(Top)
      /\ Top.f \in {"run", "eval", "emit"} /\ stack \in Seq(Frames) /\ stack # <<>> /\ Top \in Frames
  BY <1>1, OnTop, InCall
<1>3. /\ Len(stack') = Len(stack) - 1 /\ \A k \in 1 .. Len(stack) - 1 : stack'[k] = stack[k]
  BY <1>1, <1>2, Pop
<1>4. Now' = Said(Contract!Effect(events, exc, "void"), depth')
  BY <1>1 DEF Now, Held
<1>5. Now = Said(Contract!Effect(events, exc, "void"), depth)
  BY <1>1 DEF Now, Held
<1> DEFINE eff == Contract!Effect(events, exc, "void")
<1>6. Now.eff = eff /\ Now.depth = depth /\ Now'.eff = eff /\ Now'.depth = depth' /\ eff.exc = exc
  BY <1>4, <1>5 DEF Said, Contract!Effect
<1>7. Now' = Said(eff, depth')
  BY <1>4
<1> HIDE DEF eff
<1>8. Comes(Top, "none", Now, emit) = Now'
  <2>1. CASE Top.f \in {"run", "emit"}
    BY <1>1, <1>6, <1>7, <2>1, ThrownPasses
  <2>2. CASE Top.f = "eval" /\ Top.role = "form"
    BY <1>1, <1>6, <1>7, <2>2, ThrownPasses
  <2>3. CASE Top.f = "eval" /\ Top.role = "guard"
    <3>1. Contract!Guarded(Top.form, eff) = eff
      BY <1>1, <1>6, <2>3 DEF Caught, Contract!Guarded
    <3> QED BY <1>1, <1>6, <1>7, <2>3, <3>1, ThrownPasses
  <2>4. Top.f = "eval" => Top.role \in {"form", "guard"}
    BY <1>2, Tags DEF EvalFrames
  <2> QED BY <1>2, <2>1, <2>2, <2>3, <2>4
<1> DEFINE b == stack[Len(stack) - 1]
<1>9. Len(stack) > 2 => /\ Like(stack'[Len(stack) - 1], b) /\ Within(stack'[Len(stack) - 1])
                        /\ Comes(stack'[Len(stack) - 1], "none", Now', emit)
                             = Comes(b, Top.f, Now', emit)
  <2> SUFFICES ASSUME Len(stack) > 2
               PROVE  /\ Like(stack'[Len(stack) - 1], b) /\ Within(stack'[Len(stack) - 1])
                      /\ Comes(stack'[Len(stack) - 1], "none", Now', emit)
                           = Comes(b, Top.f, Now', emit)
    OBVIOUS
  <2>1. stack'[Len(stack) - 1] = b /\ b \in Frames /\ b.f # "call" /\ Within(b)
    <3>1. Len(stack) - 1 \in 2 .. Len(stack) /\ Len(stack) - 1 \in 1 .. Len(stack) - 1
      BY <1>2
    <3>2. Shape(stack)
      BY DEF Promised
    <3>3. Fits(stack[Len(stack) - 1 - 1], b) /\ Within(b)
      BY <3>1, <3>2 DEF Shape
    <3>4. b \in Frames
      BY <1>2, <3>1
    <3> QED BY <1>3, <3>1, <3>3, <3>4 DEF Fits
  <2> HIDE DEF b
  <2>2. b.f \in {"run", "emit", "eval"} /\ (b.f = "eval" => b.role \in {"form", "guard"})
    BY <2>1, Tags DEF Frames, CallFrames, RunFrames, EvalFrames, EmitFrames
  <2>3. Comes(b, "none", Now', emit) = Comes(b, Top.f, Now', emit)
    BY <1>1, <1>6, <2>2, ThrownPasses
  <2> QED BY <2>1, <2>3, LikeItself
<1>10. Len(stack) = 2 => /\ stack'[1] = stack[1]
                         /\ exc' = "none" /\ stack[1].op = "run" => result' = Returned(stack[1])
  BY <1>1, <1>3
<1> QED BY <1>1, <1>2, <1>3, <1>8, <1>9, <1>10, Popping

-----------------------------------------------------------------------------
LEMMA HandleKeeps ==
  ASSUME IInv, Promised, active, Handle PROVE Promised'
<1> DEFINE fr == [Top EXCEPT !.ip = 1]
           eff == Contract!Effect(events, "scheme", "void")
           new == Contract!Effect(events, "none", "void")
<1>1. /\ exc = "scheme" /\ Top.f = "eval" /\ Top.role = "guard" /\ Top.form.guard = "else"
      /\ stack' = Replaced(stack, fr) /\ exc' = "none" /\ value' = "void"
      /\ UNCHANGED <<active, emit, depth, result, events, history>>
  BY DEF Handle, Caught, WithTop
<1>2. /\ Len(stack) >= 2 /\ Len(stack) \in Nat /\ stack # <<>> /\ stack \in Seq(Frames)
      /\ Top = stack[Len(stack)] /\ Top \in EvalFrames
  BY <1>1, OnTop, InCall, Tags
<1>3. /\ fr \in Frames /\ fr.f = "eval" /\ fr.role = "guard" /\ fr.ip = 1 /\ fr.form = Top.form
  BY <1>1, <1>2, MovedEval DEF EvalFrames
<1> HIDE DEF fr
<1>4. /\ Len(stack') = Len(stack) /\ stack'[Len(stack)] = fr
      /\ \A k \in 1 .. Len(stack) - 1 : stack'[k] = stack[k]
  BY <1>1, <1>2, <1>3, Replace
<1>5. Top' = fr
  BY <1>4 DEF Top
<1>6. Now = Said(eff, depth) /\ Now.eff = eff /\ Now.depth = depth
  BY <1>1 DEF Now, Held, Said
<1>7. Now' = Said(new, depth) /\ Now'.eff = new /\ Now'.depth = depth
  BY <1>1 DEF Now, Held, Said
<1>8. Comes(Top, "none", Now, emit) = Said(new, depth - 1)
  <2>1. eff.exc # "none" /\ Contract!Guarded(Top.form, eff) = new
    BY <1>1 DEF Contract!Guarded, Contract!Effect
  <2> HIDE DEF eff, new
  <2> QED BY <1>1, <1>6, <2>1, ThrownPasses
<1>9. Comes(fr, "none", Now', emit) = Said(new, depth - 1)
  <2>1. Contract!Guarded(fr.form, new) = new
    BY DEF Contract!Guarded, Contract!Effect
  <2> HIDE DEF eff, new
  <2>2. RestOfGuard(fr, "none", Now', emit) = new
    BY <1>3, <1>7, <2>1 DEF RestOfGuard
  <2> QED BY <1>3, <1>7, <2>2, ComesOf
<1>10. Like(fr, Top) /\ Within(fr)
  BY <1>1, <1>3 DEF Like, Within
<1> QED BY <1>1, <1>2, <1>4, <1>8, <1>9, <1>10, Moving

\* What comes of the host's callback while it runs.
LEMMA EmitComes ==
  ASSUME IInv, NEW fr, fr.f = "emit", exc = "none", Held = "void"
  PROVE  Comes(fr, "none", Now, emit) =
           Said(Contract!Effect(events, Surprise(fr, emit), "void"), depth)
<1>1. Surprise(fr, emit) \in Exceptions
  BY DEF Surprise, Exceptions
<1>2. RestOfEmit(fr, Now, emit) = Contract!Effect(events, Surprise(fr, emit), "void")
  BY <1>1, NowIs, ThenEnds DEF RestOfEmit
<1> QED BY <1>2, NowIs, ComesOf

LEMMA CallbackThrowKeeps ==
  ASSUME IInv, Promised, active, CallbackThrow PROVE Promised'
<1>1. Top.f = "emit" /\ exc = "none" /\ Behaviour[emit] = "throw" /\ Throw("host")
  BY DEF CallbackThrow, Going
<1> DEFINE thrown == Contract!Effect(events, "host", "void")
           p == Said(thrown, depth)
<1>2. Comes(Top, "none", Now, emit) = p
  BY <1>1, EmitComes DEF Held, Surprise
<1>3. Comes(Top, "none", p, emit) = p
  <2>1. p.eff = thrown /\ p.depth = depth /\ thrown.exc # "none"
    BY DEF Said, Contract!Effect
  <2>2. p = Said(thrown, depth)
    OBVIOUS
  <2> HIDE DEF p, thrown
  <2> QED BY <1>1, <2>1, <2>2, ThrownPasses
<1> QED BY <1>1, <1>2, <1>3, Throwing

LEMMA RefuseKeeps ==
  ASSUME IInv, Promised, active, Refuse PROVE Promised'
<1> DEFINE fr == [Top EXCEPT !.refused = TRUE]
           x == IF Behaviour[emit] = "reenter-throw" THEN "host" ELSE "none"
           eff == Contract!Effect(events, x, "void")
<1>1. /\ exc = "none" /\ Top.f = "emit" /\ ~Top.refused
      /\ Behaviour[emit] \in {"reenter", "reenter-throw"}
      /\ stack' = Replaced(stack, fr) /\ exc' = x
      /\ UNCHANGED <<active, emit, depth, value, result, events, history>>
  BY DEF Refuse, Going, WithTop
<1>2. /\ Len(stack) >= 2 /\ Len(stack) \in Nat /\ stack # <<>> /\ stack \in Seq(Frames)
      /\ Top = stack[Len(stack)] /\ Top \in EmitFrames
  BY <1>1, OnTop, InCall, Tags
<1>3. fr \in Frames /\ fr.f = "emit" /\ fr.refused
  BY <1>1, <1>2 DEF EmitFrames, Frames
<1> HIDE DEF fr
<1>4. /\ Len(stack') = Len(stack) /\ stack'[Len(stack)] = fr
      /\ \A k \in 1 .. Len(stack) - 1 : stack'[k] = stack[k]
  BY <1>1, <1>2, <1>3, Replace
<1>5. Top' = fr
  BY <1>4 DEF Top
<1>6. Now' = Said(eff, depth) /\ Now'.eff = eff /\ Now'.depth = depth
  BY <1>1, <1>3, <1>5 DEF Now, Held, Said
<1>7. Comes(Top, "none", Now, emit) = Said(eff, depth)
  <2>1. Surprise(Top, emit) = x
    BY <1>1 DEF Surprise
  <2>2. Held = "void"
    BY <1>1 DEF Held
  <2> QED BY <1>1, <2>1, <2>2, EmitComes
<1>8. Comes(fr, "none", Now', emit) = Said(eff, depth)
  <2>1. eff.exc = x /\ eff.events = events /\ eff.value = "void"
    BY DEF Contract!Effect
  <2>2. CASE x # "none"
    <3> HIDE DEF eff, x
    <3> QED BY <1>3, <1>6, <2>1, <2>2, ThrownPasses
  <2>3. CASE x = "none"
    <3>1. eff \in Effects
      BY EffectType DEF Exceptions, IInv, Kinds
    <3>2. Surprise(fr, emit) = "none"
      BY <1>1, <1>3 DEF Surprise
    <3>3. Contract!Then(eff, Contract!Effect(<<>>, "none", "void")) = Contract!Effect(events, "none", "void")
      <4> HIDE DEF eff, x
      <4> QED BY <2>1, <2>3, <3>1, ThenEnds DEF Exceptions
    <3>4. RestOfEmit(fr, Now', emit) = eff
      BY <1>6, <2>3, <3>2, <3>3 DEF RestOfEmit
    <3> HIDE DEF eff, x
    <3> QED BY <1>3, <1>6, <3>4, ComesOf
  <2> QED BY <2>2, <2>3
<1>9. Like(fr, Top) /\ Within(fr)
  BY <1>1, <1>3 DEF Like, Within
<1> QED BY <1>1, <1>2, <1>4, <1>7, <1>8, <1>9, Moving

\* The frame below the innermost.
LEMMA BelowTop ==
  ASSUME IInv, Promised, active, Len(stack) > 2
  PROVE  /\ stack[Len(stack) - 1] \in Frames /\ Within(stack[Len(stack) - 1])
         /\ stack[Len(stack) - 1].f \in {"run", "emit", "eval"}
         /\ Len(stack) - 1 \in 1 .. Len(stack) - 1
<1> DEFINE b == stack[Len(stack) - 1]
<1>1. Len(stack) - 1 \in 2 .. Len(stack) /\ Len(stack) - 1 \in 1 .. Len(stack) - 1
  BY InCall
<1>2. Shape(stack) /\ b \in Frames
  BY <1>1, InCall DEF Promised
<1>3. Fits(stack[Len(stack) - 1 - 1], b) /\ Within(b)
  BY <1>1, <1>2 DEF Shape
<1> HIDE DEF b
<1>4. b.f # "call"
  BY <1>3 DEF Fits
<1>5. b.f \in {"run", "emit", "eval"}
  BY <1>2, <1>4 DEF Frames, CallFrames, RunFrames, EvalFrames, EmitFrames
<1> QED BY <1>1, <1>2, <1>3, <1>5 DEF b

LEMMA CallbackReturnKeeps ==
  ASSUME IInv, Promised, active, CallbackReturn PROVE Promised'
<1> DEFINE b == stack[Len(stack) - 1]
<1>1. /\ exc = "none" /\ Top.f = "emit" /\ stack' = Below(stack)
      /\ Behaviour[emit] # "throw"
      /\ Behaviour[emit] = "reenter-throw" => Top.refused
      /\ UNCHANGED <<active, emit, depth, exc, value, result, events, history>>
  BY DEF CallbackReturn, Going, Rest, Below
<1>2. /\ Len(stack) >= 2 /\ Len(stack) \in Nat /\ stack # <<>> /\ stack \in Seq(Frames)
      /\ Top = stack[Len(stack)] /\ Fits(b, Top)
  BY <1>1, OnTop, InCall
<1>3. Len(stack') = Len(stack) - 1 /\ \A k \in 1 .. Len(stack) - 1 : stack'[k] = stack[k]
  BY <1>1, <1>2, Pop
<1>4. (b.f = "run" /\ b.at = "loop") \/ (b.f = "eval" /\ b.role = "form")
  BY <1>1, <1>2 DEF Fits
<1>5. Len(stack) > 2
  <2>1. stack[1].f = "call"
    BY InCall
  <2>2. ASSUME Len(stack) = 2 PROVE FALSE
    <3>1. b = stack[1]
      BY <2>2
    <3> QED BY <1>4, <2>1, <3>1
  <2>3. \A m \in Nat : m >= 2 /\ m # 2 => m > 2
    OBVIOUS
  <2> QED BY <1>2, <2>2, <2>3, Zenon
<1>6. stack'[Len(stack) - 1] = b /\ Top' = b
  BY <1>2, <1>3, <1>5 DEF Top
<1>7. Now' = Said(Contract!Effect(events, "none", "void"), depth)
  BY <1>1, <1>4, <1>6 DEF Now, Held
<1>8. Comes(Top, "none", Now, emit) = Now'
  <2>1. Surprise(Top, emit) = "none"
    BY <1>1 DEF Surprise
  <2>2. Held = "void"
    BY <1>1 DEF Held
  <2> QED BY <1>1, <1>7, <2>1, <2>2, EmitComes
<1> HIDE DEF b
<1>9. Comes(b, "none", Now', emit) = Comes(b, Top.f, Now', emit)
  BY <1>1, <1>4, ComesOf
<1>10. Within(b)
  BY <1>5, BelowTop DEF b
<1>11. /\ \A k \in 1 .. Len(stack) - 2 : stack'[k] = stack[k]
       /\ Len(stack) # 2
  BY <1>2, <1>3, <1>5
<1>12. /\ Like(stack'[Len(stack) - 1], stack[Len(stack) - 1]) /\ Within(stack'[Len(stack) - 1])
       /\ Comes(stack'[Len(stack) - 1], "none", Now', emit)
            = Comes(stack[Len(stack) - 1], Top.f, Now', emit)
  BY <1>6, <1>9, <1>10, LikeItself DEF b
<1> QED BY <1>1, <1>2, <1>3, <1>8, <1>11, <1>12, Popping

(***************************************************************************)
(* The builtins a form calls.                                              *)
(***************************************************************************)
LEMMA FormComes ==
  ASSUME IInv, Promised, active, NEW op, Calling(op)
  PROVE  LET n == Left(Now)
             L == Contract!Loads(emit)
             ops == Top.form.ops
             value_ == Contract!Effect(<<>>, "none", Top.form.value)
             rest == Contract!Then(Contract!MOps(ops, Top.ip + 2, n, emit, L), value_)
             this == Contract!MOp(ops[Top.ip + 1], n, emit, L)
         IN /\ Top \in EvalFrames /\ Top.f = "eval" /\ Top.role = "form" /\ exc = "none"
            /\ ops[Top.ip + 1] \in Op /\ ops[Top.ip + 1].op = op
            /\ this \in Effects /\ rest \in Effects /\ value_ \in Effects
            /\ Contract!MOps(ops, Top.ip + 2, n, emit, L) \in Effects
            /\ Now = Said(Contract!Effect(events, "none", "void"), depth)
            /\ Now.eff = Contract!Effect(events, "none", "void") /\ Now.depth = depth
            /\ Contract!Effect(events, "none", "void") \in Effects
            /\ Comes(Top, "none", Now, emit) =
                 Said(Contract!Then(Contract!Effect(events, "none", "void"),
                                    Contract!Then(this, rest)), depth - 1)
<1> DEFINE n == Left(Now)
           L == Contract!Loads(emit)
           ops == Top.form.ops
           i == Top.ip + 1
           val == Contract!Effect(<<>>, "none", Top.form.value)
           later == Contract!MOps(ops, i + 1, n, emit, L)
           this == Contract!MOp(ops[i], n, emit, L)
           p == Contract!Effect(events, "none", "void")
<1>1. /\ exc = "none" /\ Top.f = "eval" /\ Top.role = "form" /\ Top.ip < Len(ops)
      /\ ops[i].op = op
  BY DEF Calling, Going
<1>2. Top \in EvalFrames
  BY <1>1, OnTop, Tags
<1>3. /\ ops \in Seq(Op) /\ Top.ip \in Nat /\ Top.form \in Form
      /\ Top.form.value \in {"void", "some"}
  BY <1>2 DEF EvalFrames, Form
<1>4. i \in 1 .. Len(ops) /\ i + 1 \in 1 .. Len(ops) + 1 /\ ops[i] \in Op /\ i + 1 = Top.ip + 2
  BY <1>1, <1>3
<1>5. Held = "void"
  BY <1>1 DEF Held
<1>6. Now = Said(p, depth) /\ Now.eff = p /\ Now.depth = depth /\ p \in Effects
  BY <1>1, <1>5, NowIs
<1>7. n \in Nat /\ Loaded(L, n)
  BY NowIs
<1> HIDE DEF n, L, p
<1>8. val \in Effects
  BY <1>3, SimpleEffects
<1>9. this \in Effects /\ later \in Effects
  BY <1>3, <1>4, <1>7, OpType, OpsLaw
<1>10. Contract!MOps(ops, i, n, emit, L) = Contract!Then(this, later)
  <2> HIDE DEF ops, i, later, this
  <2> QED BY <1>3, <1>4, <1>7, OpsNext DEF later, this
<1>11. RestOfForm(Top, i, Now, emit) =
         Contract!Then(Contract!Then(p, Contract!MOps(ops, i, n, emit, L)), val)
  BY <1>6 DEF RestOfForm, n, L
<1> HIDE DEF ops, val, later, this
<1>12. /\ Contract!Then(Contract!Then(p, Contract!Then(this, later)), val)
            = Contract!Then(p, Contract!Then(this, Contract!Then(later, val)))
       /\ Contract!Then(later, val) \in Effects
  BY <1>6, <1>8, <1>9, ThenType, ThenAssociates
<1>13. Comes(Top, "none", Now, emit) = Said(RestOfForm(Top, i, Now, emit), depth - 1)
  BY <1>1, <1>6, ComesOf
<1>14. Comes(Top, "none", Now, emit) =
         Said(Contract!Then(p, Contract!Then(this, Contract!Then(later, val))), depth - 1)
  BY <1>10, <1>11, <1>12, <1>13
<1>15. /\ Contract!Then(later, val) \in Effects
       /\ later \in Effects /\ this \in Effects /\ val \in Effects
  BY <1>8, <1>9, <1>12
<1> QED BY <1>1, <1>2, <1>4, <1>6, <1>14, <1>15 DEF p, n, L, ops, val, later, this

\* A builtin that throws, and what throws before it does anything.
LEMMA OpThrows ==
  ASSUME IInv, Promised, active, NEW op, Calling(op), NEW k \in {"scheme", "host", "exit"},
         Throw(k),
         Contract!MOp(Top.form.ops[Top.ip + 1], Left(Now), emit, Contract!Loads(emit))
           = Contract!Effect(<<>>, k, "void")
  PROVE  Promised'
<1> DEFINE p == Contract!Effect(events, "none", "void")
           x == Contract!Effect(<<>>, k, "void")
           thrown == Contract!Effect(events, k, "void")
           rest == Contract!Then(Contract!MOps(Top.form.ops, Top.ip + 2, Left(Now), emit,
                                               Contract!Loads(emit)),
                                 Contract!Effect(<<>>, "none", Top.form.value))
<1>1. /\ Top.f = "eval" /\ Top.role = "form" /\ p \in Effects
      /\ Comes(Top, "none", Now, emit) =
           Said(Contract!Then(p, Contract!Then(x, rest)), depth - 1)
  BY FormComes
<1>2. Contract!Then(x, rest) = x
  BY ThenStops DEF Contract!Effect
<1>3. Contract!Then(p, x) = thrown
  <2>1. p.exc = "none" /\ p.events = events
    BY DEF Contract!Effect
  <2> HIDE DEF p
  <2> QED BY <1>1, <2>1, ThenEnds DEF Exceptions
<1>4. Comes(Top, "none", Now, emit) = Said(thrown, depth - 1)
  BY <1>1, <1>2, <1>3
<1>5. Comes(Top, "none", Said(thrown, depth), emit) = Said(thrown, depth - 1)
  <2> DEFINE q == Said(thrown, depth)
  <2>1. q.eff = thrown /\ q.depth = depth /\ thrown.exc # "none"
    BY DEF Said, Contract!Effect
  <2> HIDE DEF q, thrown
  <2>2. Comes(Top, "none", q, emit) = Said(thrown, depth - 1)
    BY <1>1, <2>1, ThrownPasses
  <2> QED BY <2>2 DEF q
<1> QED BY <1>1, <1>4, <1>5, Throwing

LEMMA RaiseKeeps ==
  ASSUME IInv, Promised, active, Raise PROVE Promised'
<1>1. Calling("raise") /\ Throw("scheme") /\ Top.form.ops[Top.ip + 1].op = "raise"
  BY DEF Raise, Calling
<1>2. Contract!MOp(Top.form.ops[Top.ip + 1], Left(Now), emit, Contract!Loads(emit))
        = Contract!Effect(<<>>, "scheme", "void")
  BY <1>1 DEF Contract!MOp, Contract!Failure
<1> QED BY <1>1, <1>2, OpThrows

LEMMA ExitKeeps ==
  ASSUME IInv, Promised, active, Exit PROVE Promised'
<1>1. Calling("exit") /\ Throw("exit") /\ Top.form.ops[Top.ip + 1].op = "exit"
  BY DEF Exit, Calling
<1>2. Contract!MOp(Top.form.ops[Top.ip + 1], Left(Now), emit, Contract!Loads(emit))
        = Contract!Effect(<<>>, "exit", "void")
  BY <1>1 DEF Contract!MOp
<1> QED BY <1>1, <1>2, OpThrows

LEMMA LoadKeeps ==
  ASSUME IInv, Promised, active, Load PROVE Promised'
<1> DEFINE n == Left(Now)
           L == Contract!Loads(emit)
           f == Top.form.ops[Top.ip + 1].file
           src == Files[f]
           this == Contract!MOp(Top.form.ops[Top.ip + 1], n, emit, L)
           later == Contract!MOps(Top.form.ops, Top.ip + 2, n, emit, L)
           val == Contract!Effect(<<>>, "none", Top.form.value)
           p == Contract!Effect(events, "none", "void")
<1>1. Calling("load")
  BY DEF Load
<1>2. /\ Top \in EvalFrames /\ Top.f = "eval" /\ Top.role = "form" /\ exc = "none"
      /\ Top.form.ops[Top.ip + 1] \in Op /\ Top.form.ops[Top.ip + 1].op = "load"
      /\ this \in Effects /\ later \in Effects /\ val \in Effects /\ p \in Effects
      /\ Now = Said(p, depth) /\ Now.eff = p /\ Now.depth = depth
      /\ Comes(Top, "none", Now, emit) =
           Said(Contract!Then(p, Contract!Then(this, Contract!Then(later, val))), depth - 1)
  BY <1>1, FormComes
<1>3. f \in FileNames
  BY <1>2 DEF Op
<1>4. n \in 0 .. MaxDepth /\ n = MaxDepth - depth
  BY NowIs
<1>5. this = L[n][f]
  BY <1>2 DEF Contract!MOp
<1>6. L[n][f] = IF src = Absent THEN Contract!Failure
                ELSE Contract!MRun(src, 1, TRUE, n, emit, L)
  <2>1. L[n] = LoadsAt(emit, n, L)
    BY <1>4, LoadsLaw
  <2> HIDE DEF L, n
  <2> QED BY <1>3, <2>1 DEF LoadsAt, FileNames
<1>7. CASE src = Absent
  <2>1. Throw("scheme")
    BY <1>7 DEF Load
  <2>2. this = Contract!Effect(<<>>, "scheme", "void")
    BY <1>5, <1>6, <1>7 DEF Contract!Failure
  <2> QED BY <1>1, <2>1, <2>2, OpThrows
<1>8. CASE src # Absent
  <2> DEFINE new == RunFrame(src, TRUE)
             q == Said(Contract!Then(p, this), depth)
  <2>1. src \in Source
    BY <1>3, <1>8
  <2>2. /\ new \in Frames /\ new.f = "run" /\ new.at = "loop" /\ new.pos = 0
        /\ new.source = src /\ new.strict = TRUE
    BY <2>1, NewFrames DEF RunFrame
  <2>3. /\ stack' = Append(stack, new)
        /\ UNCHANGED <<active, emit, depth, exc, value, result, events, history>>
    BY <1>8 DEF Load
  <2>4. /\ Len(stack) >= 2 /\ Len(stack) \in Nat /\ stack # <<>> /\ stack \in Seq(Frames)
        /\ Top = stack[Len(stack)] /\ Within(Top)
    BY <1>2, OnTop, InCall
  <2> HIDE DEF new
  <2>5. /\ Len(stack') = Len(stack) + 1 /\ \A k \in 1 .. Len(stack) : stack'[k] = stack[k]
        /\ stack'[Len(stack) + 1] = new
    BY <2>2, <2>3, <2>4, Push
  <2>6. Top' = new
    BY <2>4, <2>5 DEF Top
  <2>7. Now' = Said(p, depth)
    BY <1>2, <2>2, <2>3, <2>6 DEF Now, Held
  <2>8. Comes(new, "none", Now', emit) = q
    <3>1. Now' = Now
      BY <1>2, <2>7
    <3>2. RestOfRun(new, Now, emit) = Contract!Then(p, Contract!MRun(src, 0 + 1, TRUE, n, emit, L))
      BY <1>2, <2>2 DEF RestOfRun
    <3>3. RestOfRun(new, Now, emit) = Contract!Then(p, this)
      BY <1>5, <1>6, <1>8, <3>2
    <3> QED BY <1>2, <2>2, <3>1, <3>3, ComesOf
  <2>9. Comes(Top, "run", q, emit) = Comes(Top, "none", Now, emit)
    <3>1. q.eff = Contract!Then(p, this) /\ q.depth = depth /\ Left(q) = n
      BY <1>4 DEF Said, Left
    <3> HIDE DEF q
    <3>2. RestOfForm(Top, Top.ip + 2, q, emit) =
            Contract!Then(Contract!Then(Contract!Then(p, this), later), val)
      BY <3>1 DEF RestOfForm
    <3> HIDE DEF this, later, val, p
    <3>3. Contract!Then(Contract!Then(Contract!Then(p, this), later), val)
            = Contract!Then(p, Contract!Then(this, Contract!Then(later, val)))
      BY <1>2, ThenType, ThenAssociates
    <3>4. Comes(Top, "run", q, emit) = Said(RestOfForm(Top, Top.ip + 2, q, emit), depth - 1)
      BY <1>2, <3>1, ComesOf
    <3> QED BY <1>2, <3>2, <3>3, <3>4
  <2>10. Fits(Top, new) /\ Within(new)
    BY <1>2, <2>1, <2>2 DEF Fits, Within, Source
  <2> HIDE DEF q
  <2>11. /\ stack'[Len(stack)] = Top /\ \A k \in 1 .. Len(stack) - 1 : stack'[k] = stack[k]
    BY <2>4, <2>5
  <2>12. Comes(stack'[Len(stack)], stack'[Len(stack) + 1].f,
               Comes(stack'[Len(stack) + 1], "none", Now', emit), emit)
           = Comes(Top, "none", Now, emit)
    BY <2>2, <2>5, <2>8, <2>9, <2>11
  <2> QED BY <2>3, <2>4, <2>5, <2>10, <2>11, <2>12, LikeItself, Pushing
<1> QED BY <1>7, <1>8

\* An event, and the callback it is handed to.
LEMMA EventComes ==
  ASSUME NEW ev \in Seq(Kinds), NEW v \in {"void", "some"}, NEW k \in Kinds, NEW e, NEW d
  PROVE  LET new == Append(ev, k)
             come == Contract!Effect(new, Surprise(EmitFrame(k), e), "void")
         IN /\ Contract!Then(Contract!Effect(ev, "none", v), Contract!Event(k, e)) = come
            /\ Comes(EmitFrame(k), "none", Said(Contract!Effect(new, "none", "void"), d), e)
                 = Said(come, d)
            /\ come \in Effects
<1> DEFINE new == Append(ev, k)
           x == Surprise(EmitFrame(k), e)
           come == Contract!Effect(new, x, "void")
           a == Contract!Effect(ev, "none", v)
           b == Contract!Effect(new, "none", "void")
           p == Said(b, d)
<1>1. new \in Seq(Kinds) /\ new = ev \o <<k>> /\ <<k>> \in Seq(Kinds)
  OBVIOUS
<1>2. x \in Exceptions /\ EmitFrame(k).f = "emit"
  BY DEF Surprise, Exceptions, EmitFrame
<1>3. Contract!Event(k, e) = Contract!Effect(<<k>>, x, "void")
  BY DEF Contract!Event, Surprise, EmitFrame
<1> HIDE DEF x, new
<1>4. come \in Effects /\ b \in Effects /\ a \in Effects
      /\ Contract!Effect(<<k>>, x, "void") \in Effects
  BY <1>1, <1>2, EffectType DEF Exceptions
<1>5. a.events = ev /\ a.exc = "none" /\ b.events = new /\ b.exc = "none"
  BY DEF Contract!Effect
<1>6. Contract!Then(a, Contract!Effect(<<k>>, x, "void")) = come
  <2> DEFINE c == Contract!Effect(<<k>>, x, "void")
  <2>1. c.events = <<k>> /\ c.exc = x /\ c.value = "void"
    BY DEF Contract!Effect
  <2> HIDE DEF c, a
  <2>2. Contract!Then(a, c) = Contract!Effect(a.events \o c.events, c.exc, c.value)
    BY <1>4, <1>5, ThenGoes DEF c
  <2> QED BY <1>1, <1>5, <2>1, <2>2 DEF c
<1>7. Contract!Then(b, Contract!Effect(<<>>, x, "void")) = come
  <2> HIDE DEF b
  <2> QED BY <1>2, <1>4, <1>5, ThenEnds
<1>8. Comes(EmitFrame(k), "none", p, e) = Said(come, d)
  <2>1. p.eff = b /\ p.depth = d
    BY DEF Said
  <2> HIDE DEF p, b, come
  <2>2. RestOfEmit(EmitFrame(k), p, e) = come
    BY <1>7, <2>1 DEF RestOfEmit, x
  <2> QED BY <1>2, <2>1, <2>2, ComesOf
<1> QED BY <1>3, <1>4, <1>6, <1>8 DEF x, new

LEMMA DisplayKeeps ==
  ASSUME IInv, Promised, active, Display PROVE Promised'
<1> DEFINE n == Left(Now)
           L == Contract!Loads(emit)
           this == Contract!MOp(Top.form.ops[Top.ip + 1], n, emit, L)
           later == Contract!MOps(Top.form.ops, Top.ip + 2, n, emit, L)
           val == Contract!Effect(<<>>, "none", Top.form.value)
           p == Contract!Effect(events, "none", "void")
           fr == [Top EXCEPT !.ip = @ + 1]
           new == EmitFrame("output")
           s == Replaced(stack, fr)
<1>1. Calling("display")
  BY DEF Display
<1>2. /\ Top \in EvalFrames /\ Top.f = "eval" /\ Top.role = "form" /\ exc = "none"
      /\ Top.form.ops[Top.ip + 1].op = "display"
      /\ this \in Effects /\ later \in Effects /\ val \in Effects /\ p \in Effects
      /\ Comes(Top, "none", Now, emit) =
           Said(Contract!Then(p, Contract!Then(this, Contract!Then(later, val))), depth - 1)
      /\ Now.depth = depth
  BY <1>1, FormComes
<1>3. this = Contract!Event("output", emit)
  BY <1>2 DEF Contract!MOp
<1>4. /\ Len(stack) >= 2 /\ Len(stack) \in Nat /\ stack # <<>> /\ stack \in Seq(Frames)
      /\ Top = stack[Len(stack)] /\ emit # NoOp
  BY <1>2, OnTop, InCall
<1>5. /\ stack' = Append(s, new) /\ events' = Append(events, "output")
      /\ UNCHANGED <<active, emit, depth, exc, value, result, history>>
  BY <1>4 DEF Display, Deliver, Advanced
<1>6. /\ fr \in Frames /\ fr.f = "eval" /\ fr.role = "form" /\ fr.form = Top.form
      /\ fr.ip = Top.ip + 1 /\ Top.ip \in Nat
  BY <1>2, MovedEval DEF EvalFrames
<1>7. new \in Frames /\ new.f = "emit"
  BY NewFrames
<1> HIDE DEF fr, new
<1>8. /\ s \in Seq(Frames) /\ Len(s) = Len(stack) /\ s[Len(stack)] = fr
      /\ \A k \in 1 .. Len(stack) - 1 : s[k] = stack[k]
  BY <1>2, <1>4, <1>6, Replace
<1> HIDE DEF s
<1>9. /\ Len(stack') = Len(stack) + 1 /\ stack'[Len(stack)] = fr /\ stack'[Len(stack) + 1] = new
      /\ \A k \in 1 .. Len(stack) - 1 : stack'[k] = stack[k]
  <2>1. /\ Len(stack') = Len(s) + 1 /\ stack'[Len(s) + 1] = new
        /\ \A k \in 1 .. Len(s) : stack'[k] = s[k]
    BY <1>5, <1>7, <1>8, Push
  <2>2. /\ Len(stack) \in 1 .. Len(s)
        /\ \A k \in 1 .. Len(stack) - 1 : k \in 1 .. Len(s)
    BY <1>4, <1>8
  <2> QED BY <1>8, <2>1, <2>2
<1>10. Top' = new
  BY <1>4, <1>9 DEF Top
<1>11. Now' = Said(Contract!Effect(Append(events, "output"), "none", "void"), depth)
  BY <1>2, <1>5, <1>7, <1>10 DEF Now, Held
<1> DEFINE q == Said(Contract!Then(p, this), depth)
<1>12. Comes(new, "none", Now', emit) = q
  <2>1. events \in Seq(Kinds) /\ "output" \in Kinds
    BY DEF IInv, Kinds
  <2> QED BY <1>3, <1>11, <2>1, EventComes DEF new
<1>13. Comes(fr, "emit", q, emit) = Comes(Top, "none", Now, emit)
  <2>1. q.eff = Contract!Then(p, this) /\ q.depth = depth /\ Left(q) = n
    BY <1>2 DEF Said, Left
  <2> HIDE DEF q
  <2>2. fr.ip + 1 = Top.ip + 2
    BY <1>6
  <2>3. RestOfForm(fr, fr.ip + 1, q, emit) =
          Contract!Then(Contract!Then(Contract!Then(p, this), later), val)
    BY <1>6, <2>1, <2>2 DEF RestOfForm
  <2> HIDE DEF this, later, val, p
  <2>4. Contract!Then(Contract!Then(Contract!Then(p, this), later), val)
          = Contract!Then(p, Contract!Then(this, Contract!Then(later, val)))
    BY <1>2, ThenType, ThenAssociates
  <2>5. Comes(fr, "emit", q, emit) = Said(RestOfForm(fr, fr.ip + 1, q, emit), depth - 1)
    BY <1>6, <2>1, ComesOf
  <2> QED BY <1>2, <2>3, <2>4, <2>5
<1> HIDE DEF q
<1>14. Like(fr, Top) /\ Within(fr) /\ Fits(fr, new) /\ Within(new)
  BY <1>2, <1>6, <1>7 DEF Like, Within, Fits
<1>15. Comes(stack'[Len(stack)], stack'[Len(stack) + 1].f,
             Comes(stack'[Len(stack) + 1], "none", Now', emit), emit)
         = Comes(Top, "none", Now, emit)
  BY <1>7, <1>9, <1>12, <1>13
<1> QED BY <1>4, <1>5, <1>9, <1>14, <1>15, Pushing

\* The run at the head of a call, and where it stands.
LEMMA RunOnTop ==
  ASSUME IInv, Promised, active, Top.f = "run"
  PROVE  /\ Top \in RunFrames /\ Top.source \in Source /\ Top.source.forms \in Seq(Form)
         /\ Top.pos \in Nat /\ Top.pos <= Len(Top.source.forms)
         /\ Len(Top.source.forms) \in Nat
         /\ Top.at # "loop" => Top.pos < Len(Top.source.forms)
<1>1. Top \in RunFrames /\ Within(Top)
  BY OnTop, Tags
<1>2. Top.source \in Source /\ Top.pos \in Nat
  BY <1>1 DEF RunFrames
<1>3. Top.source.forms \in Seq(Form)
  BY <1>2 DEF Source
<1>4. Len(Top.source.forms) \in Nat
  BY <1>3
<1> QED BY <1>1, <1>2, <1>3, <1>4 DEF Within

\* The evaluation of a form or of the body of a guard, as it begins.
LEMMA BodyComes ==
  ASSUME NEW form \in Form, NEW p \in Effects, p.exc = "none", NEW d \in Nat, NEW e,
         d < MaxDepth
  PROVE  LET n == MaxDepth - d
             L == Contract!Loads(e)
         IN Comes(EvalFrame(form, "form"), "none", Said(p, d + 1), e)
              = Said(Contract!Then(p, Contract!MBody(form, n, e, L)), d)
<1> DEFINE n == MaxDepth - d
           L == Contract!Loads(e)
           fr == EvalFrame(form, "form")
           q == Said(p, d + 1)
           ops == Contract!MOps(form.ops, 1, n - 1, e, L)
           val == Contract!Effect(<<>>, "none", form.value)
<1>1. fr.f = "eval" /\ fr.role = "form" /\ fr.ip + 1 = 1 /\ fr.form = form
  BY DEF EvalFrame
<1>2. q.eff = p /\ q.depth = d + 1 /\ Left(q) = n - 1
  BY DEF Said, Left
<1>3. n \in Nat /\ n # 0 /\ n - 1 \in Nat
  OBVIOUS
<1>4. ops \in Effects /\ val \in Effects
  <2>1. Loaded(L, n - 1)
    BY <1>3, LoadsType DEF Loaded
  <2>2. form.ops \in Seq(Op) /\ form.value \in {"void", "some"}
    BY DEF Form
  <2>3. 1 \in 1 .. Len(form.ops) + 1
    BY <2>2
  <2> QED BY <1>3, <2>1, <2>2, <2>3, OpsLaw, SimpleEffects
<1>5. Contract!MBody(form, n, e, L) = Contract!Then(ops, val)
  BY <1>3 DEF Contract!MBody
<1> HIDE DEF fr, q
<1>6. RestOfForm(fr, 1, q, e) = Contract!Then(Contract!Then(p, ops), val)
  BY <1>1, <1>2 DEF RestOfForm
<1> HIDE DEF ops, val
<1>7. RestOfForm(fr, 1, q, e) = Contract!Then(p, Contract!MBody(form, n, e, L))
  BY <1>4, <1>5, <1>6, ThenAssociates
<1>8. Comes(fr, "none", q, e) = Said(RestOfForm(fr, 1, q, e), q.depth - 1)
  BY <1>1, ComesOf
<1>9. q.depth - 1 = d
  BY <1>2
<1> QED BY <1>7, <1>8, <1>9 DEF fr, q

LEMMA StartComes ==
  ASSUME NEW form \in Form, NEW p \in Effects, p.exc = "none", NEW d \in Nat, NEW e,
         d < MaxDepth
  PROVE  LET new == EvalFrame(form, IF form.guard = "none" THEN "form" ELSE "guard")
         IN Comes(new, "none", Said(p, d + 1), e)
              = Said(Contract!Then(p, Contract!MForm(form, MaxDepth - d, e, Contract!Loads(e))), d)
<1> DEFINE n == MaxDepth - d
           L == Contract!Loads(e)
<1>1. n \in Nat /\ n # 0
  OBVIOUS
<1>2. CASE form.guard = "none"
  <2>1. Contract!MForm(form, n, e, L) = Contract!MBody(form, n, e, L)
    BY <1>2 DEF Contract!MForm
  <2> QED BY <1>2, <2>1, BodyComes
<1>3. CASE form.guard # "none"
  <2> DEFINE fr == EvalFrame(form, "guard")
             q == Said(p, d + 1)
             body == Contract!MBody(form, n - 1, e, L)
  <2>1. fr.f = "eval" /\ fr.role = "guard" /\ fr.ip = 0 /\ fr.form = form
    BY DEF EvalFrame
  <2>2. q.eff = p /\ q.depth = d + 1 /\ Left(q) = n - 1
    BY DEF Said, Left
  <2>3. body \in Effects
    <3>1. n - 1 \in Nat /\ Loaded(L, n - 1 - 1)
      BY <1>1, LoadsType DEF Loaded
    <3> QED BY <3>1, BodyType
  <2>4. Contract!MForm(form, n, e, L) = Contract!Guarded(form, body)
    BY <1>1, <1>3 DEF Contract!MForm
  <2> HIDE DEF fr, q
  <2>5. RestOfGuard(fr, "none", q, e) = Contract!Guarded(form, Contract!Then(p, body))
    BY <2>1, <2>2 DEF RestOfGuard
  <2> HIDE DEF body
  <2>6. RestOfGuard(fr, "none", q, e) = Contract!Then(p, Contract!MForm(form, n, e, L))
    BY <2>3, <2>4, <2>5, GuardedThen
  <2>7. Comes(fr, "none", q, e) = Said(RestOfGuard(fr, "none", q, e), q.depth - 1)
    BY <2>1, ComesOf
  <2>8. q.depth - 1 = d
    BY <2>2
  <2> QED BY <1>3, <2>6, <2>7, <2>8 DEF fr, q
<1> QED BY <1>2, <1>3

\* An evaluation that finds the budget spent.
LEMMA NoneLeft ==
  ASSUME NEW form, NEW e, NEW l
  PROVE  /\ Contract!MBody(form, 0, e, l) = Contract!Failure
         /\ FormEchoed(form, 0, e, l) = Contract!Failure
<1>1. Contract!MBody(form, 0, e, l) = Contract!Failure
  BY DEF Contract!MBody
<1>2. Contract!MForm(form, 0, e, l) = Contract!Failure
  BY <1>1 DEF Contract!MForm
<1>3. Contract!Failure.exc # "none"
  BY DEF Contract!Failure, Contract!Effect
<1> QED BY <1>1, <1>2, <1>3, ThenStops DEF FormEchoed

LEMMA StartFormKeeps ==
  ASSUME IInv, Promised, active, StartForm PROVE Promised'
<1> DEFINE e == emit
           n == Left(Now)
           L == Contract!Loads(e)
           i == Top.pos + 1
           forms == Top.source.forms
           form == forms[i]
           later == Contract!MRun(Top.source, i + 1, Top.strict, n, e, L)
           p == Contract!Effect(events, "none", "void")
<1>1. /\ exc = "none" /\ Top.f = "run" /\ Top.at = "loop" /\ Top.pos < Len(forms)
      /\ form = NextForm
  BY DEF StartForm, Going, More, NextForm
<1>2. /\ Top \in RunFrames /\ Top.source \in Source /\ forms \in Seq(Form) /\ Top.pos \in Nat
      /\ Len(forms) \in Nat
  BY <1>1, RunOnTop
<1>3. i \in 1 .. Len(forms) /\ i + 1 \in 1 .. Len(forms) + 1 /\ form \in Form
      /\ i + 1 = Top.pos + 2
  BY <1>1, <1>2
<1>4. /\ Now = Said(p, depth) /\ Now.eff = p /\ Now.depth = depth /\ p \in Effects
      /\ p.exc = "none" /\ p.events = events
      /\ n = MaxDepth - depth /\ n \in Nat /\ Loaded(L, n - 1) /\ depth \in Nat
  <2>1. Held = "void"
    BY <1>1 DEF Held
  <2>2. depth \in Nat
    BY DEF IInv, Balanced
  <2> QED BY <1>1, <2>1, <2>2, NowIs
<1>5. /\ Contract!MRun(Top.source, i, Top.strict, n, e, L) = Contract!Then(FormEchoed(form, n, e, L), later)
      /\ later \in Effects /\ FormEchoed(form, n, e, L) \in Effects
  <2> DEFINE src == Top.source
             strict == Top.strict
  <2>1. src \in Source /\ n \in Nat /\ Loaded(L, n - 1) /\ i \in 1 .. Len(src.forms)
    BY <1>2, <1>3, <1>4
  <2> HIDE DEF n, L, i, src, strict
  <2>2. /\ Contract!MRun(src, i, strict, n, e, L) =
             Contract!Then(FormEchoed(src.forms[i], n, e, L),
                           Contract!MRun(src, i + 1, strict, n, e, L))
        /\ Contract!MRun(src, i + 1, strict, n, e, L) \in Effects
        /\ FormEchoed(src.forms[i], n, e, L) \in Effects
    BY <2>1, RunNext
  <2> QED BY <2>2 DEF src, strict
<1>6. Comes(Top, "none", Now, e) =
        Said(Contract!Then(p, Contract!Then(FormEchoed(form, n, e, L), later)), depth)
  <2>1. RestOfRun(Top, Now, e) = Contract!Then(p, Contract!MRun(Top.source, i, Top.strict, n, e, L))
    BY <1>1, <1>4 DEF RestOfRun
  <2> QED BY <1>1, <1>4, <1>5, <2>1, ComesOf
<1>7. CASE depth >= MaxDepth
  <2> DEFINE thrown == Contract!Effect(events, "scheme", "void")
             q == Said(thrown, depth)
  <2>1. n = 0
    BY <1>4, <1>7
  <2>2. FormEchoed(form, n, e, L) = Contract!Failure
    BY <2>1, NoneLeft
  <2>3. Contract!Then(Contract!Failure, later) = Contract!Failure
    BY ThenStops DEF Contract!Failure, Contract!Effect
  <2>4. Contract!Then(p, Contract!Failure) = thrown
    <3> HIDE DEF p
    <3> QED BY <1>4, ThenEnds DEF Exceptions, Contract!Failure
  <2>5. Comes(Top, "none", Now, e) = Said(thrown, depth)
    BY <1>6, <2>2, <2>3, <2>4
  <2>6. q.eff = thrown /\ q.depth = depth /\ thrown.exc # "none" /\ q = Said(thrown, depth)
    BY DEF Said, Contract!Effect
  <2> HIDE DEF q
  <2>7. Comes(Top, "none", q, e) = Said(thrown, depth)
    <3> HIDE DEF thrown
    <3> QED BY <1>1, <2>6, ThrownPasses
  <2>8. Throw("scheme")
    BY <1>7 DEF StartForm
  <2> QED BY <1>1, <2>5, <2>6, <2>7, <2>8, Throwing
<1>8. CASE ~(depth >= MaxDepth)
  <2> DEFINE fr == [Top EXCEPT !.at = "eval"]
             new == EvalFrame(form, IF form.guard = "none" THEN "form" ELSE "guard")
             s == Replaced(stack, fr)
             m == Contract!MForm(form, n, e, L)
             echo == Contract!Echoed(m.value, n, e)
             q == Said(Contract!Then(p, m), depth)
  <2>1. depth < MaxDepth
    BY <1>4, <1>8
  <2>2. /\ fr \in Frames /\ fr.f = "run" /\ fr.at = "eval" /\ fr.pos = Top.pos
        /\ fr.source = Top.source /\ fr.strict = Top.strict
    BY <1>2, MovedRun DEF RunFrames
  <2>3. new \in Frames /\ new.f = "eval" /\ new.ip = 0
    BY <1>3, NewFrames DEF EvalFrame
  <2>4. /\ Len(stack) >= 2 /\ Len(stack) \in Nat /\ stack # <<>> /\ stack \in Seq(Frames)
        /\ Top = stack[Len(stack)]
    BY <1>1, OnTop, InCall
  <2>5. /\ stack' = Append(s, new) /\ depth' = depth + 1
        /\ UNCHANGED <<active, emit, exc, value, result, events, history>>
    BY <1>1, <1>8 DEF StartForm, WithTop
  <2>6. Comes(new, "none", Said(p, depth + 1), e) = q
    <3> HIDE DEF p, form
    <3> QED BY <1>3, <1>4, <2>1, StartComes
  <2> HIDE DEF fr, new
  <2>7. /\ s \in Seq(Frames) /\ Len(s) = Len(stack) /\ s[Len(stack)] = fr
        /\ \A k \in 1 .. Len(stack) - 1 : s[k] = stack[k]
    BY <1>1, <2>2, <2>4, Replace
  <2> HIDE DEF s
  <2>8. /\ Len(stack') = Len(stack) + 1 /\ stack'[Len(stack)] = fr /\ stack'[Len(stack) + 1] = new
        /\ \A k \in 1 .. Len(stack) - 1 : stack'[k] = stack[k]
    <3>1. /\ Len(stack') = Len(s) + 1 /\ stack'[Len(s) + 1] = new
          /\ \A k \in 1 .. Len(s) : stack'[k] = s[k]
      BY <2>3, <2>5, <2>7, Push
    <3>2. /\ Len(stack) \in 1 .. Len(s)
          /\ \A k \in 1 .. Len(stack) - 1 : k \in 1 .. Len(s)
      BY <2>4, <2>7
    <3> QED BY <2>7, <3>1, <3>2
  <2>9. Top' = new
    BY <2>4, <2>8 DEF Top
  <2>10. Now' = Said(p, depth + 1)
    BY <1>1, <2>3, <2>5, <2>9 DEF Now, Held
  <2>11. Comes(fr, "eval", q, e) = Comes(Top, "none", Now, e)
    <3>1. m \in Effects /\ echo \in Effects
      <4> HIDE DEF n, L, form
      <4> QED BY <1>3, <1>4, FormType, EchoedType
    <3>2. FormEchoed(form, n, e, L) = Contract!Then(m, echo)
      BY DEF FormEchoed
    <3>3. Contract!Then(p, m).value = m.value
      <4> HIDE DEF m, p
      <4> QED BY <1>4, <3>1, ThenParts
    <3>4. q.eff = Contract!Then(p, m) /\ q.depth = depth /\ Left(q) = n
      BY <1>4 DEF Said, Left
    <3> HIDE DEF q
    <3>5. RestOfRun(fr, q, e) =
            Contract!Then(Contract!Then(Contract!Then(p, m), echo), later)
      BY <1>3, <2>2, <3>3, <3>4 DEF RestOfRun
    <3> HIDE DEF p, m, echo, later
    <3>6. Contract!Then(Contract!Then(Contract!Then(p, m), echo), later)
            = Contract!Then(p, Contract!Then(Contract!Then(m, echo), later))
      BY <1>4, <1>5, <3>1, ThenType, ThenAssociates
    <3>7. Comes(fr, "eval", q, e) = Said(RestOfRun(fr, q, e), depth)
      BY <2>2, <3>4, ComesOf
    <3> QED BY <1>6, <3>2, <3>5, <3>6, <3>7
  <2> HIDE DEF q
  <2>12. Like(fr, Top) /\ Within(fr) /\ Fits(fr, new) /\ Within(new)
    BY <1>1, <1>2, <2>2, <2>3 DEF Like, Within, Fits
  <2>13. Comes(stack'[Len(stack)], stack'[Len(stack) + 1].f,
               Comes(stack'[Len(stack) + 1], "none", Now', emit), emit)
           = Comes(Top, "none", Now, emit)
    BY <2>3, <2>6, <2>8, <2>10, <2>11
  <2> QED BY <2>4, <2>5, <2>8, <2>12, <2>13, Pushing
<1> QED BY <1>7, <1>8

\* A run that has no more forms comes to the end of its source.
LEMMA EndComes ==
  ASSUME IInv, Promised, active, Top.f = "run", exc = "none", Top.at = "loop",
         Top.pos >= Len(Top.source.forms)
  PROVE  LET p == Contract!Effect(events, "none", "void")
         IN /\ Now = Said(p, depth) /\ p \in Effects /\ p.exc = "none" /\ p.events = events
            /\ Top.pos = Len(Top.source.forms)
            /\ Comes(Top, "none", Now, emit) =
                 Said(Contract!Then(p, Contract!MEnd(Top.source, Top.strict)), depth)
<1> DEFINE p == Contract!Effect(events, "none", "void")
           n == Left(Now)
           L == Contract!Loads(emit)
           src == Top.source
           strict == Top.strict
<1>1. src \in Source /\ Top.pos = Len(src.forms)
  <2>1. Top.pos \in Nat /\ Top.pos <= Len(src.forms) /\ Len(src.forms) \in Nat /\ src \in Source
    BY RunOnTop
  <2> QED BY <2>1
<1>2. /\ Now = Said(p, depth) /\ Now.eff = p /\ Now.depth = depth /\ p \in Effects
      /\ p.exc = "none" /\ p.events = events /\ n \in Nat /\ Loaded(L, n - 1)
  <2>1. Held = "void"
    BY DEF Held
  <2> QED BY <2>1, NowIs
<1>3. RestOfRun(Top, Now, emit) = Contract!Then(p, Contract!MRun(src, Top.pos + 1, strict, n, emit, L))
  BY <1>2 DEF RestOfRun
<1> HIDE DEF src, strict, n, L, p
<1>4. Contract!MRun(src, Len(src.forms) + 1, strict, n, emit, L) = Contract!MEnd(src, strict)
  BY <1>1, <1>2, RunEnds
<1>5. Comes(Top, "none", Now, emit) = Said(Contract!Then(p, Contract!MEnd(src, strict)), depth)
  BY <1>1, <1>2, <1>3, <1>4, ComesOf
<1> QED BY <1>1, <1>2, <1>5 DEF src, strict, p

LEMMA FinishRunKeeps ==
  ASSUME IInv, Promised, active, FinishRun PROVE Promised'
<1> DEFINE p == Contract!Effect(events, "none", "void")
           src == Top.source
           b == stack[Len(stack) - 1]
           end == Contract!MEnd(src, Top.strict)
           failed == src.tail = "bad" \/ (src.tail = "open" /\ Top.strict)
<1>1. exc = "none" /\ Top.f = "run" /\ Top.at = "loop" /\ ~(Top.pos < Len(src.forms))
  BY DEF FinishRun, Going, More
<1>2. Top.pos >= Len(src.forms)
  BY <1>1, RunOnTop
<1>3. /\ Now = Said(p, depth) /\ p \in Effects /\ p.exc = "none" /\ p.events = events
      /\ Top.pos = Len(src.forms)
      /\ Comes(Top, "none", Now, emit) = Said(Contract!Then(p, end), depth)
  BY <1>1, <1>2, EndComes
<1>4. CASE failed
  <2> DEFINE thrown == Contract!Effect(events, "scheme", "void")
             q == Said(thrown, depth)
  <2>1. end = Contract!Effect(<<>>, "scheme", "void")
    BY <1>4 DEF Contract!MEnd, Contract!Failure
  <2>2. Contract!Then(p, end) = thrown
    <3> HIDE DEF p
    <3> QED BY <1>3, <2>1, ThenEnds DEF Exceptions
  <2>3. q.eff = thrown /\ q.depth = depth /\ thrown.exc # "none" /\ q = Said(thrown, depth)
    BY DEF Said, Contract!Effect
  <2> HIDE DEF q
  <2>4. Comes(Top, "none", q, emit) = Said(thrown, depth)
    <3> HIDE DEF thrown
    <3> QED BY <1>1, <2>3, ThrownPasses
  <2>5. Throw("scheme")
    BY <1>4 DEF FinishRun
  <2> QED BY <1>1, <1>3, <2>2, <2>3, <2>4, <2>5, Throwing
<1>5. CASE ~failed
  <2> DEFINE fr == [b EXCEPT !.ip = @ + 1]
  <2>1. end = Contract!Effect(<<>>, "none", "void")
    BY <1>5 DEF Contract!MEnd, Contract!Quiet
  <2>2. Comes(Top, "none", Now, emit) = Now
    <3>1. Contract!Then(p, end) = p
      <4>1. Contract!Then(p, Contract!Effect(<<>>, "none", "void")) = Contract!Effect(p.events, "none", "void")
        <5> HIDE DEF p
        <5> QED BY <1>3, ThenEnds DEF Exceptions
      <4> QED BY <1>3, <2>1, <4>1
    <3> QED BY <1>3, <3>1
  <2>3. /\ Len(stack) >= 2 /\ Len(stack) \in Nat /\ stack # <<>> /\ stack \in Seq(Frames)
        /\ Top = stack[Len(stack)] /\ Fits(b, Top) /\ stack[1].f = "call"
    BY <1>1, OnTop, InCall
  <2>4. /\ Rest = Below(stack) /\ Rest \in Seq(Frames) /\ Len(Rest) = Len(stack) - 1
        /\ \A k \in 1 .. Len(stack) - 1 : Rest[k] = stack[k]
    BY <2>3, Pop DEF Rest, Below
  <2>5. Rest[Len(Rest)] = b /\ Len(Rest) > 0
    BY <2>3, <2>4
  <2>6. /\ stack' = (IF b.f = "eval" THEN Replaced(Rest, fr) ELSE Rest)
        /\ result' = [consumed |-> Len(src.forms), incomplete |-> src.tail = "open"]
        /\ UNCHANGED <<active, emit, depth, exc, value, events, history>>
    BY <1>3, <1>5, <2>5 DEF FinishRun, Advanced
  <2>7. CASE Len(stack) = 2
    <3>1. b = stack[1] /\ b.f = "call"
      BY <2>3, <2>7
    <3>2. stack' = Rest /\ Len(stack') = 1 /\ stack'[1] = stack[1] /\ Top' = b
      <4>1. stack' = Rest
        BY <2>6, <3>1
      <4>2. Len(Rest) = 1 /\ 1 \in 1 .. Len(stack) - 1
        BY <2>4, <2>7
      <4> QED BY <2>4, <3>1, <4>1, <4>2 DEF Top
    <3>3. Now' = Now
      BY <1>1, <1>3, <2>6, <3>1, <3>2 DEF Now, Held
    <3>4. result' = Returned(stack[1])
      <4>1. Shape(stack)
        BY DEF Promised
      <4>2. src = stack[1].source
        BY <2>3, <2>7, <4>1 DEF Shape
      <4> QED BY <2>6, <4>2 DEF Returned
    <3>5. Len(stack') = Len(stack) - 1 /\ \A k \in 1 .. Len(stack) - 2 : stack'[k] = stack[k]
      BY <2>7, <3>2
    <3>6. Comes(Top, "none", Now, emit) = Now'
      BY <2>2, <3>3
    <3> QED BY <2>3, <2>6, <2>7, <3>2, <3>4, <3>5, <3>6, Popping
  <2>8. CASE Len(stack) > 2
    <3>1. b.f = "eval" /\ b.role = "form" /\ b \in EvalFrames
      <4>1. b \in Frames /\ b.f \in {"run", "emit", "eval"}
        BY <2>8, BelowTop
      <4>2. b.f = "eval" /\ b.role = "form"
        BY <1>1, <2>3, <4>1 DEF Fits
      <4> QED BY <4>1, <4>2, Tags
    <3>2. /\ fr \in Frames /\ fr.f = "eval" /\ fr.role = "form" /\ fr.form = b.form
          /\ fr.ip = b.ip + 1 /\ b.ip \in Nat
      BY <3>1, MovedEval DEF EvalFrames
    <3> HIDE DEF fr, b
    <3>3. stack' = Replaced(Rest, fr) /\ Rest # <<>>
      BY <2>5, <2>6, <3>1
    <3>4. /\ Len(stack') = Len(stack) - 1 /\ stack'[Len(stack) - 1] = fr
          /\ \A k \in 1 .. Len(stack) - 2 : stack'[k] = stack[k]
      <4>1. /\ Len(stack') = Len(Rest) /\ stack'[Len(Rest)] = fr
            /\ \A k \in 1 .. Len(Rest) - 1 : stack'[k] = Rest[k]
        <5> DEFINE r == Rest
        <5>1. r \in Seq(Frames) /\ r # <<>> /\ fr.f = r[Len(r)].f /\ stack' = Replaced(r, fr)
          BY <2>4, <2>5, <3>1, <3>2, <3>3
        <5> HIDE DEF r
        <5>2. /\ Len(stack') = Len(r) /\ stack'[Len(r)] = fr
              /\ \A k \in 1 .. Len(r) - 1 : stack'[k] = r[k]
          BY <3>2, <5>1, Replace
        <5> QED BY <5>2 DEF r
      <4>2. \A k \in 1 .. Len(stack) - 2 : k \in 1 .. Len(Rest) - 1 /\ k \in 1 .. Len(stack) - 1
        BY <2>3, <2>4
      <4> QED BY <2>4, <4>1, <4>2
    <3>5. Top' = fr
      BY <3>4 DEF Top
    <3>6. Now' = Now
      BY <1>1, <1>3, <2>6, <3>2, <3>5 DEF Now, Held
    <3>7. Comes(fr, "none", Now', emit) = Comes(b, "run", Now', emit)
      <4>1. fr.ip + 1 = b.ip + 2
        BY <3>2
      <4>2. RestOfForm(fr, fr.ip + 1, Now', emit) = RestOfForm(b, b.ip + 2, Now', emit)
        BY <3>2, <4>1 DEF RestOfForm
      <4> QED BY <3>1, <3>2, <4>2, ComesOf
    <3>8. Like(fr, b) /\ Within(fr)
      BY <3>1, <3>2 DEF Like, Within
    <3>9. Comes(Top, "none", Now, emit) = Now'
      BY <2>2, <3>6
    <3>10. /\ Like(stack'[Len(stack) - 1], stack[Len(stack) - 1])
           /\ Within(stack'[Len(stack) - 1])
           /\ Comes(stack'[Len(stack) - 1], "none", Now', emit)
                = Comes(stack[Len(stack) - 1], Top.f, Now', emit)
      BY <1>1, <3>4, <3>7, <3>8 DEF b
    <3>11. Len(stack) # 2
      BY <2>3, <2>8
    <3> QED BY <2>3, <2>6, <3>4, <3>9, <3>10, <3>11, Popping
  <2>9. Len(stack) = 2 \/ Len(stack) > 2
    <3>1. \A m \in Nat : m >= 2 => m = 2 \/ m > 2
      OBVIOUS
    <3> QED BY <2>3, <3>1, Zenon
  <2> QED BY <2>7, <2>8, <2>9
<1> QED BY <1>4, <1>5

\* The value of a form is handed to the callback, or dropped.
LEMMA EchoKeeps ==
  ASSUME IInv, Promised, active, Echo PROVE Promised'
<1> DEFINE p == Contract!Effect(events, "none", value)
           n == Left(Now)
           L == Contract!Loads(emit)
           echo == Contract!Echoed(value, n, emit)
           later == Contract!MRun(Top.source, Top.pos + 2, Top.strict, n, emit, L)
           fr == [Top EXCEPT !.at = "loop", !.pos = @ + 1]
           new == EmitFrame("result")
           s == Replaced(stack, fr)
           told == depth = 0 /\ value # "void"
<1>1. exc = "none" /\ Top.f = "run" /\ Top.at = "echo"
  BY DEF Echo, Going
<1>2. /\ Top \in RunFrames /\ Top.pos \in Nat /\ Len(Top.source.forms) \in Nat
      /\ Top.pos < Len(Top.source.forms)
  BY <1>1, RunOnTop
<1>3. /\ Now = Said(p, depth) /\ Now.eff = p /\ Now.depth = depth /\ p \in Effects
      /\ p.exc = "none" /\ p.events = events /\ p.value = value
      /\ n = MaxDepth - depth /\ depth \in Nat /\ value \in {"void", "some"}
      /\ events \in Seq(Kinds)
  <2>1. Held = value
    BY <1>1 DEF Held
  <2>2. depth \in Nat /\ value \in {"void", "some"} /\ events \in Seq(Kinds)
    BY DEF IInv, Balanced, Kinds
  <2> QED BY <1>1, <2>1, <2>2, NowIs
<1>4. Comes(Top, "none", Now, emit) =
        Said(Contract!Then(Contract!Then(p, echo), later), depth)
  <2>1. RestOfRun(Top, Now, emit) = Contract!Then(Contract!Then(p, echo), later)
    BY <1>1, <1>3 DEF RestOfRun
  <2> QED BY <1>1, <1>3, <2>1, ComesOf
<1>5. /\ fr \in Frames /\ fr.f = "run" /\ fr.at = "loop" /\ fr.pos = Top.pos + 1
      /\ fr.source = Top.source /\ fr.strict = Top.strict
  BY <1>2, MovedRun DEF RunFrames
<1>6. /\ Len(stack) >= 2 /\ Len(stack) \in Nat /\ stack # <<>> /\ stack \in Seq(Frames)
      /\ Top = stack[Len(stack)] /\ emit # NoOp
  BY <1>1, OnTop, InCall
<1>7. Like(fr, Top) /\ Within(fr)
  BY <1>1, <1>2, <1>5 DEF Like, Within
<1>8. told <=> n = MaxDepth /\ value = "some"
  BY <1>3
\* What the run will come to, however it came here.
<1>9. ASSUME NEW eff, NEW above
      PROVE  Comes(fr, above, Said(eff, depth), emit) = Said(Contract!Then(eff, later), depth)
  <2> DEFINE q == Said(eff, depth)
  <2>1. q.eff = eff /\ q.depth = depth /\ Left(q) = n
    BY <1>3 DEF Said, Left
  <2> HIDE DEF q
  <2>2. fr.pos + 1 = Top.pos + 2
    BY <1>2, <1>5
  <2>3. RestOfRun(fr, q, emit) = Contract!Then(eff, later)
    BY <1>5, <2>1, <2>2 DEF RestOfRun
  <2>4. Comes(fr, above, q, emit) = Said(RestOfRun(fr, q, emit), depth)
    <3> HIDE DEF fr
    <3> QED BY <1>5, <2>1, ComesOf
  <2> QED BY <2>3, <2>4 DEF q
<1>10. s \in Seq(Frames) /\ Len(s) = Len(stack) /\ s[Len(stack)] = fr
       /\ \A k \in 1 .. Len(stack) - 1 : s[k] = stack[k]
  <2> HIDE DEF fr
  <2> QED BY <1>1, <1>5, <1>6, Replace
<1>11. CASE told
  <2> DEFINE said == Append(events, "result")
             come == Contract!Effect(said, Surprise(new, emit), "void")
  <2>1. /\ stack' = Append(s, new) /\ events' = said
        /\ UNCHANGED <<active, emit, depth, exc, value, result, history>>
    BY <1>6, <1>11 DEF Echo, Deliver, WithTop
  <2>2. new \in Frames /\ new.f = "emit" /\ new.event = "result"
    BY NewFrames
  <2>3. /\ Contract!Then(p, Contract!Event("result", emit)) = come
        /\ Comes(new, "none", Said(Contract!Effect(said, "none", "void"), depth), emit)
             = Said(come, depth)
    <3>1. "result" \in Kinds
      BY DEF Kinds
    <3> QED BY <1>3, <3>1, EventComes
  <2>4. echo = Contract!Event("result", emit)
    BY <1>8, <1>11 DEF Contract!Echoed
  <2> HIDE DEF fr, new, s, come, told
  <2>5. /\ Len(stack') = Len(stack) + 1 /\ stack'[Len(stack)] = fr /\ stack'[Len(stack) + 1] = new
        /\ \A k \in 1 .. Len(stack) - 1 : stack'[k] = stack[k]
    <3>1. /\ Len(stack') = Len(s) + 1 /\ stack'[Len(s) + 1] = new
          /\ \A k \in 1 .. Len(s) : stack'[k] = s[k]
      BY <1>10, <2>1, <2>2, Push
    <3>2. /\ Len(stack) \in 1 .. Len(s)
          /\ \A k \in 1 .. Len(stack) - 1 : k \in 1 .. Len(s)
      BY <1>6, <1>10
    <3> QED BY <1>10, <3>1, <3>2
  <2>6. Top' = new
    BY <1>6, <2>5 DEF Top
  <2>7. Now' = Said(Contract!Effect(said, "none", "void"), depth)
    BY <1>1, <2>1, <2>2, <2>6 DEF Now, Held
  <2>8. Comes(fr, "emit", Said(come, depth), emit) = Comes(Top, "none", Now, emit)
    BY <1>4, <1>9, <2>3, <2>4
  <2>9. Fits(fr, new) /\ Within(new)
    BY <1>5, <2>2 DEF Fits, Within
  <2>10. Comes(stack'[Len(stack)], stack'[Len(stack) + 1].f,
               Comes(stack'[Len(stack) + 1], "none", Now', emit), emit)
           = Comes(Top, "none", Now, emit)
    BY <2>2, <2>3, <2>5, <2>7, <2>8
  <2> QED BY <1>6, <1>7, <2>1, <2>5, <2>9, <2>10, Pushing
<1>12. CASE ~told
  <2> DEFINE eff == Contract!Effect(events, "none", "void")
  <2>1. /\ stack' = s
        /\ UNCHANGED <<active, emit, depth, exc, value, result, events, history>>
    BY <1>12 DEF Echo, WithTop
  <2>2. echo = Contract!Effect(<<>>, "none", "void")
    BY <1>8, <1>12 DEF Contract!Echoed, Contract!Quiet
  <2> HIDE DEF fr, s, told
  <2>3. Contract!Then(p, echo) = eff
    <3> HIDE DEF p, echo
    <3> QED BY <1>3, <2>2, ThenEnds DEF Exceptions
  <2>4. Top' = fr
    BY <1>10, <2>1 DEF Top
  <2>5. Now' = Said(eff, depth)
    BY <1>1, <1>5, <2>1, <2>4 DEF Now, Held
  <2>6. Comes(fr, "none", Now', emit) = Comes(Top, "none", Now, emit)
    BY <1>4, <1>9, <2>3, <2>5
  <2> QED BY <1>6, <1>7, <1>10, <2>1, <2>6, Moving
<1> QED BY <1>11, <1>12

\* The body of a guard is evaluated a level further down, if there is one.
LEMMA EnterBodyKeeps ==
  ASSUME IInv, Promised, active, EnterBody PROVE Promised'
<1> DEFINE p == Contract!Effect(events, "none", "void")
           n == Left(Now)
           L == Contract!Loads(emit)
           form == Top.form
           body == Contract!MBody(form, n, emit, L)
           new == EvalFrame(form, "form")
<1>1. exc = "none" /\ Top.f = "eval" /\ Top.role = "guard" /\ Top.ip = 0
  BY DEF EnterBody, Going
<1>2. Top \in EvalFrames /\ form \in Form
  <2>1. Top \in EvalFrames
    BY <1>1, OnTop, Tags
  <2> QED BY <2>1 DEF EvalFrames
<1>3. /\ Now = Said(p, depth) /\ Now.eff = p /\ Now.depth = depth /\ p \in Effects
      /\ p.exc = "none" /\ p.events = events
      /\ n = MaxDepth - depth /\ n \in 0 .. MaxDepth /\ depth \in Nat
  <2>1. Held = "void"
    BY <1>1 DEF Held
  <2>2. depth \in Nat
    BY DEF IInv, Balanced
  <2> QED BY <1>1, <2>1, <2>2, NowIs
<1>4. Comes(Top, "none", Now, emit) =
        Said(Contract!Guarded(form, Contract!Then(p, body)), depth - 1)
  <2>1. RestOfGuard(Top, "none", Now, emit) = Contract!Guarded(form, Contract!Then(p, body))
    BY <1>1, <1>3 DEF RestOfGuard
  <2> QED BY <1>1, <1>3, <2>1, ComesOf
<1>5. CASE depth >= MaxDepth
  <2> DEFINE thrown == Contract!Effect(events, "scheme", "void")
             q == Said(thrown, depth)
  <2>1. n = 0
    BY <1>3, <1>5
  <2>2. body = Contract!Effect(<<>>, "scheme", "void")
    BY <2>1, NoneLeft DEF Contract!Failure
  <2>3. Contract!Then(p, body) = thrown
    <3> HIDE DEF p, body
    <3> QED BY <1>3, <2>2, ThenEnds DEF Exceptions
  <2>4. q.eff = thrown /\ q.depth = depth /\ thrown.exc # "none" /\ q = Said(thrown, depth)
    BY DEF Said, Contract!Effect
  <2> HIDE DEF q
  <2>5. Comes(Top, "none", q, emit) = Said(Contract!Guarded(form, thrown), depth - 1)
    <3> HIDE DEF thrown
    <3> QED BY <1>1, <2>4, ThrownPasses
  <2>6. Throw("scheme")
    BY <1>5 DEF EnterBody
  <2> QED BY <1>1, <1>4, <2>3, <2>4, <2>5, <2>6, Throwing
<1>6. CASE ~(depth >= MaxDepth)
  <2> DEFINE q == Said(Contract!Then(p, body), depth)
  <2>1. depth < MaxDepth
    BY <1>3, <1>6
  <2>2. /\ stack' = Append(stack, new) /\ depth' = depth + 1
        /\ UNCHANGED <<active, emit, exc, value, result, events, history>>
    BY <1>6 DEF EnterBody
  <2>3. new \in Frames /\ new.f = "eval" /\ new.role = "form"
    BY <1>2, NewFrames DEF EvalFrame
  <2>4. /\ Len(stack) >= 2 /\ Len(stack) \in Nat /\ stack # <<>> /\ stack \in Seq(Frames)
        /\ Top = stack[Len(stack)] /\ Within(Top)
    BY <1>1, OnTop, InCall
  <2>5. Comes(new, "none", Said(p, depth + 1), emit) = q
    <3> HIDE DEF p, form
    <3> QED BY <1>2, <1>3, <2>1, BodyComes
  <2> HIDE DEF new
  <2>6. /\ Len(stack') = Len(stack) + 1 /\ \A k \in 1 .. Len(stack) : stack'[k] = stack[k]
        /\ stack'[Len(stack) + 1] = new
    BY <2>2, <2>3, <2>4, Push
  <2>7. Top' = new
    BY <2>4, <2>6 DEF Top
  <2>8. Now' = Said(p, depth + 1)
    BY <1>1, <2>2, <2>3, <2>7 DEF Now, Held
  <2>9. Comes(Top, "eval", q, emit) = Comes(Top, "none", Now, emit)
    <3>1. q.eff = Contract!Then(p, body) /\ q.depth = depth
      BY DEF Said
    <3> HIDE DEF q, p, body
    <3>2. RestOfGuard(Top, "eval", q, emit) = Contract!Guarded(form, Contract!Then(p, body))
      BY <3>1 DEF RestOfGuard
    <3>3. Comes(Top, "eval", q, emit) = Said(RestOfGuard(Top, "eval", q, emit), depth - 1)
      BY <1>1, <3>1, ComesOf
    <3> QED BY <1>4, <3>2, <3>3
  <2>10. Fits(Top, new) /\ Within(new)
    BY <1>1, <2>3 DEF Fits, Within
  <2> HIDE DEF q
  <2>11. stack'[Len(stack)] = Top /\ \A k \in 1 .. Len(stack) - 1 : stack'[k] = stack[k]
    BY <2>4, <2>6
  <2>12. Comes(stack'[Len(stack)], stack'[Len(stack) + 1].f,
               Comes(stack'[Len(stack) + 1], "none", Now', emit), emit)
           = Comes(Top, "none", Now, emit)
    BY <2>3, <2>5, <2>6, <2>8, <2>9, <2>11
  <2> QED BY <2>2, <2>4, <2>6, <2>10, <2>11, <2>12, LikeItself, Pushing
<1> QED BY <1>5, <1>6

\* A value is returned: to the run that evaluates the form, or to the guard.
LEMMA ReturnKeeps ==
  ASSUME IInv, Promised, active, Return PROVE Promised'
<1> DEFINE b == stack[Len(stack) - 1]
           fr == IF b.f = "run" THEN [b EXCEPT !.at = "echo"] ELSE [b EXCEPT !.ip = 1]
           p == Contract!Effect(events, "none", value')
<1>1. /\ exc = "none" /\ Top.f = "eval"
      /\ \/ Top.role = "form" /\ Top.ip = Len(Top.form.ops) /\ value' = Top.form.value
         \/ Top.role = "guard" /\ Top.ip = 1 /\ UNCHANGED value
      /\ depth' = depth - 1
      /\ UNCHANGED <<active, emit, exc, result, events, history>>
  BY DEF Return, Going
<1>2. /\ Len(stack) >= 2 /\ Len(stack) \in Nat /\ stack # <<>> /\ stack \in Seq(Frames)
      /\ Top = stack[Len(stack)] /\ Fits(b, Top) /\ Top \in EvalFrames /\ stack[1].f = "call"
  BY <1>1, OnTop, InCall, Tags
<1>3. /\ Rest = Below(stack) /\ Rest \in Seq(Frames) /\ Len(Rest) = Len(stack) - 1
      /\ \A k \in 1 .. Len(stack) - 1 : Rest[k] = stack[k]
  BY <1>2, Pop DEF Rest, Below
<1>4. \/ b.f = "run" /\ b.at = "eval"
      \/ Top.role = "form" /\ b.f = "eval" /\ b.role = "guard" /\ b.ip = 0
  BY <1>1, <1>2 DEF Fits
<1>5. Len(stack) > 2
  <2>1. ASSUME Len(stack) = 2 PROVE FALSE
    <3>1. b = stack[1]
      BY <2>1
    <3> QED BY <1>2, <1>4, <3>1
  <2>2. \A m \in Nat : m >= 2 /\ m # 2 => m > 2
    OBVIOUS
  <2> QED BY <1>2, <2>1, <2>2, Zenon
<1>6. Rest[Len(Rest)] = b /\ Rest # <<>>
  BY <1>2, <1>3, <1>5
<1>7. stack' = Replaced(Rest, fr)
  BY <1>6 DEF Return
<1>8. b \in Frames /\ Within(b)
  BY <1>5, BelowTop
<1>9. /\ fr \in Frames /\ fr.f = b.f
      /\ b.f = "run" => /\ b \in RunFrames /\ fr.at = "echo" /\ fr.source = b.source
                        /\ fr.pos = b.pos /\ fr.strict = b.strict
      /\ b.f = "eval" => fr.role = b.role /\ fr.ip = 1 /\ fr.form = b.form
  <2>1. CASE b.f = "run"
    <3>1. b \in RunFrames
      BY <1>8, <2>1, Tags
    <3> HIDE DEF b
    <3> QED BY <2>1, <3>1, MovedRun DEF RunFrames
  <2>2. CASE b.f = "eval"
    <3>1. b \in EvalFrames
      BY <1>8, <2>2, Tags
    <3> HIDE DEF b
    <3> QED BY <2>2, <3>1, MovedEval DEF EvalFrames
  <2> QED BY <1>4, <2>1, <2>2
<1> HIDE DEF fr, b
<1>10. /\ Len(stack') = Len(stack) - 1 /\ stack'[Len(stack) - 1] = fr
       /\ \A k \in 1 .. Len(stack) - 2 : stack'[k] = stack[k]
  <2> DEFINE r == Rest
  <2>1. r \in Seq(Frames) /\ r # <<>> /\ fr.f = r[Len(r)].f /\ stack' = Replaced(r, fr)
    BY <1>3, <1>6, <1>7, <1>9
  <2> HIDE DEF r
  <2>2. /\ Len(stack') = Len(r) /\ stack'[Len(r)] = fr
        /\ \A k \in 1 .. Len(r) - 1 : stack'[k] = r[k]
    BY <1>9, <2>1, Replace
  <2>3. \A k \in 1 .. Len(stack) - 2 : k \in 1 .. Len(Rest) - 1 /\ k \in 1 .. Len(stack) - 1
    BY <1>2, <1>3
  <2> QED BY <1>3, <2>2, <2>3 DEF r
<1>11. Top' = fr
  BY <1>10 DEF Top
<1>12. Now' = Said(p, depth - 1) /\ Now'.eff = p /\ Now'.depth = depth - 1
  <2>1. Held' = value'
    BY <1>1, <1>4, <1>9, <1>11 DEF Held
  <2> QED BY <1>1, <2>1 DEF Now, Said
\* The evaluation is over: nothing is left of it.
<1>13. Comes(Top, "none", Now, emit) = Now'
  <2>1. CASE Top.role = "form"
    <3> DEFINE n == Left(Now)
               L == Contract!Loads(emit)
               ops == Top.form.ops
               val == Contract!Effect(<<>>, "none", Top.form.value)
               eff == Contract!Effect(events, "none", "void")
    <3>1. /\ Top.ip = Len(ops) /\ value' = Top.form.value
          /\ ops \in Seq(Op) /\ Top.form.value \in {"void", "some"}
      BY <1>1, <1>2, <2>1 DEF EvalFrames, Form
    <3>2. Held = "void"
      BY <1>1, <2>1 DEF Held
    <3>3. /\ Now.eff = eff /\ Now.depth = depth /\ eff \in Effects
          /\ eff.exc = "none" /\ eff.events = events /\ n \in Nat
      BY <1>1, <3>2, NowIs
    <3>4. RestOfForm(Top, Top.ip + 1, Now, emit) =
            Contract!Then(Contract!Then(eff, Contract!MOps(ops, Top.ip + 1, n, emit, L)), val)
      BY <3>3 DEF RestOfForm
    <3> HIDE DEF n, L, ops
    <3>5. Contract!MOps(ops, Top.ip + 1, n, emit, L) = Contract!Effect(<<>>, "none", "void")
      <4>1. Contract!MOps(ops, Len(ops) + 1, n, emit, L) = Contract!Quiet
        BY <3>1, <3>3, OpsLaw
      <4> QED BY <3>1, <4>1 DEF Contract!Quiet
    <3> HIDE DEF eff
    <3>6. Contract!Then(eff, Contract!Effect(<<>>, "none", "void")) = Contract!Effect(events, "none", "void")
      BY <3>3, ThenEnds DEF Exceptions
    <3>7. Contract!Then(eff, val) = p
      BY <3>1, <3>3, ThenEnds DEF Exceptions
    <3>8. Comes(Top, "none", Now, emit) = Said(RestOfForm(Top, Top.ip + 1, Now, emit), depth - 1)
      BY <1>1, <2>1, <3>3, ComesOf
    <3>9. Contract!Effect(events, "none", "void") = eff
      BY DEF eff
    <3> HIDE DEF val, p
    <3> QED BY <1>12, <3>4, <3>5, <3>6, <3>7, <3>8, <3>9
  <2>2. CASE Top.role = "guard"
    <3>1. Top.ip = 1 /\ value' = value
      BY <1>1, <2>2
    <3>2. Held = value
      BY <1>1, <2>2, <3>1 DEF Held
    <3>3. Now.eff = p /\ Now.depth = depth /\ p.exc = "none"
      BY <1>1, <3>1, <3>2, NowIs
    <3> HIDE DEF p
    <3>4. RestOfGuard(Top, "none", Now, emit) = p
      BY <3>1, <3>3 DEF RestOfGuard, Contract!Guarded
    <3> QED BY <1>1, <1>12, <2>2, <3>3, <3>4, ComesOf
  <2> QED BY <1>1, <2>1, <2>2
<1>14. Comes(fr, "none", Now', emit) = Comes(b, Top.f, Now', emit)
  <2>1. CASE b.f = "run"
    <3>1. RestOfRun(fr, Now', emit) = RestOfRun(b, Now', emit)
      BY <1>4, <1>9, <2>1 DEF RestOfRun
    <3> QED BY <1>9, <2>1, <3>1, ComesOf
  <2>2. CASE b.f = "eval"
    <3>1. b.role = "guard" /\ b.ip = 0
      BY <1>4, <2>2
    <3>2. RestOfGuard(fr, "none", Now', emit) = RestOfGuard(b, "eval", Now', emit)
      BY <1>9, <2>2, <3>1 DEF RestOfGuard
    <3> QED BY <1>1, <1>9, <2>2, <3>1, <3>2, ComesOf
  <2> QED BY <1>4, <2>1, <2>2
<1>15. Like(fr, b) /\ Within(fr)
  BY <1>4, <1>8, <1>9 DEF Like, Within
<1>16. /\ Like(stack'[Len(stack) - 1], stack[Len(stack) - 1])
       /\ Within(stack'[Len(stack) - 1])
       /\ Comes(stack'[Len(stack) - 1], "none", Now', emit)
            = Comes(stack[Len(stack) - 1], Top.f, Now', emit)
  BY <1>10, <1>14, <1>15 DEF b
<1>17. Len(stack) # 2
  BY <1>2, <1>5
<1> QED BY <1>1, <1>2, <1>10, <1>13, <1>16, <1>17, Popping

-----------------------------------------------------------------------------
\* A call begins with everything it means still to come.
LEMMA HostCallKeeps ==
  ASSUME IInv, NEW op \in {"run", "execute"}, NEW src \in Sources,
         NEW e \in Emitters, HostCall(op, src, e)
  PROVE  Promised'
<1> DEFINE call == CallFrame(op, src, e)
           strict == op = "execute"
           run == RunFrame(src, strict)
           quiet == Contract!Effect(<<>>, "none", "void")
           L == Contract!Loads(e)
           meant == Contract!MRun(src, 1, strict, MaxDepth, e, L)
<1>1. stack = <<>> /\ exc = "none" /\ depth = 0
  <2>1. ~active
    BY DEF HostCall
  <2>2. stack = <<>>
    <3> SUFFICES ASSUME stack # <<>> PROVE FALSE
      OBVIOUS
    <3>1. Top.f = "emit"
      BY DEF HostCall, Going
    <3>2. Len(stack) \in DOMAIN stack
      BY TopFrame
    <3>3. WellPlaced(stack, Len(stack), active)
      BY <3>2 DEF IInv, Balanced
    <3> QED BY <2>1, <3>1, <3>3 DEF WellPlaced, Top
  <2>3. FramesOf(stack, "eval") = {}
    BY <2>2 DEF FramesOf
  <2> QED BY <2>2, <2>3, FS_EmptySet DEF IInv, Balanced, HostCall, Going
<1>2. /\ call.f = "call" /\ call.op = op /\ call.source = src /\ call.emitter = e
      /\ run.f = "run" /\ run.at = "loop" /\ run.pos = 0 /\ run.source = src
      /\ run.strict = strict
  BY DEF CallFrame, RunFrame
<1>3. /\ active' /\ emit' = e /\ events' = <<>> /\ stack' = Append(Append(stack, call), run)
      /\ Len(history) < MaxCalls
      /\ UNCHANGED <<depth, exc, value, result, history>>
  BY DEF HostCall
<1>4. src \in Source /\ 1 \in 1 .. Len(src.forms) + 1
  <2>1. src \in Source
    OBVIOUS
  <2>2. src.forms \in Seq(Form)
    BY <2>1 DEF Source
  <2> QED BY <2>1, <2>2
<1> HIDE DEF call, run, strict
<1>5. Len(stack') = 2 /\ stack'[1] = call /\ stack'[2] = run
  BY <1>1, <1>3
<1>6. Now' = Said(quiet, 0) /\ Now'.eff = quiet /\ Now'.depth = 0 /\ Left(Now') = MaxDepth
  <2>1. Top' = run
    BY <1>5 DEF Top
  <2>2. Now' = Said(quiet, 0)
    BY <1>1, <1>2, <1>3, <2>1 DEF Now, Held
  <2>3. MaxDepth - 0 = MaxDepth
    OBVIOUS
  <2> QED BY <2>2, <2>3 DEF Said, Left
<1> HIDE DEF quiet, L
<1>7. meant \in Effects
  <2>1. Loaded(L, MaxDepth - 1)
    BY LoadsType DEF Loaded, L
  <2> QED BY <1>4, <2>1, RunType
<1>8. Contract!Then(quiet, meant) = meant
  <2> HIDE DEF meant
  <2> QED BY <1>7, ThenQuiet DEF quiet
<1>9. RestOfRun(run, Now', e) = meant
  <2>1. RestOfRun(run, Now', e) = Contract!Then(quiet, Contract!MRun(src, 0 + 1, strict, MaxDepth, e, L))
    BY <1>2, <1>6 DEF RestOfRun, L
  <2> QED BY <1>8, <2>1
<1>10. Meant(stack'[1]) = meant
  BY <1>2, <1>5 DEF Meant, strict, L
<1> HIDE DEF meant
<1>11. Promise(stack', Now', e, meant)
  <2> DEFINE s == stack'
             p == Now'
             A == [k \in 2 .. 3 |-> IF k = 3 THEN p ELSE Comes(run, "none", p, e)]
  <2>1. A[3] = p /\ A[2] = Comes(run, "none", p, e)
    OBVIOUS
  <2>2. Comes(run, "none", p, e) = Said(meant, 0)
    BY <1>2, <1>6, <1>9, ComesOf
  <2>3. Len(s) = 2 /\ s[2] = run
    BY <1>5
  <2>4. Above(s, 2) = "none"
    BY <2>3 DEF Above
  <2> HIDE DEF A, s, p
  <2>5. Foretold(s, A, p, e)
    BY <2>1, <2>3, <2>4 DEF Foretold
  <2>6. A[2].eff = meant
    BY <2>1, <2>2 DEF Said
  <2> QED BY <2>5, <2>6 DEF Promise, s, p
<1>12. Shape(stack')
  <2>1. Fits(call, run) /\ Within(run)
    <3>1. 0 <= Len(src.forms)
      BY <1>4 DEF Source
    <3> QED BY <1>2, <3>1 DEF Fits, Within
  <2>2. ASSUME NEW i \in 2 .. 2 PROVE Fits(stack'[i - 1], stack'[i]) /\ Within(stack'[i])
    BY <1>5, <2>1
  <2> QED BY <1>2, <1>5, <2>2 DEF Shape
<1>13. stack'[1].source \in Sources
  BY <1>2, <1>5
<1> QED BY <1>3, <1>5, <1>10, <1>11, <1>12, <1>13 DEF Promised

\* The call in progress keeps its promise, whatever step is taken.
LEMMA PromisedStep == IInv /\ Promised /\ [Next]_vars => Promised'
<1> SUFFICES ASSUME IInv, Promised, [Next]_vars PROVE Promised'
  OBVIOUS
<1>1. CASE Host
  BY <1>1, HostCallKeeps DEF Host
<1>2. CASE Escape \/ FinishCall
  BY <1>2 DEF Escape, FinishCall, Leave, Promised
<1>3. CASE ~active /\ ~Host /\ ~(Escape \/ FinishCall)
  <2>1. active' = active
    BY <1>3 DEF Next, Step, Callback, vars, StartForm, FinishRun, Echo, EnterBody, Display,
                Load, Raise, Exit, Return, Handle, Unwind, Throw, Refuse, CallbackReturn,
                CallbackThrow
  <2> QED BY <1>3, <2>1 DEF Promised
<1>4. CASE active /\ UNCHANGED vars
  <2>1. UNCHANGED <<active, stack, history, emit, result, exc>> /\ Now' = Now
    BY <1>4 DEF vars, Now, Held, Top
  <2> QED BY <2>1 DEF Promised
<1>5. CASE active /\ ~UNCHANGED vars /\ ~Host /\ ~(Escape \/ FinishCall)
  BY <1>5, StartFormKeeps, FinishRunKeeps, EchoKeeps, EnterBodyKeeps, DisplayKeeps, LoadKeeps,
     RaiseKeeps, ExitKeeps, ReturnKeeps, HandleKeeps, UnwindKeeps, RefuseKeeps,
     CallbackReturnKeeps, CallbackThrowKeeps DEF Next, Step, Callback
<1> QED BY <1>1, <1>2, <1>3, <1>4, <1>5

\* What a call came to when it is left is what the contract says of it.
LEMMA LeaveMeets ==
  ASSUME IInv, Promised, stack # <<>>, Top.f = "call", Leave(exc)
  PROVE  Contract!Next
<1> DEFINE m == Meant(Top)
<1>1. /\ stack \in Seq(Frames) /\ Len(stack) \in Nat \ {0} /\ DOMAIN stack = 1 .. Len(stack)
      /\ Top = stack[Len(stack)] /\ Top \in CallFrames
  BY TopFrame DEF Top
<1>2. Len(stack) = 1 /\ Top = stack[1]
  <2>1. WellPlaced(stack, Len(stack), active)
    BY <1>1 DEF IInv, Balanced
  <2> QED BY <1>1, <2>1 DEF WellPlaced
<1>3. active /\ emit = Top.emitter
  <2>1. 1 \in FramesOf(stack, "call")
    BY <1>1, <1>2 DEF FramesOf
  <2> QED BY <1>2, <2>1 DEF IInv, Balanced
<1>4. /\ Len(history) < MaxCalls /\ Top.source \in Sources
      /\ Promise(stack, Now, emit, m)
      /\ exc = "none" /\ Top.op = "run" => result = Returned(Top)
  BY <1>2, <1>3 DEF Promised
<1> HIDE DEF m
<1>5. Contract!Effect(events, exc, Held) = m
  <2>1. PICK A : Foretold(stack, A, Now, emit) /\ A[2].eff = m
    BY <1>4 DEF Promise
  <2>2. A[2] = Now
    BY <1>2, <2>1 DEF Foretold
  <2> QED BY <2>1, <2>2 DEF Now, Said
<1>6. m.events = events /\ m.exc = exc
  BY <1>5 DEF Contract!Effect
<1>7. Top.op \in {"run", "execute"} /\ Top.emitter \in Emitters
  BY <1>1 DEF CallFrames
<1>8. history' = Append(history, Contract!Outcome(Top.op, Top.source, Top.emitter))
  <2> DEFINE r == IF exc = "none" /\ Top.op = "run" THEN result ELSE Nothing
             r2 == IF m.exc = "none" /\ Top.op = "run"
                   THEN [consumed |-> Len(Top.source.forms), incomplete |-> Top.source.tail = "open"]
                   ELSE [consumed |-> 0, incomplete |-> FALSE]
  <2>1. r = r2
    BY <1>4, <1>6 DEF Returned, Nothing
  <2>2. history' = Append(history, [op |-> Top.op, source |-> Top.source,
                                    emitter |-> Top.emitter, events |-> events,
                                    thrown |-> exc, result |-> r])
    BY DEF Leave
  <2>3. Contract!Outcome(Top.op, Top.source, Top.emitter) =
          [op |-> Top.op, source |-> Top.source, emitter |-> Top.emitter,
           events |-> m.events, thrown |-> m.exc, result |-> r2]
    BY DEF Contract!Outcome, m, Meant
  <2> HIDE DEF r, r2
  <2> QED BY <1>6, <2>1, <2>2, <2>3
<1> QED BY <1>4, <1>7, <1>8 DEF Contract!Next

LEMMA ContractStep == IInv /\ Promised /\ [Next]_vars => [Contract!Next]_history
<1> SUFFICES ASSUME IInv, Promised, [Next]_vars PROVE [Contract!Next]_history
  OBVIOUS
<1>1. CASE Escape \/ FinishCall
  <2>1. stack # <<>> /\ Top.f = "call" /\ Leave(exc)
    BY <1>1 DEF Escape, FinishCall, Going
  <2> QED BY <2>1, LeaveMeets
<1>2. CASE ~(Escape \/ FinishCall)
  <2>1. history' = history
    BY <1>2 DEF Next, Step, Callback, Host, vars, StartForm, FinishRun, Echo, EnterBody, Display,
                Load, Raise, Exit, Return, Handle, Unwind, Throw, Refuse, CallbackReturn,
                CallbackThrow, HostCall
  <2> QED BY <2>1
<1> QED BY <1>1, <1>2

(***************************************************************************)
(* Session implements SessionContract: whatever programs load, raise or    *)
(* nest, and whatever callbacks do, a call that is over has reported the   *)
(* events, thrown the exception and returned the result that the contract  *)
(* computes from its source alone.                                         *)
(***************************************************************************)
THEOREM SessionMeetsContract == Spec => ContractSpec
<1>1. Init => Contract!Init /\ Promised
  BY DEF Init, Contract!Init, Promised
<1>2. Promised /\ IInv /\ [Next]_vars => Promised'
  BY PromisedStep
<1>3. IInv /\ Promised /\ [Next]_vars => [Contract!Next]_history
  BY ContractStep
<1> QED BY <1>1, <1>2, <1>3, InvariantHolds, PTL DEF Spec, ContractSpec, Contract!Spec
=============================================================================
