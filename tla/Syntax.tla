------------------------------- MODULE Syntax -------------------------------
(***************************************************************************)
(* From a datum to an expression (src/parser.cpp: parse and its form       *)
(* parsers, macros apart, which Expander models) and from a quasiquote     *)
(* template to its value (src/quasiquote.cpp).                             *)
(*                                                                         *)
(* An expression is a node [t, data, parts]: its class, the symbols and    *)
(* datums it keeps, the expressions or templates below it.  A SchemeError  *)
(* anywhere in a form is the error of the whole form, so that a node with  *)
(* an erroneous part is an error; what the error says is left out.         *)
(***************************************************************************)
EXTENDS Integers, Sequences, SequencesExt

CONSTANTS
  Data,      \* the datums to parse
  Bindings   \* name -> value, the environment holes are evaluated in

\* Datums.
Sym(n) == [is |-> "symbol", name |-> n]
Pair(a, d) == [is |-> "pair", car |-> a, cdr |-> d]
Vec(items) == [is |-> "vector", items |-> items]
Bool(b) == [is |-> "bool", truth |-> b]
Nil == [is |-> "null"]
Void == [is |-> "void"]

IsSymbol(d) == d.is = "symbol"
IsKeyword(d, name) == d = Sym(name)

\* A list is its elements and what follows the last pair.
RECURSIVE Elements(_), TailOf(_), ListFrom(_, _)
Elements(d) == IF d.is = "pair" THEN <<d.car>> \o Elements(d.cdr) ELSE <<>>
TailOf(d) == IF d.is = "pair" THEN TailOf(d.cdr) ELSE d
Proper(d) == TailOf(d) = Nil
ListFrom(items, tail) ==
  IF items = <<>> THEN tail ELSE Pair(Head(items), ListFrom(Tail(items), tail))

\* Expressions and templates.
Err == [t |-> "error", data |-> <<>>, parts |-> <<>>]
Node(t, data, parts) ==
  IF \E i \in DOMAIN parts : parts[i].t = "error" THEN Err
  ELSE [t |-> t, data |-> data, parts |-> parts]
Literal(d) == Node("literal", <<d>>, <<>>)
Reference(s) == Node("reference", <<s>>, <<>>)
-----------------------------------------------------------------------------
RECURSIVE Parse(_)
ParseAll(forms) == [i \in DOMAIN forms |-> Parse(forms[i])]

ParseSequence(forms) ==
  CASE Len(forms) = 0 -> Literal(Void)
    [] Len(forms) = 1 -> Parse(forms[1])
    [] OTHER -> Node("begin", <<>>, ParseAll(forms))

ParseIf(a) ==
  Node("if", <<>>, ParseAll(a) \o IF Len(a) = 3 THEN <<>> ELSE <<Literal(Void)>>)

\* Formals: the fixed parameters, then the rest parameter or ().
FormalsOK(d) ==
  LET names == Elements(d) \o IF Proper(d) THEN <<>> ELSE <<TailOf(d)>>
  IN  /\ \A i \in DOMAIN names : IsSymbol(names[i])
      /\ \A i, j \in DOMAIN names : i # j => names[i] # names[j]
Formals(d) == Append(Elements(d), TailOf(d))

Lambda(formals, body) ==
  IF FormalsOK(formals) THEN Node("lambda", Formals(formals), <<ParseSequence(body)>>)
  ELSE Err
ParseLambda(a) == Lambda(a[1], Tail(a))

ParseDefine(a) ==
  CASE a[1].is = "pair" /\ IsSymbol(a[1].car) /\ Len(a) >= 2 ->
         Node("define", <<a[1].car>>, <<Lambda(a[1].cdr, Tail(a))>>)
    [] IsSymbol(a[1]) /\ Len(a) <= 2 ->
         Node("define", <<a[1]>>, <<IF Len(a) = 2 THEN Parse(a[2]) ELSE Literal(Void)>>)
    [] OTHER -> Err

ParseSet(a) == IF IsSymbol(a[1]) THEN Node("set", <<a[1]>>, <<Parse(a[2])>>) ELSE Err

\* Bindings: a proper list of (name initializer).
BindingsOK(d) ==
  /\ Proper(d)
  /\ LET bs == Elements(d)
     IN  \A i \in DOMAIN bs : /\ Proper(bs[i]) /\ Len(Elements(bs[i])) = 2
                              /\ IsSymbol(bs[i].car)
BoundNames(d) == LET bs == Elements(d) IN [i \in DOMAIN bs |-> bs[i].car]
Initializers(d) == LET bs == Elements(d) IN [i \in DOMAIN bs |-> Parse(bs[i].cdr.car)]

Let(names, inits, body) == Node("let", names, Append(inits, body))
LetRec(names, inits, body) == Node("letrec", names, Append(inits, body))

NamedLet(name, bindings, body) ==
  LET lambda == Node("lambda", Append(BoundNames(bindings), Nil), <<ParseSequence(body)>>)
  IN  Node("call", <<>>, <<LetRec(<<name>>, <<lambda>>, Reference(name))>>
                           \o Initializers(bindings))

ParseLet(a) ==
  CASE ~IsSymbol(a[1]) /\ BindingsOK(a[1]) ->
         Let(BoundNames(a[1]), Initializers(a[1]), ParseSequence(Tail(a)))
    [] IsSymbol(a[1]) /\ Len(a) >= 3 /\ BindingsOK(a[2]) ->
         NamedLet(a[1], a[2], SubSeq(a, 3, Len(a)))
    [] OTHER -> Err

\* Mutant: the lets are nested in the order of the bindings.
BugParseLetStar(a) ==
  LET names == BoundNames(a[1])
      inits == Initializers(a[1])
      Around(body, i) == Let(<<names[i]>>, <<inits[i]>>, body)
  IN  IF ~BindingsOK(a[1]) THEN Err
      ELSE IF names = <<>> THEN Let(<<>>, <<>>, ParseSequence(Tail(a)))
      ELSE FoldLeft(Around, ParseSequence(Tail(a)), [i \in DOMAIN names |-> i])

ParseLetStar(a) ==
  LET names == BoundNames(a[1])
      inits == Initializers(a[1])
      Around(i, body) == Let(<<names[i]>>, <<inits[i]>>, body)
  IN  IF ~BindingsOK(a[1]) THEN Err
      ELSE IF names = <<>> THEN Let(<<>>, <<>>, ParseSequence(Tail(a)))
      ELSE FoldRight(Around, [i \in DOMAIN names |-> i], ParseSequence(Tail(a)))

ParseLetRec(a) ==
  IF BindingsOK(a[1])
  THEN LetRec(BoundNames(a[1]), Initializers(a[1]), ParseSequence(Tail(a)))
  ELSE Err

ParseWhen(a) ==
  Node("if", <<>>, <<Parse(a[1]), ParseSequence(Tail(a)), Literal(Void)>>)
ParseUnless(a) ==
  Node("if", <<>>, <<Parse(a[1]), Literal(Void), ParseSequence(Tail(a))>>)

\* A clause of cond or guard, of elements c; whether it is the last one.
CondClause(c, last) ==
  CASE c = <<>> -> Err
    [] IsKeyword(c[1], "else") ->
         IF last /\ Len(c) > 1 THEN Node("else", <<>>, <<ParseSequence(Tail(c))>>) ELSE Err
    [] Len(c) = 1 -> Node("test", <<>>, <<Parse(c[1])>>)
    [] IsKeyword(c[2], "=>") ->
         IF Len(c) = 3 THEN Node("arrow", <<>>, <<Parse(c[1]), Parse(c[3])>>) ELSE Err
    [] OTHER -> Node("clause", <<>>, <<Parse(c[1]), ParseSequence(Tail(c))>>)

ParseCond(clauses) ==
  Node("cond", <<>>, [i \in DOMAIN clauses |->
    IF Proper(clauses[i]) THEN CondClause(Elements(clauses[i]), i = Len(clauses)) ELSE Err])

CaseClause(c, last) ==
  CASE c = <<>> -> Err
    [] IsKeyword(c[1], "else") ->
         IF last THEN Node("else", <<>>, <<ParseSequence(Tail(c))>>) ELSE Err
    [] Proper(c[1]) -> Node("in", Elements(c[1]), <<ParseSequence(Tail(c))>>)
    [] OTHER -> Err

ParseCase(a) ==
  Node("case", <<>>, <<Parse(a[1])>> \o [i \in 1..(Len(a) - 1) |->
    IF Proper(a[i + 1]) THEN CaseClause(Elements(a[i + 1]), i + 1 = Len(a)) ELSE Err])

\* Mutant: no operands are a node too.
BugParseLogical(kind, a) ==
  IF Len(a) = 1 THEN Parse(a[1]) ELSE Node(kind, <<>>, ParseAll(a))

ParseLogical(kind, a) ==
  CASE a = <<>> -> Literal(Bool(kind = "and"))
    [] Len(a) = 1 -> Parse(a[1])
    [] OTHER -> Node(kind, <<>>, ParseAll(a))

ParseGuard(a) ==
  IF a[1].is = "pair" /\ IsSymbol(a[1].car) /\ Proper(a[1].cdr)
  THEN Node("guard", <<a[1].car>>, <<ParseCond(Elements(a[1].cdr)), ParseSequence(Tail(a))>>)
  ELSE Err
-----------------------------------------------------------------------------
\* Quasiquote.  A template is a datum to keep, a pair, a vector, or a value to
\* compute; an element of a pair or vector may be a splice instead.
QuasiWords == {"quasiquote", "unquote", "unquote-splicing"}
IsQuasiForm(d) == d.is = "pair" /\ IsSymbol(d.car) /\ d.car.name \in QuasiWords

QuasiForm(keyword, argument) ==
  LET Kept(d) == Node("datum", <<d>>, <<>>)
  IN  Node("pair", <<>>, <<Kept(keyword), Node("pair", <<>>, <<argument, Kept(Nil)>>)>>)

RECURSIVE Compile(_, _)
CompileElement(d, depth) ==
  IF depth = 1 /\ IsQuasiForm(d) /\ d.car.name = "unquote-splicing"
  THEN IF Proper(d.cdr) /\ Len(Elements(d.cdr)) = 1
       THEN Node("splice", <<>>, <<Parse(d.cdr.car)>>) ELSE Err
  ELSE Compile(d, depth)

\* Mutant: a nested quasiquote does not raise the level.
BugCompileForm(keyword, argument, depth) ==
  CASE keyword.name = "quasiquote" -> QuasiForm(keyword, Compile(argument, depth))
    [] depth > 1 -> QuasiForm(keyword, Compile(argument, depth - 1))
    [] keyword.name = "unquote" -> Node("value", <<>>, <<Parse(argument)>>)
    [] OTHER -> Err

CompileForm(keyword, argument, depth) ==
  CASE keyword.name = "quasiquote" -> QuasiForm(keyword, Compile(argument, depth + 1))
    [] keyword.name # "quasiquote" /\ depth > 1 ->
         QuasiForm(keyword, Compile(argument, depth - 1))
    [] keyword.name = "unquote" /\ depth = 1 -> Node("value", <<>>, <<Parse(argument)>>)
    [] OTHER -> Err   \* unquote-splicing: not in a list or vector

Compile(d, depth) ==
  CASE d.is = "vector" ->
         Node("vector", <<>>, [i \in DOMAIN d.items |-> CompileElement(d.items[i], depth)])
    [] IsQuasiForm(d) ->
         IF Proper(d.cdr) /\ Len(Elements(d.cdr)) = 1
         THEN CompileForm(d.car, d.cdr.car, depth) ELSE Err
    [] d.is = "pair" /\ ~IsQuasiForm(d) ->
         Node("pair", <<>>, <<CompileElement(d.car, depth), Compile(d.cdr, depth)>>)
    [] OTHER -> Node("datum", <<d>>, <<>>)
-----------------------------------------------------------------------------
\* The special forms, how many arguments each takes, and what it becomes.
Keywords == {"quote", "if", "define", "set!", "lambda", "begin", "let", "let*", "letrec",
  "when", "unless", "case", "cond", "and", "or", "quasiquote", "guard", "delay",
  "cons-stream", "define-macro"}

ArityOK(k, n) ==
  CASE k \in {"quote", "quasiquote", "delay"} -> n = 1
    [] k \in {"set!", "cons-stream"} -> n = 2
    [] k = "if" -> n \in 2..3
    [] k \in {"lambda", "let", "let*", "letrec", "guard"} -> n >= 2
    [] k \in {"define", "when", "unless", "case"} -> n >= 1
    [] OTHER -> TRUE

ParseForm(k, a) ==
  CASE k = "quote" -> Literal(a[1])
    [] k = "if" -> ParseIf(a)
    [] k = "define" -> ParseDefine(a)
    [] k = "set!" -> ParseSet(a)
    [] k = "lambda" -> ParseLambda(a)
    [] k = "begin" -> ParseSequence(a)
    [] k = "let" -> ParseLet(a)
    [] k = "let*" -> ParseLetStar(a)
    [] k = "letrec" -> ParseLetRec(a)
    [] k = "when" -> ParseWhen(a)
    [] k = "unless" -> ParseUnless(a)
    [] k = "case" -> ParseCase(a)
    [] k = "cond" -> ParseCond(a)
    [] k \in {"and", "or"} -> ParseLogical(k, a)
    [] k = "quasiquote" -> Node("quasiquote", <<>>, <<Compile(a[1], 1)>>)
    [] k = "guard" -> ParseGuard(a)
    [] k = "delay" -> Node("delay", <<>>, <<Parse(a[1])>>)
    [] k = "cons-stream" -> Node("cons-stream", <<>>, ParseAll(a))
    [] k = "define-macro" -> Err   \* only allowed at top level

Parse(d) ==
  CASE IsSymbol(d) -> Reference(d)
    [] d.is = "pair" /\ IsSymbol(d.car) /\ d.car.name \in Keywords ->
         IF Proper(d.cdr) /\ ArityOK(d.car.name, Len(Elements(d.cdr)))
         THEN ParseForm(d.car.name, Elements(d.cdr)) ELSE Err
    [] d.is = "pair" /\ ~(IsSymbol(d.car) /\ d.car.name \in Keywords) ->
         IF Proper(d.cdr)
         THEN Node("call", <<>>, <<Parse(d.car)>> \o ParseAll(Elements(d.cdr))) ELSE Err
    [] OTHER -> Literal(d)
-----------------------------------------------------------------------------
\* What an evaluation comes to: its value and the names it read, in order.
Result(value, read) == [ok |-> TRUE, value |-> value, read |-> read]
Failed(read) == [ok |-> FALSE, value |-> Void, read |-> read]

\* r, then s, which is not evaluated if r fails.
Then(r, s, Combine(_, _)) ==
  CASE ~r.ok -> r
    [] r.ok /\ ~s.ok -> Failed(r.read \o s.read)
    [] OTHER -> Result(Combine(r.value, s.value), r.read \o s.read)

RECURSIVE Instantiate(_), EvalHole(_)

\* The expressions a hole holds here: names, literals, quasiquotes, and calls of
\* names that are not bound.
EvalHole(e) ==
  CASE e.t = "reference" ->
         IF e.data[1].name \in DOMAIN Bindings
         THEN Result(Bindings[e.data[1].name], <<e.data[1].name>>)
         ELSE Failed(<<e.data[1].name>>)
    [] e.t = "literal" -> Result(e.data[1], <<>>)
    [] e.t = "quasiquote" -> Instantiate(e.parts[1])
    [] e.t = "call" -> EvalHole(e.parts[1])

Splice(e) ==
  LET r == EvalHole(e)
  IN  CASE ~r.ok -> r
        [] r.ok /\ ~Proper(r.value) -> Failed(r.read)
        [] OTHER -> Result(Elements(r.value), r.read)

\* The items an element stands for, as a sequence.
Items(element) ==
  IF element.t = "splice" THEN Splice(element.parts[1])
  ELSE LET r == Instantiate(element)
       IN  IF r.ok THEN Result(<<r.value>>, r.read) ELSE r

\* Mutant: the tail is instantiated first.
BugInstantiatePair(element, tail) ==
  Then(Instantiate(tail), Items(element), LAMBDA v, items : ListFrom(items, v))

InstantiatePair(element, tail) ==
  Then(Items(element), Instantiate(tail), ListFrom)

InstantiateVector(elements) ==
  LET Add(r, element) == Then(r, Items(element), LAMBDA xs, ys : xs \o ys)
      all == FoldLeft(Add, Result(<<>>, <<>>), elements)
  IN  IF all.ok THEN Result(Vec(all.value), all.read) ELSE all

Instantiate(template) ==
  CASE template.t = "datum" -> Result(template.data[1], <<>>)
    [] template.t = "value" -> EvalHole(template.parts[1])
    [] template.t = "pair" -> InstantiatePair(template.parts[1], template.parts[2])
    [] template.t = "vector" -> InstantiateVector(template.parts)
-----------------------------------------------------------------------------
VARIABLES datum, expression, result   \* the last two as sequences of at most one
vars == <<datum, expression, result>>

Init == datum \in Data /\ expression = <<>> /\ result = <<>>

ParseDatum ==
  /\ expression = <<>>
  /\ expression' = <<Parse(datum)>>
  /\ UNCHANGED <<datum, result>>

EvalQuasiquote ==
  /\ expression # <<>> /\ expression[1].t = "quasiquote" /\ result = <<>>
  /\ result' = <<Instantiate(expression[1].parts[1])>>
  /\ UNCHANGED <<datum, expression>>

Next == ParseDatum \/ EvalQuasiquote
Spec == Init /\ [][Next]_vars
=============================================================================
