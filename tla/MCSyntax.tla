------------------------------ MODULE MCSyntax ------------------------------
(***************************************************************************)
(* Syntax for TLC: every special form on up to three words, improper ones  *)
(* included, and quasiquote templates up to a few pairs; what the forms    *)
(* abbreviate, what names they leave free and what templates mean, defined *)
(* on the datums themselves.                                               *)
(***************************************************************************)
EXTENDS Syntax, FiniteSets

L(items) == ListFrom(items, Nil)
x == Sym("x")
y == Sym("y")
one == Bool(TRUE)

Forms ==
  LET words == {x, one, L(<<x>>), L(<<x, y>>), L(<<L(<<x, y>>)>>), L(<<L(<<y, x>>), L(<<x, y>>)>>),
                Pair(x, y), L(<<x, x>>), L(<<Sym("else"), y>>), L(<<x, Sym("=>"), y>>), Nil,
                L(<<L(<<x, x>>), L(<<x, y>>)>>), L(<<y, L(<<x, Sym("=>"), y>>)>>),
                L(<<y, L(<<x>>), L(<<Sym("else"), x>>)>>), L(<<Sym("define"), x, y>>),
                L(<<Sym("quasiquote"), L(<<x, L(<<Sym("unquote"), y>>)>>)>>)}
      last == {x, L(<<x, y>>), L(<<Sym("else"), y>>)}
      heads == {Sym(k) : k \in Keywords} \union {x}
  IN  {L(<<k>>) : k \in heads} \union {L(<<k, a>>) : k \in heads, a \in words}
        \union {L(<<k, a, b>>) : k \in heads, a, b \in words}
        \union {L(<<k, a, b, c>>) : k \in heads, a \in words, b \in last \union {one, L(<<L(<<x, y>>)>>)}, c \in last}
        \union {Pair(k, Pair(a, y)) : k \in heads, a \in words}

Templates ==
  LET Word(k, d) == L(<<Sym(k), d>>)
      \* Three levels of keywords, then lists and vectors of what they made.
      holes == {x, one, Word("quasiquote", L(<<Word("unquote", Sym("ys")), x>>))}
      Up(S) == S \union {Word(k, d) : k \in QuasiWords, d \in S}
      items == {y} \union {Word(k, d) : k \in {"unquote", "unquote-splicing"},
                                        d \in holes \union {Sym("ys"), Sym("free")}}
      pairs == {Pair(a, d) : a \in items, d \in items \union {Nil}}
      nested == Up(Up(items))
      some == items \union {Word("quasiquote", i) : i \in items}
  IN  {Word("quasiquote", d) :
         d \in Up(pairs) \union nested
               \union {L(<<a, b>>) : a \in nested, b \in {Sym("ys")} \union items}
               \union {L(<<a, b, c>>) : a, b \in some, c \in items}
               \union {Vec(<<a, b>>) : a, b \in some \union {Sym("unquote"), L(<<y, Word("unquote-splicing", Sym("ys"))>>)}}
               \union {L(<<Sym("unquote"), x, y>>), Pair(Sym("unquote"), x),
                       L(<<y, Sym("unquote"), Sym("ys")>>), L(<<y, Sym("unquote-splicing"), Sym("ys")>>)}}

MCData == Forms \union Templates
MCBindings == [n \in {"x", "y", "ys"} |->
  CASE n = "x" -> one [] n = "y" -> Pair(one, y) [] n = "ys" -> L(<<y, x>>)]
-----------------------------------------------------------------------------
(* What derived forms abbreviate.                                          *)
IsForm(d) == d.is = "pair" /\ IsSymbol(d.car) /\ Proper(d)
F(k, items) == L(<<Sym(k)>> \o items)
From(a, i) == SubSeq(a, i, Len(a))

\* The datum d abbreviates, d itself if it is no abbreviation.
Expanded(d) ==
  LET k == d.car.name
      a == Elements(d.cdr)
      bs == Elements(a[1])
  IN  CASE k = "when" /\ Len(a) >= 1 -> F("if", <<a[1], F("begin", Tail(a)), Void>>)
        [] k = "unless" /\ Len(a) >= 1 -> F("if", <<a[1], Void, F("begin", Tail(a))>>)
        [] k \in {"and", "or", "begin"} /\ Len(a) = 1 -> a[1]
        [] k = "lambda" /\ Len(a) >= 2 -> F("lambda", <<a[1], F("begin", Tail(a))>>)
        [] k = "define" /\ Len(a) >= 1 /\ a[1].is = "pair" /\ IsSymbol(a[1].car) ->
             F("define", <<a[1].car, F("lambda", <<a[1].cdr>> \o Tail(a))>>)
        [] k = "let*" /\ Len(a) >= 2 /\ Proper(a[1]) ->
             IF Len(bs) <= 1 THEN F("let", a)
             ELSE F("let", <<L(<<bs[1]>>), F("let*", <<L(Tail(bs))>> \o Tail(a))>>)
        [] k = "let" /\ Len(a) >= 3 /\ IsSymbol(a[1]) /\ BindingsOK(a[2])
             /\ FormalsOK(L(BoundNames(a[2]))) ->
             LET lambda == F("lambda", <<L(BoundNames(a[2]))>> \o From(a, 3))
                 inits == [i \in DOMAIN Elements(a[2]) |-> Elements(a[2])[i].cdr.car]
             IN  L(<<F("letrec", <<L(<<L(<<a[1], lambda>>)>>), a[1]>>)>> \o inits)
        [] OTHER -> d

-----------------------------------------------------------------------------
(* The names a form leaves free, by the scoping rules of the language, and *)
(* the names an expression looks up in the environment it is given.        *)
NamesIn(symbols) == {s.name : s \in {u \in ToSet(symbols) : IsSymbol(u)}}
Union(sets) == UNION ToSet(sets)

RECURSIVE FreeIn(_), FreeInTemplate(_, _)
FreeInAll(forms) == Union([i \in DOMAIN forms |-> FreeIn(forms[i])])
FreeInBody(names, body) == FreeInAll(body) \ names

\* The clauses of cond and guard, and those of case: else and => are no names.
FreeInClauses(clauses) == Union([i \in DOMAIN clauses |->
  FreeInAll(SelectSeq(Elements(clauses[i]), LAMBDA d : d \notin {Sym("else"), Sym("=>")}))])
FreeInCase(clauses) == Union([i \in DOMAIN clauses |-> FreeInAll(Elements(clauses[i].cdr))])

FreeInLet(k, bs, body) ==
  LET names == {bs[i].car.name : i \in DOMAIN bs}
      inits == [i \in DOMAIN bs |-> bs[i].cdr.car]
  IN  CASE k = "letrec" -> (FreeInAll(inits) \union FreeInAll(body)) \ names
        [] k = "let" -> FreeInAll(inits) \union FreeInBody(names, body)
        \* let*: an initializer sees the names before it.
        [] OTHER -> FreeInBody(names, body) \union UNION {
             FreeIn(inits[i]) \ {bs[j].car.name : j \in 1..(i - 1)} : i \in DOMAIN bs}

FreeInForm(k, a) ==
  CASE k = "quote" -> {}
    [] k = "quasiquote" -> FreeInTemplate(a[1], 1)
    [] k = "lambda" -> FreeInBody(NamesIn(Formals(a[1])), Tail(a))
    [] k = "define" -> IF IsSymbol(a[1]) THEN FreeInAll(Tail(a))
                       ELSE FreeInBody(NamesIn(Formals(a[1].cdr)), Tail(a))
    [] k = "let" /\ IsSymbol(a[1]) ->
         LET bs == Elements(a[2])
         IN  FreeInLet("let", bs, <<>>)
               \union FreeInBody({a[1].name} \union {bs[i].car.name : i \in DOMAIN bs}, From(a, 3))
    [] k \in {"let", "let*", "letrec"} /\ ~IsSymbol(a[1]) ->
         FreeInLet(k, Elements(a[1]), Tail(a))
    [] k = "cond" -> FreeInClauses(a)
    [] k = "case" -> FreeIn(a[1]) \union FreeInCase(Tail(a))
    [] k = "guard" -> FreeInAll(Tail(a))
                        \union (FreeInClauses(Elements(a[1].cdr)) \ {a[1].car.name})
    [] OTHER -> FreeInAll(a)

FreeIn(d) ==
  CASE IsSymbol(d) -> {d.name}
    [] d.is = "pair" -> IF IsSymbol(d.car) /\ d.car.name \in Keywords
                        THEN FreeInForm(d.car.name, Elements(d.cdr))
                        ELSE FreeInAll(Elements(d))
    [] OTHER -> {}

FreeInTemplate(d, level) ==
  CASE d.is = "vector" ->
         Union([i \in DOMAIN d.items |-> FreeInTemplate(d.items[i], level)])
    [] IsQuasiForm(d) ->
         IF d.car.name = "quasiquote" THEN FreeInTemplate(d.cdr.car, level + 1)
         ELSE IF level = 1 THEN FreeIn(d.cdr.car) ELSE FreeInTemplate(d.cdr.car, level - 1)
    [] d.is = "pair" /\ ~IsQuasiForm(d) ->
         FreeInTemplate(d.car, level) \union FreeInTemplate(d.cdr, level)
    [] OTHER -> {}

\* Env lookups: lambda, let and letrec bind names in a new Env, guard binds its
\* variable in the handler's.
RECURSIVE Reads(_)
Reads(e) ==
  LET below == [i \in DOMAIN e.parts |-> Reads(e.parts[i])]
      names == NamesIn(e.data)
  IN  CASE e.t \in {"reference", "set"} -> names \union Union(below)
        [] e.t \in {"lambda", "letrec"} -> Union(below) \ names
        [] e.t = "let" -> Union(Front(below)) \union (Last(below) \ names)
        [] e.t = "guard" -> (below[1] \ names) \union below[2]
        [] OTHER -> Union(below)
-----------------------------------------------------------------------------
(* What a template means, without compiling it first.                      *)
RECURSIVE Meaning(_, _), Value(_)
Value(e) ==
  CASE IsSymbol(e) -> IF e.name \in DOMAIN Bindings THEN Result(Bindings[e.name], <<e.name>>)
                      ELSE Failed(<<e.name>>)
    [] e.is = "pair" -> IF IsKeyword(e.car, "quasiquote") THEN Meaning(e.cdr.car, 1)
                        ELSE Value(e.car)
    [] OTHER -> Result(e, <<>>)

Word(d) == IF IsQuasiForm(d) THEN d.car.name ELSE "none"
MeantItems(d, level) ==
  LET r == IF Word(d) = "unquote-splicing" /\ level = 1 THEN Value(d.cdr.car)
           ELSE Meaning(d, level)
  IN  CASE ~r.ok -> r
        [] Word(d) = "unquote-splicing" /\ level = 1 ->
             IF Proper(r.value) THEN Result(Elements(r.value), r.read) ELSE Failed(r.read)
        [] OTHER -> Result(<<r.value>>, r.read)

Meaning(d, level) ==
  CASE d.is = "vector" ->
         LET Add(r, item) == Then(r, MeantItems(item, level), LAMBDA us, vs : us \o vs)
             all == FoldLeft(Add, Result(<<>>, <<>>), d.items)
         IN  IF all.ok THEN Result(Vec(all.value), all.read) ELSE all
    [] Word(d) = "unquote" /\ level = 1 -> Value(d.cdr.car)
    [] Word(d) = "none" /\ d.is = "pair" ->
         Then(MeantItems(d.car, level), Meaning(d.cdr, level), ListFrom)
    [] Word(d) # "none" /\ ~(Word(d) = "unquote" /\ level = 1) ->
         LET r == Meaning(d.cdr.car, IF Word(d) = "quasiquote" THEN level + 1 ELSE level - 1)
         IN  IF r.ok THEN Result(L(<<d.car, r.value>>), r.read) ELSE r
    [] OTHER -> Result(d, <<>>)
-----------------------------------------------------------------------------
Parsed == expression # <<>>
Accepted == Parsed /\ expression[1] # Err

\* Every expression below one.
RECURSIVE Nodes(_)
Nodes(e) == {e} \union UNION {Nodes(e.parts[i]) : i \in DOMAIN e.parts}

\* Whatever is parsed can be evaluated (src/expression.cpp): a sequence or a
\* logical form has a last operand to take, a splice is the element of a list
\* or vector, and an else closes its clauses.
TypeOK ==
  Accepted => \A e \in Nodes(expression[1]) :
    LET kinds == [i \in DOMAIN e.parts |-> e.parts[i].t]
    IN  /\ e.t \in {"begin", "and", "or"} => Len(e.parts) >= 2
        /\ e.t \in {"let", "letrec"} => Len(e.parts) = Len(e.data) + 1
        /\ "splice" \in ToSet(kinds) => e.t = "vector" \/ (e.t = "pair" /\ kinds[2] # "splice")
        /\ "else" \in ToSet(kinds) => e.t \in {"cond", "case"} /\ "else" \notin ToSet(Front(kinds))
        /\ e.t = "if" => Len(e.parts) = 3

\* A derived form is parsed to what its expansion is parsed to, and is an error
\* exactly if that is: when, unless, let*, named let, define of a procedure,
\* bodies, and sequences and logical forms of one.
DerivedForms ==
  Parsed /\ IsForm(datum) => expression[1] = Parse(Expanded(datum))

\* Lexical scope: what evaluation looks up in the environment of a form is
\* what the rules of scope leave free in it, so that an initializer, a body, a
\* receiver or a handler is evaluated in the scope it was written in.
LexicalScope ==
  Accepted => Reads(expression[1]) = FreeIn(datum)

\* A quasiquote is instantiated to what its template means: holes of the first
\* level only, nested levels kept as written, splices flattened in place, holes
\* read from left to right and nothing read after a failure.
QuasiquoteMeaning ==
  result # <<>> /\ IsKeyword(datum.car, "quasiquote")
    => result[1] = Meaning(datum.cdr.car, 1)
=============================================================================
