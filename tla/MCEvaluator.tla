---------------------------- MODULE MCEvaluator -----------------------------
(***************************************************************************)
(* Programs for TLC: every context of the evaluator around every context   *)
(* around an expression that succeeds or fails.                            *)
(***************************************************************************)
EXTENDS Meaning, LibraryContract

Call1(x, e) == C(x, <<e>>)
Bind1(op, x, e, body) == Binds(op, <<x>>, <<e>>, body)
Guards(cs, e) == GuardX("c", cs, e)
Datum(n, e) == [kind |-> "datums", datums |-> {Num(n)}, body |-> e]
Id == Fn(<<"a">>, "", R("a"))

Atoms == {I(1), F, R("x"), R("nope"), Call1("raise", I(7)), Call1("car", I(5))}

Contexts(e) ==
  { Iff(e, I(2), I(3)), Iff(F, I(2), e),
    Seq_(<<e, R("x")>>), Seq_(<<SetX("x", I(4)), e>>),
    Def("x", e), SetX("x", e), SetX("nope", e),
    App(Id, <<e>>), App(e, <<I(1)>>), App(Fn(<<>>, "r", R("r")), <<I(1), e>>),
    App(Fn(<<"x">>, "", e), <<I(8)>>), App(Fn(<<"a">>, "", e), <<>>),
    Bind1("let", "x", e, R("x")), Bind1("letrec", "x", e, R("x")),
    Bind1("let", "x", I(9), e),
    And(<<e, R("x")>>), Or(<<e, R("x")>>), Or(<<F, e>>),
    CondX(<<Clause("test", e, F), Else(I(2))>>), CondX(<<Clause("body", I(1), e)>>),
    CondX(<<Clause("arrow", e, Id)>>), CondX(<<Clause("arrow", I(6), e)>>),
    CaseX(e, <<Datum(1, I(5))>>), CaseX(I(1), <<Datum(2, I(5)), Else(e)>>),
    Bind1("let", "p", DelayX(e), Seq_(<<Call1("force", R("p")), Call1("force", R("p"))>>)),
    Call1("car", Stream(e, R("nope"))),
    Guards(<<Clause("test", F, F)>>, e), Guards(<<Else(R("c"))>>, e),
    Guards(<<Clause("arrow", R("c"), Id)>>, e),
    Guards(<<Clause("test", e, F)>>, Call1("raise", I(8))),
    App(R("apply"), <<R("cons"), I(1), App(R("cons"), <<e, L(Null)>>)>>),
    App(R("apply"), <<Id, e>>) }

Twice(es) == UNION {Contexts(e) : e \in es}
Nested == {<<Def("x", I(3)), e, R("x")>> : e \in Twice(Twice(Atoms))}

\* A counter down to 0, its call of itself in each of the tail positions.
Fewer == Minus1(R("n"))
Again == Call1("loop", Fewer)
TailPositions(e) ==
  { e, Iff(I(1), e, F), Seq_(<<I(1), e>>), Bind1("let", "y", I(1), e),
    Bind1("letrec", "y", I(1), e), And(<<I(1), e>>), Or(<<F, e>>),
    CondX(<<Clause("body", I(1), e)>>), CondX(<<Clause("test", F, F), Else(e)>>),
    CondX(<<Clause("arrow", I(1), Fn(<<"y">>, "", e))>>),
    CaseX(I(1), <<Datum(1, e)>>), CaseX(I(2), <<Datum(1, F), Else(e)>>),
    App(Fn(<<"y">>, "", e), <<I(1)>>),
    Guards(<<Clause("body", R("c"), e)>>, Call1("raise", I(7))),
    App(R("apply"), <<R("loop"), App(R("cons"), <<Fewer, L(Null)>>)>>) }
Loop(e) == Fn(<<"n">>, "", Iff(App(R("="), <<R("n"), I(0)>>), I(0), e))
Turns == 9
Loops == {<<Def("loop", Loop(e)), Call1("loop", I(Turns))>> :
            e \in UNION {TailPositions(d) : d \in TailPositions(Again)}}

\* Recursion that is not in tail position.
Deep == {<<Def("loop", Loop(e)), Call1("loop", I(Turns))>> :
           e \in Twice(Contexts(Again)) \cup {App(R("-"), <<Again, I(1)>>)}}

\* A promise whose body forces it once more, while x is not yet 0.
Reentrant ==
  {<<Def("x", I(1)),
     Def("p", DelayX(Seq_(<<SetX("x", App(R("-"), <<R("x"), I(1)>>)),
                            Iff(App(R("="), <<R("x"), I(k)>>),
                                Seq_(<<Call1("force", R("p")), I(10)>>), I(20))>>))),
     Call1("force", R("p")), Call1("force", R("p"))>> : k \in {0, 5}}

\* README, "Tail call optimization": a tail call adds no activation, so the
\* body of a loop always runs where its first turn ran.
LoopsInPlace ==
  (stack # <<>> /\ source \in Loops /\ Top.e.op = "if" /\ Top.e = source[1].init.body)
    => Len(stack) = 1

\* Nothing, one element, a repeated one, and more than the limit allows to nest.
SampleLists == {<<>>, <<3>>, <<2, 3, 1, 3>>, [i \in 1 .. Turns + 1 |-> i % 4]}

AllPrograms == LibraryPrograms \cup Nested \cup Deep \cup Reentrant \cup Loops

\* The nodes of an expression and the constants they hold.
Elems(s) == {s[i] : i \in DOMAIN s}
RECURSIVE Nodes(_)
Nodes(e) ==
  LET Bodies == {c.body : c \in Elems(e.clauses)}
      Tests == {c.test : c \in Elems(e.clauses)}
      inner == CASE e.op = "if" -> {e.test, e.then, e.else}
                 [] e.op = "begin" -> Elems(e.body)
                 [] e.op \in {"lambda", "delay"} -> {e.body}
                 [] e.op \in {"define", "set"} -> {e.init}
                 [] e.op = "call" -> {e.proc} \cup Elems(e.args)
                 [] e.op \in {"let", "letrec"} -> {e.body} \cup Elems(e.inits)
                 [] e.op = "logical" -> Elems(e.operands)
                 [] e.op = "cond" -> Bodies \cup Tests
                 [] e.op = "guard" -> {e.body} \cup Bodies \cup Tests
                 [] e.op = "case" -> {e.key} \cup Bodies
                 [] e.op = "cons-stream" -> {e.head, e.tail}
                 [] OTHER -> {}
  IN {e} \cup UNION {Nodes(c) : c \in inner}
RECURSIVE Data_(_)
Data_(v) == {v} \cup IF v.is = "pair"
                     THEN Data_(v.tail) \cup UNION {Data_(x) : x \in Elems(v.elements)}
                     ELSE {}

\* The theorems about the evaluator suppose ProgramsParsed: these programs are
\* made of nodes and constants as the parser makes them.
ASSUME ProgramsAreParsed ==
  \A p \in AllPrograms :
    LET Cs == UNION {Nodes(e) : e \in Elems(p)}
        Ds == UNION {Data_(e.value) : e \in {c \in Cs : c.op = "lit"}}
    IN p \in Seq(Cs) /\ Code(Cs, Ds)
=============================================================================
