------------------------------ MODULE Library -------------------------------
(***************************************************************************)
(* The preamble (src/preamble.cpp): the part of the standard library that  *)
(* is written in Scheme and run when a session is made.  Its procedures    *)
(* are programs of the Evaluator, in the nodes that the parser makes of    *)
(* their text.  Names are those of the source, with _ for what TLA+ does   *)
(* not allow in one.                                                       *)
(***************************************************************************)
EXTENDS Evaluator

\* The nodes of expression.hpp.
L(v) == [op |-> "lit", value |-> v]
R(x) == [op |-> "ref", name |-> x]
Iff(a, b, c) == [op |-> "if", test |-> a, then |-> b, else |-> c]
Seq_(es) == [op |-> "begin", body |-> es]
Fn(fixed, rest, body) == [op |-> "lambda", fixed |-> fixed, rest |-> rest, body |-> body]
Def(x, e) == [op |-> "define", name |-> x, init |-> e]
SetX(x, e) == [op |-> "set", name |-> x, init |-> e]
App(f, es) == [op |-> "call", proc |-> f, args |-> es]
Binds(op, xs, es, body) == [op |-> op, names |-> xs, inits |-> es, body |-> body]
And(es) == [op |-> "logical", operands |-> es, stop |-> FALSE]
Or(es) == [op |-> "logical", operands |-> es, stop |-> TRUE]
Clause(kind, test, body) == [kind |-> kind, test |-> test, body |-> body]
CondX(cs) == [op |-> "cond", clauses |-> cs]
CaseX(e, cs) == [op |-> "case", key |-> e, clauses |-> cs]
GuardX(x, cs, e) == [op |-> "guard", name |-> x, clauses |-> cs, body |-> e]
DelayX(e) == [op |-> "delay", body |-> e]
Stream(a, b) == [op |-> "cons-stream", head |-> a, tail |-> b]

\* Abbreviations.
F == L(Bool(FALSE))
T == L(Bool(TRUE))
Nil == L(Null)
I(n) == L(Num(n))
Else(e) == Clause("else", F, e)
C(x, es) == App(R(x), es)
Car(e) == C("car", <<e>>)
Cdr(e) == C("cdr", <<e>>)
Pair(a, d) == C("cons", <<a, d>>)
IsNull(e) == C("null?", <<e>>)
Minus1(e) == C("-", <<e, I(1)>>)
\* (define (name fixed . rest) form ...), a body of several forms a begin.
Proc(name, fixed, rest, body) == Def(name, Fn(fixed, rest, body))
-----------------------------------------------------------------------------
caar == Proc("caar", <<"x">>, "", Car(Car(R("x"))))
cadr == Proc("cadr", <<"x">>, "", Car(Cdr(R("x"))))

map ==
  Proc("map", <<"f">>, "lists", Seq_(<<
    Proc("single", <<"lst", "acc">>, "",
      Iff(IsNull(R("lst")), C("reverse", <<R("acc")>>),
          C("single", <<Cdr(R("lst")), Pair(C("f", <<Car(R("lst"))>>), R("acc"))>>))),
    Proc("multi", <<"lists", "acc">>, "",
      Iff(C("any", <<R("null?"), R("lists")>>), C("reverse", <<R("acc")>>),
          C("multi", <<C("map", <<R("cdr"), R("lists")>>),
                       Pair(C("apply", <<R("f"), C("map", <<R("car"), R("lists")>>)>>),
                            R("acc"))>>))),
    Iff(IsNull(Cdr(R("lists"))), C("single", <<Car(R("lists")), Nil>>),
                                 C("multi", <<R("lists"), Nil>>))>>))

for_each ==
  Proc("for-each", <<"f">>, "lists",
    Iff(IsNull(Cdr(R("lists"))),
        Binds("let", <<"lst">>, <<Car(R("lists"))>>,
          Iff(C("not", <<IsNull(R("lst"))>>),
              Seq_(<<C("f", <<Car(R("lst"))>>),
                     C("for-each", <<R("f"), Cdr(R("lst"))>>)>>),
              L(Void))),
        Iff(C("not", <<C("any", <<R("null?"), R("lists")>>)>>),
            Seq_(<<C("apply", <<R("f"), C("map", <<R("car"), R("lists")>>)>>),
                   C("apply", <<R("for-each"), R("f"), C("map", <<R("cdr"), R("lists")>>)>>)>>),
            L(Void))))

\* What was kept, in the order it was met last.
Bugfilter ==
  Proc("filter", <<"pred", "lst">>, "", Seq_(<<
    Proc("iter", <<"lst", "acc">>, "",
      Iff(IsNull(R("lst")), R("acc"),
          C("iter", <<Cdr(R("lst")),
                      Iff(C("pred", <<Car(R("lst"))>>),
                          Pair(Car(R("lst")), R("acc")), R("acc"))>>))),
    C("iter", <<R("lst"), Nil>>)>>))

filter ==
  Proc("filter", <<"pred", "lst">>, "", Seq_(<<
    Proc("iter", <<"lst", "acc">>, "",
      Iff(IsNull(R("lst")), C("reverse", <<R("acc")>>),
          C("iter", <<Cdr(R("lst")),
                      Iff(C("pred", <<Car(R("lst"))>>),
                          Pair(Car(R("lst")), R("acc")), R("acc"))>>))),
    C("iter", <<R("lst"), Nil>>)>>))

reduce ==
  Proc("reduce", <<"f", "init", "lst">>, "",
    Iff(IsNull(R("lst")), R("init"),
        C("reduce", <<R("f"), C("f", <<R("init"), Car(R("lst"))>>), Cdr(R("lst"))>>)))

fold_right ==
  Proc("fold-right", <<"f", "init", "lst">>, "", Seq_(<<
    Proc("iter", <<"lst", "acc">>, "",
      Iff(IsNull(R("lst")), R("acc"),
          C("iter", <<Cdr(R("lst")), C("f", <<Car(R("lst")), R("acc")>>)>>))),
    C("iter", <<C("reverse", <<R("lst")>>), R("init")>>)>>))
-----------------------------------------------------------------------------
last_pair ==
  Proc("last-pair", <<"lst">>, "",
    Iff(IsNull(Cdr(R("lst"))), R("lst"), C("last-pair", <<Cdr(R("lst"))>>)))

list_tail ==
  Proc("list-tail", <<"lst", "k">>, "",
    Iff(C("=", <<R("k"), I(0)>>), R("lst"),
        C("list-tail", <<Cdr(R("lst")), Minus1(R("k"))>>)))

append ==
  Proc("append", <<>>, "lists", Seq_(<<
    Proc("prepend", <<"lst", "acc">>, "",
      Iff(IsNull(R("lst")), R("acc"),
          C("prepend", <<Cdr(R("lst")), Pair(Car(R("lst")), R("acc"))>>))),
    Proc("iter", <<"lists", "acc">>, "",
      Iff(IsNull(Cdr(R("lists"))), C("prepend", <<R("acc"), Car(R("lists"))>>),
          C("iter", <<Cdr(R("lists")), C("prepend", <<Car(R("lists")), R("acc")>>)>>))),
    Iff(IsNull(R("lists")), Nil, C("iter", <<R("lists"), Nil>>))>>))

reverse ==
  Proc("reverse", <<"lst">>, "", Seq_(<<
    Proc("iter", <<"l", "acc">>, "",
      Iff(IsNull(R("l")), R("acc"),
          C("iter", <<Cdr(R("l")), Pair(Car(R("l")), R("acc"))>>))),
    C("iter", <<R("lst"), Nil>>)>>))

zip ==
  Proc("zip", <<"a", "b">>, "", Seq_(<<
    Proc("iter", <<"a", "b", "acc">>, "",
      Iff(Or(<<IsNull(R("a")), IsNull(R("b"))>>), C("reverse", <<R("acc")>>),
          C("iter", <<Cdr(R("a")), Cdr(R("b")),
                      Pair(C("list", <<Car(R("a")), Car(R("b"))>>), R("acc"))>>))),
    C("iter", <<R("a"), R("b"), Nil>>)>>))

iota ==
  Proc("iota", <<"count">>, "rest",
    Binds("let", <<"start", "step">>,
      <<Iff(IsNull(R("rest")), I(0), Car(R("rest"))),
        Iff(Or(<<IsNull(R("rest")), IsNull(Cdr(R("rest")))>>), I(1), C("cadr", <<R("rest")>>))>>,
      Seq_(<<
        Proc("iter", <<"i", "acc">>, "",
          Iff(C("=", <<R("i"), I(0)>>), R("acc"),
              C("iter", <<Minus1(R("i")),
                 Pair(C("+", <<R("start"), C("*", <<Minus1(R("i")), R("step")>>)>>),
                      R("acc"))>>))),
        C("iter", <<R("count"), Nil>>)>>)))

\* memq, member: the tail of lst whose first element is the same as obj.
Search(name, same) ==
  Proc(name, <<"obj", "lst">>, "",
    Iff(IsNull(R("lst")), F,
        Iff(C(same, <<R("obj"), Car(R("lst"))>>), R("lst"),
            C(name, <<R("obj"), Cdr(R("lst"))>>))))
memq == Search("memq", "eq?")
member == Search("member", "equal?")

\* assoc, assv: the element of alist whose car is the same as key.
SearchKey(name, same) ==
  Proc(name, <<"key", "alist">>, "",
    Iff(IsNull(R("alist")), F,
        Iff(C(same, <<R("key"), C("caar", <<R("alist")>>)>>), Car(R("alist")),
            C(name, <<R("key"), Cdr(R("alist"))>>))))
assoc == SearchKey("assoc", "equal?")
assv == SearchKey("assv", "eq?")

any ==
  Proc("any", <<"pred", "lst">>, "",
    Iff(IsNull(R("lst")), F,
        Iff(C("pred", <<Car(R("lst"))>>), T, C("any", <<R("pred"), Cdr(R("lst"))>>))))

every ==
  Proc("every", <<"pred", "lst">>, "",
    Iff(IsNull(R("lst")), T,
        Iff(C("pred", <<Car(R("lst"))>>), C("every", <<R("pred"), Cdr(R("lst"))>>), F)))
-----------------------------------------------------------------------------
the_empty_stream == Def("the-empty-stream", Nil)
stream_null == Proc("stream-null?", <<"s">>, "", IsNull(R("s")))
stream_car == Proc("stream-car", <<"s">>, "", Car(R("s")))
stream_cdr == Proc("stream-cdr", <<"s">>, "", C("force", <<Cdr(R("s"))>>))

SCar(e) == C("stream-car", <<e>>)
SCdr(e) == C("stream-cdr", <<e>>)
SNull(e) == C("stream-null?", <<e>>)
Empty == R("the-empty-stream")

stream_ref ==
  Proc("stream-ref", <<"s", "n">>, "",
    Iff(C("=", <<R("n"), I(0)>>), SCar(R("s")),
        C("stream-ref", <<SCdr(R("s")), Minus1(R("n"))>>)))

stream_map ==
  Proc("stream-map", <<"f">>, "streams",
    Iff(C("any", <<R("stream-null?"), R("streams")>>), Empty,
        Stream(C("apply", <<R("f"), C("map", <<R("stream-car"), R("streams")>>)>>),
               C("apply", <<R("stream-map"), R("f"),
                            C("map", <<R("stream-cdr"), R("streams")>>)>>))))

stream_filter ==
  Proc("stream-filter", <<"pred", "s">>, "", CondX(<<
    Clause("body", SNull(R("s")), Empty),
    Clause("body", C("pred", <<SCar(R("s"))>>),
      Stream(SCar(R("s")), C("stream-filter", <<R("pred"), SCdr(R("s"))>>))),
    Else(C("stream-filter", <<R("pred"), SCdr(R("s"))>>))>>))

stream_for_each ==
  Proc("stream-for-each", <<"f", "s">>, "",
    Iff(C("not", <<SNull(R("s"))>>),
        Seq_(<<C("f", <<SCar(R("s"))>>), C("stream-for-each", <<R("f"), SCdr(R("s"))>>)>>),
        L(Void)))

stream_take ==
  Proc("stream-take", <<"s", "n">>, "",
    Iff(Or(<<C("=", <<R("n"), I(0)>>), SNull(R("s"))>>), Empty,
        Stream(SCar(R("s")), C("stream-take", <<SCdr(R("s")), Minus1(R("n"))>>))))

stream_to_list ==
  Proc("stream->list", <<"s">>, "",
    Iff(SNull(R("s")), Nil, Pair(SCar(R("s")), C("stream->list", <<SCdr(R("s"))>>))))

stream_enumerate_interval ==
  Proc("stream-enumerate-interval", <<"low", "high">>, "",
    Iff(C(">", <<R("low"), R("high")>>), Empty,
        Stream(R("low"), C("stream-enumerate-interval",
                           <<C("+", <<R("low"), I(1)>>), R("high")>>))))
-----------------------------------------------------------------------------
compose ==
  Proc("compose", <<"f", "g">>, "",
    Fn(<<>>, "args", C("f", <<C("apply", <<R("g"), R("args")>>)>>)))

partial ==
  Proc("partial", <<"f">>, "args",
    Fn(<<>>, "rest", C("apply", <<R("f"), C("append", <<R("args"), R("rest")>>)>>)))

curry ==
  Proc("curry", <<"f", "n">>, "", Seq_(<<
    Proc("helper", <<"args">>, "",
      Iff(C(">=", <<C("length", <<R("args")>>), R("n")>>),
          C("apply", <<R("f"), R("args")>>),
          Fn(<<>>, "rest", C("helper", <<C("append", <<R("args"), R("rest")>>)>>)))),
    C("helper", <<Nil>>)>>))

\* top_level runs the forms of the preamble's begin one after the other.
preamble ==
  <<caar, cadr, map, for_each, filter, reduce, fold_right, last_pair, list_tail,
    append, reverse, zip, iota, memq, member, assoc, assv, any, every,
    the_empty_stream, stream_null, stream_car, stream_cdr, stream_ref, stream_map,
    stream_filter, stream_for_each, stream_take, stream_to_list,
    stream_enumerate_interval, compose, partial, curry>>
=============================================================================
