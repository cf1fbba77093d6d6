-------------------------- MODULE LibraryContract --------------------------
(***************************************************************************)
(* What the procedures of the preamble return and in which order they call *)
(* what they are given, said of sequences of numbers.  Each case is a few  *)
(* forms and the value of the last; x collects, newest first, what a       *)
(* procedure has been called with.                                         *)
(***************************************************************************)
EXTENDS Library

CONSTANT Lists      \* the sequences of numbers tried

S == INSTANCE SequencesExt

Lst(vs) == List(vs, Null)
Nums(ns) == Lst([i \in DOMAIN ns |-> Num(ns[i])])
Q(ns) == L(Nums(ns))
Case_(forms, v) == [forms |-> forms, v |-> v]
One(e, v) == Case_(<<e>>, v)

Double == Fn(<<"n">>, "", C("+", <<R("n"), R("n")>>))
Above(n) == Fn(<<"n">>, "", C(">", <<R("n"), I(n)>>))
Note(v) == SetX("x", Pair(v, R("x")))
Noting == Fn(<<"n">>, "", Seq_(<<Note(R("n")), R("n")>>))
NotingBoth == Fn(<<"m", "n">>, "", Note(C("-", <<R("m"), R("n")>>)))
NotingUpTo(k) == Fn(<<"n">>, "", Iff(C(">", <<R("n"), I(k)>>), C("raise", <<R("n")>>), Note(R("n"))))
\* The forms run with x empty, and what x is in the end.
Effects(forms, ns) ==
  Case_(<<Def("x", Nil)>> \o forms \o <<R("x")>>, Nums(S!Reverse(ns)))

Shorter(a, b) == 1 .. IF Len(a) < Len(b) THEN Len(a) ELSE Len(b)
First(is) == CHOOSE i \in is : \A j \in is : i <= j
From(a, i) == SubSeq(a, i, Len(a))

OfLists ==
  UNION {{
    One(C("map", <<Double, Q(a)>>), Nums([i \in DOMAIN a |-> 2 * a[i]])),
    Effects(<<C("map", <<Noting, Q(a)>>)>>, a),
    Effects(<<C("for-each", <<Noting, Q(a)>>)>>, a),
    One(C("filter", <<Above(1), Q(a)>>), Nums(SelectSeq(a, LAMBDA n : n > 1))),
    Effects(<<C("filter", <<Noting, Q(a)>>)>>, a),
    One(C("reduce", <<R("-"), I(0), Q(a)>>), Num(S!FoldLeft(LAMBDA r, n : r - n, 0, a))),
    One(C("fold-right", <<R("-"), I(0), Q(a)>>), Num(S!FoldRight(LAMBDA n, r : n - r, a, 0))),
    One(C("reverse", <<Q(a)>>), Nums(S!Reverse(a))),
    One(C("any", <<Above(2), Q(a)>>), Bool(\E i \in DOMAIN a : a[i] > 2)),
    One(C("every", <<Above(1), Q(a)>>), Bool(\A i \in DOMAIN a : a[i] > 1)),
    One(C("iota", <<I(Len(a)), I(5), I(3)>>), Nums([i \in DOMAIN a |-> 5 + 3 * (i - 1)])),
    One(C("iota", <<I(Len(a)), I(5)>>), Nums([i \in DOMAIN a |-> 4 + i])),
    One(C("iota", <<I(Len(a))>>), Nums([i \in DOMAIN a |-> i - 1])),
    One(C("list-tail", <<C("append", <<Q(<<7>>), Q(a)>>), I(1)>>), Nums(a)),
    One(C("last-pair", <<C("append", <<Q(a), Q(<<7>>)>>)>>), Nums(<<7>>)),
    One(C("memq", <<I(3), Q(a)>>),
        IF \E i \in DOMAIN a : a[i] = 3
        THEN Nums(From(a, First({i \in DOMAIN a : a[i] = 3}))) ELSE Bool(FALSE)),
    One(App(C("partial", <<R("list"), Q(a)>>), <<I(9)>>), Lst(<<Nums(a), Num(9)>>)),
    \* A condition raised half way leaves what came before it done.
    Effects(<<GuardX("c", <<Else(R("c"))>>, C("for-each", <<NotingUpTo(2), Q(a)>>))>>,
            LET over == {i \in DOMAIN a : a[i] > 2}
            IN IF over = {} THEN a ELSE SubSeq(a, 1, First(over) - 1)) } : a \in Lists}

OfTwoLists ==
  UNION {{
    One(C("map", <<R("-"), Q(a), Q(b)>>), Nums([i \in Shorter(a, b) |-> a[i] - b[i]])),
    Effects(<<C("for-each", <<NotingBoth, Q(a), Q(b)>>)>>, [i \in Shorter(a, b) |-> a[i] - b[i]]),
    One(C("zip", <<Q(a), Q(b)>>), Lst([i \in Shorter(a, b) |-> Nums(<<a[i], b[i]>>)])),
    One(C("append", <<Q(a), Q(b), Q(a)>>), Nums(a \o b \o a)),
    One(C("map", <<C("compose", <<R("list"), R("-")>>), Q(a), Q(b)>>),
        Lst([i \in Shorter(a, b) |-> Nums(<<a[i] - b[i]>>)])),
    One(C("member", <<Q(b), C("list", <<Q(a), Q(b), Q(a)>>)>>),
        Lst(IF a = b THEN <<Nums(a), Nums(b), Nums(a)>> ELSE <<Nums(b), Nums(a)>>)) }
    : a \in Lists, b \in Lists}

\* Association lists, and procedures that take their arguments in turns.
Table == L(Lst(<<Nums(<<1, 10>>), Nums(<<2, 20>>), Nums(<<1, 30>>)>>))
OfTables ==
  UNION {{One(C(p, <<I(k), Table>>),
              IF k = 3 THEN Bool(FALSE) ELSE Nums(<<k, 10 * k>>)) : p \in {"assoc", "assv"}} : k \in 1 .. 3}
Curried == C("curry", <<R("list"), I(3)>>)
OfTurns ==
  {One(App(App(App(Curried, <<I(1)>>), <<I(2)>>), <<I(3)>>), Nums(<<1, 2, 3>>)),
   One(App(App(Curried, <<I(1)>>), <<I(2), I(3), I(4)>>), Nums(<<1, 2, 3, 4>>)),
   One(App(App(Curried, <<>>), <<I(1), I(2), I(3)>>), Nums(<<1, 2, 3>>)),
   One(C("append", <<>>), Null)}

\* Streams: of all numbers from one on, and one that fails after its head.
Endless == Proc("from", <<"n">>, "", Stream(R("n"), C("from", <<C("+", <<R("n"), I(1)>>)>>)))
Fails == Stream(I(1), C("raise", <<I(7)>>))
Naturals_ == C("from", <<I(1)>>)
Taken(s, k) == C("stream->list", <<C("stream-take", <<s, I(k)>>)>>)
OnEndless(e, v) == Case_(<<Endless, e>>, v)
Deepest == CHOOSE n \in {Len(a) : a \in Lists} : \A a \in Lists : Len(a) <= n
Interval(n) == C("stream-enumerate-interval", <<I(1), I(n)>>)
Count(n) == [i \in 1 .. n |-> i]

OfStreams ==
  {OnEndless(C("stream-ref", <<Naturals_, I(Deepest)>>), Num(Deepest + 1)),
   OnEndless(C("stream-car", <<C("stream-filter", <<Above(Deepest), Naturals_>>)>>), Num(Deepest + 1)),
   OnEndless(C("stream-ref", <<C("stream-map", <<Double, Naturals_>>), I(3)>>), Num(8)),
   Effects(<<Endless, C("stream-for-each", <<Noting, C("stream-map", <<R("+"), Naturals_, Interval(2)>>)>>)>>,
           <<2, 4>>),
   Effects(<<Endless, C("stream-for-each", <<Noting, C("stream-take", <<Naturals_, I(Deepest)>>)>>)>>,
           Count(Deepest)),
   OnEndless(C("stream-ref", <<C("stream-filter", <<Above(2), Naturals_>>), I(2)>>), Num(5)),
   One(C("stream->list", <<Interval(3)>>), Nums(<<1, 2, 3>>)),
   One(C("stream->list", <<Interval(0)>>), Null),
   Effects(<<C("stream-for-each", <<Noting, Interval(Deepest)>>)>>, Count(Deepest)),
   \* Elements are computed once, and only as far as they are asked for.
   Effects(<<Endless, Def("s", C("stream-map", <<Noting, Naturals_>>)),
             C("stream-ref", <<R("s"), I(3)>>), C("stream-ref", <<R("s"), I(3)>>)>>, Count(4)),
   One(C("stream-car", <<C("stream-map", <<Double, Fails>>)>>), Num(2)),
   One(C("stream-car", <<C("stream-filter", <<Above(0), Fails>>)>>), Num(1)),
   One(C("stream-car", <<C("stream-take", <<Fails, I(1)>>)>>), Num(1)),
   \* stream-take looks at the cell after the last it takes.
   One(GuardX("c", <<Else(R("c"))>>, Taken(Fails, 1)), Num(7))}

Cases == OfLists \cup OfTwoLists \cup OfTables \cup OfTurns \cup OfStreams
LibraryPrograms == {preamble \o c.forms : c \in Cases}

\* README, "Standard library" and "Promises and streams", tests/test_preamble.scm:
\* on lists longer than the limit of recursion, and on endless streams, the
\* procedures written in Scheme come to what they are for, call what they are
\* given once for each element in the order of the list, also up to one that
\* raises, and compute of a stream what is asked for, once.
LibraryIsRight ==
  (stack = <<>> /\ left = <<>> /\ Len(source) > Len(preamble)) =>
    \A c \in Cases :
      From(source, Len(preamble) + 1) = c.forms => results[Len(results)] = c.v
=============================================================================
