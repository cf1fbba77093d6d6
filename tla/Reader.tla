------------------------------- MODULE Reader -------------------------------
(***************************************************************************)
(* Reading (src/lexer.cpp, src/reader.cpp).  A text is a sequence of       *)
(* characters.  One character stands for a class where the code does not   *)
(* tell its members apart: "a" and other words for what symbols are made   *)
(* of, " " for blanks but the newline, and the words "space" and "newline" *)
(* count as one.  Numerals are left to Numbers.                            *)
(* What is recursive in the code is a recursive function of the position   *)
(* in a text t, 1 .. Len(t) + 1.                                           *)
(***************************************************************************)
EXTENDS Integers, Sequences, FiniteSetsExt, SequencesExt

CONSTANT MaxNesting     \* max_depth: the DepthGuards read_datum may nest

ASSUME NestingAssumption == MaxNesting \in Nat
-----------------------------------------------------------------------------
\* Data.
Symbol(text) == [is |-> "symbol", text |-> text]
Truth(c) == [is |-> "bool", c |-> c]
Character(c) == [is |-> "char", c |-> c]
Text(cs) == [is |-> "string", cs |-> cs]
Vector(elements) == [is |-> "vector", elements |-> elements]
Nil == [is |-> "null"]
Invalid == [is |-> "invalid"]     \* what an invalid lexeme stands for
list_from(elements, tail) ==
  IF elements = <<>> THEN tail
  ELSE IF tail.is = "pair"
       THEN [is |-> "pair", elements |-> elements \o tail.elements, tail |-> tail.tail]
       ELSE [is |-> "pair", elements |-> elements, tail |-> tail]

LineEnd == "\n"
Blank == " "
DoubleQuote == "\""
Backslash == "\\"
Semicolon == ";"
Comma == ","
Bar == "|"
Backtick == "backtick"
Space == {Blank, LineEnd}
Special == {"(", ")", "[", "]", "'", Backtick, Comma, DoubleQuote, Semicolon, "#"}
Boundaries == Space \cup Special
Escape == [c \in {LineEnd, DoubleQuote, Backslash} |-> IF c = LineEnd THEN "n" ELSE c]
Name == [c \in Space |-> IF c = Blank THEN "space" ELSE "newline"]

\* What reading comes to: a datum or a token and the position after it, or
\* the exceptions Incomplete and SchemeError, or the end of the text.
Read(v, to) == [is |-> "datum", v |-> v, to |-> to]
Token(type, v, to) == [is |-> "token", type |-> type, v |-> v, to |-> to]
Incomplete == [is |-> "incomplete"]
Fail == [is |-> "error"]
End == [is |-> "end"]
-----------------------------------------------------------------------------
\* The first position from i on with a character of S.
Upto(t, i, S) == Min({Len(t) + 1} \cup {j \in i .. Len(t) : t[j] \in S})
AtWord(t, i, a, b) == i < Len(t) /\ t[i] = a /\ t[i + 1] = b
at_boundary(t, i) == i > Len(t) \/ t[i] \in Boundaries

\* Behind blanks and comments, d block comments being open at i; 0 inside a
\* comment that is not closed.  skipping is that for the positions behind i.
skip(t, skipping, i, d) ==
  CASE i > Len(t) -> IF d = 0 THEN i ELSE 0
    [] AtWord(t, i, "#", Bar) -> skipping[i + 2][d + 1]
    [] AtWord(t, i, Bar, "#") /\ d > 0 -> skipping[i + 2][d - 1]
    [] i <= Len(t) /\ t[i] = Semicolon /\ d = 0 -> skipping[Upto(t, i, {LineEnd})][d]
    [] OTHER -> IF d > 0 \/ t[i] \in Space THEN skipping[i + 1][d] ELSE i
Skipping(t) ==
  LET skipping[i \in 1 .. Len(t) + 1] == [d \in Nat |-> skip(t, skipping, i, d)] IN skipping
Skip(t, i) == Skipping(t)[i][0]

\* Where the string that i is inside of is closed; 0 if it is not.
StringEnd(t, i) ==
  LET end[j \in 1 .. Len(t) + 2] ==
        IF j > Len(t) THEN 0
        ELSE IF t[j] = DoubleQuote THEN j
        ELSE end[IF t[j] = Backslash THEN j + 2 ELSE j + 1]
  IN end[i]

\* process_escapes; BadEscape is no character.
BadEscape == "bad_escape"
Decode(c) == IF \E d \in DOMAIN Escape : Escape[d] = c
             THEN CHOOSE d \in DOMAIN Escape : Escape[d] = c ELSE BadEscape
Decoded(raw) ==
  LET from[i \in 1 .. Len(raw) + 1] ==
        IF i > Len(raw) THEN <<>>
        ELSE IF raw[i] = Backslash THEN <<Decode(raw[i + 1])>> \o from[i + 2]
        ELSE <<raw[i]>> \o from[i + 1]
  IN from[1]

Atom(v, to) == Token("atom", v, to)
StringAtom(cs, to) == Atom(IF BadEscape \in ToSet(cs) THEN Invalid ELSE Text(cs), to)
StringUpto(t, i, e) ==
  IF e = 0 THEN Incomplete ELSE StringAtom(Decoded(SubSeq(t, i, e - 1)), e + 1)
string_token(t, i) == StringUpto(t, i, StringEnd(t, i))

\* read_char, of the name behind #\.
read_char(name) ==
  IF \E c \in Space : <<Name[c]>> = name
  THEN Character(CHOOSE c \in Space : <<Name[c]>> = name)
  ELSE IF Len(name) = 1 THEN Character(name[1]) ELSE Invalid

CharAtom(t, i, to) == Atom(read_char(SubSeq(t, i, to - 1)), to)
\* One character of any kind, then up to a boundary.
char_token(t, i) == IF i > Len(t) THEN Fail ELSE CharAtom(t, i, Upto(t, i + 1, Boundaries))

hash_token(t, i) ==
  CASE i <= Len(t) /\ t[i] \in {"t", "f"} /\ at_boundary(t, i + 1) -> Atom(Truth(t[i]), i + 1)
    [] i <= Len(t) /\ t[i] = "(" -> Token("vector", ")", i + 1)
    [] i <= Len(t) /\ t[i] = Backslash -> char_token(t, i + 1)
    [] OTHER -> Fail

\* The lexeme ".." is a numeral without a digit.
WordAtom(text, to) == Atom(IF text = <<".", ".">> THEN Invalid ELSE Symbol(text), to)
WordUpto(t, i, to) == WordAtom(SubSeq(t, i, to - 1), to)
symbol_token(t, i) == WordUpto(t, i, Upto(t, i, Boundaries))

Quote == [c \in {"'", Backtick, Comma} |->
            CASE c = "'" -> "quote" [] c = Backtick -> "quasiquote" [] c = Comma -> "unquote"]

next_token(t, i, c) ==
  CASE c \in {"(", "["} -> Token("list", IF c = "(" THEN ")" ELSE "]", i + 1)
    [] c \in {")", "]"} -> Token("close", c, i + 1)
    [] AtWord(t, i, Comma, "@") -> Token("quote", "unquote-splicing", i + 2)
    [] c \in DOMAIN Quote /\ ~AtWord(t, i, Comma, "@") -> Token("quote", Quote[c], i + 1)
    [] c = "." /\ at_boundary(t, i + 1) -> Token("dot", c, i + 1)
    [] c = "#" -> hash_token(t, i + 1)
    [] c = DoubleQuote -> string_token(t, i + 1)
    [] OTHER -> symbol_token(t, i)

\* The token at i; without one the text is at its end, unless none may be.
TokenAt(t, i, end) ==
  IF i = 0 THEN Incomplete ELSE IF i > Len(t) THEN end ELSE next_token(t, i, t[i])
next(t, i) == TokenAt(t, Skip(t, i), End)
\* peek where a token has to follow.
peek(t, i) == TokenAt(t, Skip(t, i), Incomplete)

\* A bracket of the wrong kind might still be followed by the right one.
BugMatchClosing(k, expected) ==
  CASE k.is # "token" -> k
    [] k.is = "token" /\ k.type = "close" -> IF k.v = expected THEN k ELSE Incomplete
    [] OTHER -> End

\* match_closing: the bracket, an exception, or End where something else is.
match_closing(k, expected) ==
  CASE k.is # "token" -> k
    [] k.is = "token" /\ k.type = "close" -> IF k.v = expected THEN k ELSE Fail
    [] OTHER -> End

(***************************************************************************)
(* read_datum and the loops of read_list and read_vector, inside d others. *)
(* What reading comes to from a position on is reads[i].datum[d], and for  *)
(* what a list or a vector still has from there on, reads[i].rest[x].      *)
(***************************************************************************)
Rests == [d : 0 .. MaxNesting, type : {"list", "vector"}, closing : {")", "]"},
          empty : BOOLEAN]     \* no element has been read
RestOf(d, k) == [d |-> d, type |-> k.type, closing |-> k.v, empty |-> TRUE]

read_quoted(name, e) ==
  IF e.is # "datum" THEN e ELSE Read(list_from(<<Symbol(<<name>>), e.v>>, Nil), e.to)

\* The datum whose first token is k, its own DepthGuard being one of d.
DatumFrom(reads, d, k) ==
  CASE k.is # "token" -> k
    [] k.is = "token" /\ k.type = "atom" -> IF k.v = Invalid THEN Fail ELSE Read(k.v, k.to)
    [] k.is = "token" /\ k.type \in {"list", "vector"} -> reads[k.to].rest[RestOf(d, k)]
    [] k.is = "token" /\ k.type \in {"close", "dot"} -> Fail
    [] k.is = "token" /\ k.type = "quote" -> read_quoted(k.v, reads[k.to].datum[d])
Guarded(reads, d, k) == IF d >= MaxNesting THEN Fail ELSE DatumFrom(reads, d + 1, k)

\* The element e and what follows it.
WithRest(x, v, rest) ==
  IF rest.is # "datum" THEN rest
  ELSE Read(IF x.type = "list" THEN list_from(<<v>>, rest.v)
                               ELSE Vector(<<v>> \o rest.v.elements), rest.to)
WithElement(reads, x, e) ==
  IF e.is # "datum" THEN e
  ELSE WithRest(x, e.v, reads[e.to].rest[[x EXCEPT !.empty = FALSE]])

\* The datum behind the dot, and require_closing.
CloseDotted(tail, closing) ==
  CASE closing = End -> Fail
    [] closing.is \in {"incomplete", "error"} -> closing
    [] OTHER -> Read(tail, closing.to)
WithTail(t, x, tail) ==
  IF tail.is # "datum" THEN tail
  ELSE CloseDotted(tail.v, match_closing(peek(t, tail.to), x.closing))

RestFrom(t, reads, x, k, closing) ==
  CASE closing.is = "token" -> Read(IF x.type = "list" THEN Nil ELSE Vector(<<>>), closing.to)
    [] closing.is \in {"incomplete", "error"} -> closing
    [] OTHER ->
         IF k.type # "dot" \/ x.type = "vector"
         THEN WithElement(reads, x, Guarded(reads, x.d, k))
         ELSE IF x.empty THEN Fail ELSE WithTail(t, x, reads[k.to].datum[x.d])

Row(t, reads, k) ==
  [datum |-> [d \in 0 .. MaxNesting |-> Guarded(reads, d, k)],
   rest |-> [x \in Rests |-> RestFrom(t, reads, x, k, match_closing(k, x.closing))]]
Reads(t) == LET reads[i \in 1 .. Len(t) + 1] == Row(t, reads, peek(t, i)) IN reads

\* read_one, of the whole text.
OneFrom(t, k) == IF k.is = "token" THEN Reads(t)[1].datum[0] ELSE k
read_one(t) == OneFrom(t, next(t, 1))
=============================================================================
