------------------------------- MODULE Writer -------------------------------
(***************************************************************************)
(* Writing data (render in src/types.cpp), the inverse of reading them.    *)
(***************************************************************************)
EXTENDS Reader

\* Only what would end the string is escaped.
BugEscaped(c) == IF c = DoubleQuote THEN <<Backslash, c>> ELSE <<c>>
Escaped(c) == IF c \in DOMAIN Escape THEN <<Backslash, Escape[c]>> ELSE <<c>>

RECURSIVE Shown(_)
join_elems(elements) == FlattenSeq(
  [i \in DOMAIN elements |-> (IF i = 1 THEN <<>> ELSE <<Blank>>) \o Shown(elements[i])])

\* Obj::to_write, without its loss of the difference between #t and #T.
Shown(v) ==
  CASE v.is = "symbol" -> v.text
    [] v.is = "bool" -> <<"#", v.c>>
    [] v.is = "char" -> <<"#", Backslash, IF v.c \in Space THEN Name[v.c] ELSE v.c>>
    [] v.is = "string" -> <<DoubleQuote>> \o FlattenSeq([i \in DOMAIN v.cs |-> Escaped(v.cs[i])]) \o <<DoubleQuote>>
    [] v.is = "pair" ->
         <<"(">> \o join_elems(v.elements)
         \o (IF v.tail = Nil THEN <<>> ELSE <<Blank, ".", Blank>> \o Shown(v.tail)) \o <<")">>
    [] v.is = "vector" -> <<"#", "(">> \o join_elems(v.elements) \o <<")">>
    [] v.is = "null" -> <<"(", ")">>
=============================================================================
