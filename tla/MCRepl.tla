------------------------------- MODULE MCRepl -------------------------------
\* Repl with the reader of Reader, for TLC: lines that leave every kind of
\* token and datum unfinished, finish them, or fail.
EXTENDS Repl, Writer

a == <<"a">>
fail == Symbol(<<"fail">>)
exit == Symbol(<<"exit">>)
MCFailing == {fail}
MCExiting == {exit}

MCLines == {
  <<>>, a, <<")">>, <<"(", "a">>, <<"(", "[", "a", "]">>, <<"(", "a", " ", ".", " ", "a">>, <<"a", " ", ".", "'">>,
  <<"a", "\"", "\\", "n">>, <<"\"", " ", "a">>, <<"#", "|", "(">>, <<"|", "#", "a", "|", "#">>,
  <<"a", ";", ")">>, <<"#", "(", ",", "@">>, <<"#", "\\", "(", "space">>, <<"#", "\\", "space", ")">>,
  <<"]", "fail">>, <<"a", ")", "exit">>, <<"#", "t", "#", "\\">>, <<"\"", "\\">>}

MCTexts == {
  <<>>, <<"a", "\n", "(", "a", ")">>, <<"(", "a", "\n", "a">>, <<"a", "(", "a", "]">>,
  <<"a", " ", "fail", " ", "a">>, <<"a", " ", "exit", "(">>, <<"#", "|", "#", "|", "a", "|", "#">>,
  <<"(", "'", "(", "a", "(", ")", ")", ")">>, <<"#", "\\", "\n", "a">>, <<"(", "a", ".", ")">>,
  <<"#", "(", "a", ".", "a", ")">>, <<"\"", "\\", "\\", "\"">>, <<Backtick, "(", "a", ",", "@", "a", ")">>}
Invoked(i, named, tty, text) ==
  [interactive |-> i, named |-> named, tty |-> tty, text |-> text]
Characters == {"(", ")", "]", "'", ",", "@", ".", "\"", "\\", "#", "|", "a", " "}
ShortTexts == UNION {[1 .. n -> Characters] : n \in 1 .. 3}
\* Every text as a file and from a pipe; -i after both; the prompt alone; and
\* every short text as a file.
MCInvocations ==
  {Invoked(FALSE, named, named, text) : named \in BOOLEAN, text \in MCTexts}
  \cup {Invoked(FALSE, TRUE, TRUE, text) : text \in ShortTexts}
  \cup {Invoked(TRUE, TRUE, TRUE, <<"fail">>), Invoked(TRUE, TRUE, TRUE, <<"(", ")">>),
        Invoked(TRUE, FALSE, FALSE, <<"a">>), Invoked(TRUE, TRUE, TRUE, NoText),
        Invoked(FALSE, FALSE, TRUE, NoText)}
MCNewline == "\n"
MCChar == Characters \cup {"[", "fail", "exit", "t", "n", ";", "space", "\n", Backtick}
-----------------------------------------------------------------------------
\* The laws of reading, of texts and lines short enough to try them all.
ASSUME ShortReaderLaws ==
  \A text \in ShortTexts \cup MCTexts \cup MCLines :
    EndsInside(text) /\ \A line \in MCLines : LineBehind(text, line)

\* What closes a comment, a string, lists and vectors.
Closers ==
  {comments \o string \o datum \o brackets :
     comments \in {FlattenSeq([i \in 1 .. n |-> <<"|", "#">>]) : n \in 0 .. MaxLines}, string \in {<<>>, <<"\"">>},
     datum \in {<<>>, <<"a">>}, brackets \in UNION {[1 .. n -> {")", "]"}] : n \in 0 .. MaxNesting}}

\* The prompt never asks for more in vain: some line completes the datum it
\* holds (src/reader.cpp:58-71), or an open string hides a mistake, a bad
\* escape or no place for a string, and closing it brings that to light.
NeverWaitsInVain ==
  pc = "prompt" /\ incomplete =>
    \/ \E closer \in Closers : read_one(input \o <<"\n">> \o closer).is = "datum"
    \/ read_one(input \o <<"\n", "\"">>).is = "error"

\* What write shows of a datum reads as that datum (src/types.cpp:354-403).
ReadsWhatItWrites ==
  \A i \in DOMAIN ran :
    LET text == Shown(ran[i].v) IN read_one(text) = Read(ran[i].v, Len(text) + 1)
=============================================================================
