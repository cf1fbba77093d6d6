----------------------------- MODULE MCSession ------------------------------
\* A small instance of Session for TLC: a few programs that between them
\* load, nest, fail at every level and run out of depth.
EXTENDS Session, TLC

CONSTANTS self, lib, missing, half, calm, thrower, meddler, panicker

display == [op |-> "display"]
raise == [op |-> "raise"]
exit == [op |-> "exit"]
load(f) == [op |-> "load", file |-> f]
Plain(ops, v) == [ops |-> ops, guard |-> "none", value |-> v]
Guard(ops, g) == [ops |-> ops, guard |-> g, value |-> "some"]
Text(forms, tail) == [forms |-> forms, tail |-> tail]

MCFiles ==
  [f \in {self, lib, missing, half} |->
     CASE f = self -> Text(<<Plain(<<display, load(self)>>, "void")>>, "end")
       [] f = lib -> Text(<<Plain(<<>>, "some"), Guard(<<display>>, "else")>>, "end")
       [] f = half -> Text(<<Plain(<<display>>, "some")>>, "open")
       [] f = missing -> Absent]

MCPreamble == Text(<<Plain(<<>>, "void"), Plain(<<>>, "some")>>, "end")

MCForms == {Plain(<<>>, "some"), Plain(<<display>>, "void"),
            Plain(<<display, load(lib)>>, "some"),
            Plain(<<display, exit>>, "void"),
            Guard(<<load(half), display>>, "else"),
            Guard(<<load(self)>>, "else"),
            Guard(<<display, load(missing)>>, "miss"),
            Guard(<<load(lib), raise>>, "else")}
\* Every form: with a form after it, before an open list, or after another form
\* and before what cannot be read.
MCSources ==
  LET first == {Plain(<<>>, "some"), Plain(<<display, exit>>, "void")}
      alone == {Plain(<<display, load(lib)>>, "some"), Guard(<<load(self)>>, "else")}
  IN  {Text(<<f, Plain(<<>>, "some")>>, "end") : f \in first}
        \cup {Text(<<f>>, "open") : f \in alone}
        \cup {Text(<<Plain(<<display>>, "some"), f>>, "bad") : f \in MCForms \ (first \cup alone)}

MCBehaviour == [e \in {calm, thrower, meddler, panicker} |->
                  CASE e = calm -> "return" [] e = thrower -> "throw"
                    [] e = meddler -> "reenter" [] e = panicker -> "reenter-throw"]
=============================================================================
