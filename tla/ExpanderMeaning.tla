-------------------------- MODULE ExpanderMeaning ---------------------------
(***************************************************************************)
(* What Expander computes, told without stack, depth or limits.  A program *)
(* is a worklist of forms.  The form at its head is expanded until it is   *)
(* not a macro use; a begin is replaced by its forms, so that every form   *)
(* sees what those before it defined; anything else is parsed completely,  *)
(* its parts from left to right, and then evaluated.                       *)
(*                                                                         *)
(* A state holds the tables, the log, the value computed last and whether  *)
(* an error was raised, and is passed from one piece to the next.          *)
(***************************************************************************)
EXTENDS Expander

Value(s, v) == [s EXCEPT !.val = v]
Failed(s) == [s EXCEPT !.exc = "error"]
Bad(s) == s.exc # "none"

RECURSIVE MTop(_, _), MList(_, _, _), MTopExpanded(_), MBegin(_, _),
          MParse(_, _), MParsed(_), MParts(_, _, _, _), MEval(_, _),
          MEach(_, _, _), MDefineMacro(_, _)

\* The worklist, and the value of the form done last.
MList(work, v, s) ==
  IF Bad(s) THEN s
  ELSE IF work = <<>> THEN Value(s, v)
  ELSE IF Head(work).is = "begin" /\ Head(work).forms # <<>>
       THEN MList(Head(work).forms \o Tail(work), v, s)
  ELSE IF Head(work).is = "use" /\ s.macros[Head(work).name] # Unbound
       THEN MBegin(Tail(work), MEval(s.macros[Head(work).name], s))
  ELSE LET after == MTop(Head(work), s) IN MList(Tail(work), after.val, after)

\* The macro at the head of the worklist gave a form to put there.
MBegin(rest, s) == IF Bad(s) THEN s ELSE MList(<<s.val>> \o rest, Void, s)

\* A form that is neither a macro use nor a begin of some forms.
MTop(x, s) ==
  CASE x.is = "defmacro" -> MDefineMacro(x.name, MParse(x.body, s))
    [] x.is = "alias" -> IF s.procs[x.procedure] = Unbound THEN Failed(s)
                         ELSE MDefineMacro(x.name, Value(s, s.procs[x.procedure]))
    [] OTHER -> MTopExpanded(MParse(x, s))
MTopExpanded(s) == IF Bad(s) THEN s ELSE MEval(s.val, s)
MDefineMacro(n, s) ==
  IF Bad(s) THEN s ELSE Value([s EXCEPT !.macros[n] = s.val], Void)

\* The code of a form.
MParse(x, s) ==
  CASE x.is = "use" -> IF s.macros[x.name] # Unbound
                       THEN MParsed(MEval(s.macros[x.name], s))
                       ELSE Value(s, Apply(x.name))
    [] x.is \in {"defmacro", "alias"} -> Failed(s)
    [] x.is \in Compound -> MParts(x, 1, <<>>, s)
    [] OTHER -> Value(s, x)
MParsed(s) == IF Bad(s) THEN s ELSE MParse(s.val, s)
MParts(x, i, got, s) ==
  IF Bad(s) THEN s
  ELSE IF i > Len(x.forms) THEN Value(s, Node(x, got))
  ELSE LET part == MParse(x.forms[i], s) IN MParts(x, i + 1, Append(got, part.val), part)

\* The value of code.
MEval(x, s) ==
  CASE x.is = "void" -> Value(s, Void)
    [] x.is = "quote" -> Value(s, x.form)
    [] x.is = "show" -> Value([s EXCEPT !.log = Append(@, x.tag)], Void)
    [] x.is = "raise" -> Failed(s)
    [] x.is = "apply" -> IF s.procs[x.name] = Unbound THEN Failed(s)
                         ELSE MEval(s.procs[x.name], s)
    [] x.is = "define" -> Value([s EXCEPT !.procs[x.name] = x.forms[1]], Void)
    [] x.is = "begin" -> MEach(x.forms, 1, s)
    [] x.is = "call" -> LET after == MEach(x.forms, 1, s)
                        IN IF Bad(after) THEN after ELSE Value(after, Void)
    [] x.is = "eval" -> LET datum == MEval(x.forms[1], s)
                        IN IF Bad(datum) THEN datum ELSE MList(<<datum.val>>, Void, datum)
MEach(xs, i, s) ==
  IF Bad(s) \/ i > Len(xs) THEN s ELSE MEach(xs, i + 1, MEval(xs[i], s))

\* A program: an error ends its form only.
RECURSIVE MProgram(_, _, _)
MProgram(i, s, ends) ==
  IF i > Len(program)
  THEN [macros |-> s.macros, procs |-> s.procs, log |-> s.log, outcomes |-> ends]
  ELSE LET after == MList(<<program[i]>>, Void, s)
       IN MProgram(i + 1, [after EXCEPT !.exc = "none"],
                   Append(ends, IF Bad(after) THEN "error" ELSE "ok"))
Start == [macros |-> [n \in Names |-> Unbound], procs |-> [n \in Names |-> Unbound],
          log |-> <<>>, val |-> Void, exc |-> "none"]

(***************************************************************************)
(* A program that met no limit has done what it means: the macros and      *)
(* procedures it leaves, what it displayed and in which order, which of    *)
(* its forms failed (Parser::top_level, Parser::parse, Ctx::eval).         *)
(***************************************************************************)
Unlimited == \A i \in DOMAIN outcomes : outcomes[i] # "deep"
ComputesMeaning ==
  Over /\ Unlimited =>
    [macros |-> macros, procs |-> procs, log |-> log, outcomes |-> outcomes]
      = MProgram(1, Start, <<>>)
=============================================================================
