-------------------------- MODULE SessionContract ---------------------------
(***************************************************************************)
(* What scheme::Session promises its host, without a stack, flags, depth   *)
(* counter or exceptions in flight: every call is one step, and what comes *)
(* out of it (the events, what is thrown, what run returns) is a function  *)
(* of the call alone.  What a program means is put together from what its  *)
(* forms and the builtins they call mean.                                  *)
(***************************************************************************)
EXTENDS Integers, Sequences

CONSTANTS Sources, Files, Absent, Emitters, Behaviour, MaxDepth, MaxCalls

VARIABLE history

\* What some piece of program does: its events, what it throws, its value.
Effect(ev, exc, value) == [events |-> ev, exc |-> exc, value |-> value]
Quiet == Effect(<<>>, "none", "void")
Then(a, b) == IF a.exc = "none" THEN [b EXCEPT !.events = a.events \o @] ELSE a

\* A callback that throws ends the call at the first event it is given.
Event(kind, e) ==
  Effect(<<kind>>,
         IF Behaviour[e] \in {"throw", "reenter-throw"} THEN "host" ELSE "none",
         "void")

Guarded(form, body) ==
  IF body.exc = "scheme" /\ form.guard = "else"
  THEN Effect(body.events, "none", "void") ELSE body

Failure == Effect(<<>>, "scheme", "void")

\* The effects of s from the i-th on, up to the first that throws.
InOrder(s, i) ==
  LET last[j \in 0 .. Len(s)] ==         \* the last j of them
        IF j = 0 THEN Quiet ELSE Then(s[Len(s) - j + 1], last[j - 1])
  IN IF i > Len(s) THEN Quiet ELSE last[Len(s) - i + 1]

(***************************************************************************)
(* n is the number of evaluations that may still nest, and loads[n][f]     *)
(* what loading the file f comes to where n may.                           *)
(***************************************************************************)
MOp(op, n, e, loads) ==
  CASE op.op = "display" -> Event("output", e)
    [] op.op = "raise" -> Failure
    [] op.op = "exit" -> Effect(<<>>, "exit", "void")
    [] op.op = "load" -> loads[n][op.file]
MOps(ops, i, n, e, loads) == InOrder([k \in DOMAIN ops |-> MOp(ops[k], n, e, loads)], i)

MBody(form, n, e, loads) ==
  IF n = 0 THEN Failure
  ELSE Then(MOps(form.ops, 1, n - 1, e, loads), Effect(<<>>, "none", form.value))
MForm(form, n, e, loads) ==
  IF form.guard = "none" \/ n = 0 THEN MBody(form, n, e, loads)
  ELSE Guarded(form, MBody(form, n - 1, e, loads))

\* The value of a form is reported only when no evaluation surrounds the run.
Echoed(value, n, e) ==
  IF n = MaxDepth /\ value = "some" THEN Event("result", e) ELSE Quiet
MForms(forms, i, n, e, loads) ==
  InOrder([k \in DOMAIN forms |-> LET m == MForm(forms[k], n, e, loads)
                                  IN Then(m, Echoed(m.value, n, e))], i)
MEnd(src, strict) ==
  IF src.tail = "bad" \/ (src.tail = "open" /\ strict) THEN Failure ELSE Quiet

\* The forms of src from the i-th on.
MRun(src, i, strict, n, e, loads) ==
  Then(MForms(src.forms, i, n, e, loads), MEnd(src, strict))

Loads(e) ==
  LET loads[n \in 0 .. MaxDepth] ==
        [f \in DOMAIN Files |-> IF Files[f] = Absent THEN Failure
                                ELSE MRun(Files[f], 1, TRUE, n, e, loads)]
  IN loads

Outcome(op, src, e) ==
  LET m == MRun(src, 1, op = "execute", MaxDepth, e, Loads(e))
  IN [op |-> op, source |-> src, emitter |-> e,
      events |-> m.events, thrown |-> m.exc,
      result |-> IF m.exc = "none" /\ op = "run"
                 THEN [consumed |-> Len(src.forms), incomplete |-> src.tail = "open"]
                 ELSE [consumed |-> 0, incomplete |-> FALSE]]

Init == history = <<>>
Next == /\ Len(history) < MaxCalls
        /\ \E op \in {"run", "execute"}, src \in Sources, e \in Emitters :
             history' = Append(history, Outcome(op, src, e))
Spec == Init /\ [][Next]_history
=============================================================================
