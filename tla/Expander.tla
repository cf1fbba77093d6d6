------------------------------ MODULE Expander ------------------------------
(***************************************************************************)
(* From a datum to its value (src/parser.cpp, Ctx::eval of src/ctx.cpp):   *)
(* expand_head and top_level, which interleave expansion with evaluation,  *)
(* parse, which expands what it meets further down, define_macro, and the  *)
(* eval builtin, through which an expander starts all of it again.         *)
(*                                                                         *)
(* Forms are records.  Macros and procedures take no arguments: a use is   *)
(* (name), and is a macro's if name is in the macro table when it is       *)
(* parsed.  Parsed code has the same shape, its uses are "apply".  The C++ *)
(* stack is explicit: parse and eval frames hold a DepthGuard, top and seq *)
(* frames do not.                                                          *)
(***************************************************************************)
EXTENDS Integers, Sequences, FiniteSets

CONSTANTS
  Programs,       \* the sequences of top-level forms to run
  Names,          \* of macros and procedures
  MaxDepth,       \* max_depth, 1000 in the code
  MaxExpansions,  \* max_macro_expansions, 1000 in the code
  StackSize       \* the frames the C++ stack has room for

\* The forms, and the values: an expander's value is the form it stands for.
Void == [is |-> "void"]
Quote(f) == [is |-> "quote", form |-> f]
Show(tag) == [is |-> "show", tag |-> tag]          \* (display 'tag)
Raise == [is |-> "raise"]                          \* (raise 'x)
Use(n) == [is |-> "use", name |-> n]               \* (n)
Begin(fs) == [is |-> "begin", forms |-> fs]
Call(fs) == [is |-> "call", forms |-> fs]          \* (list f ...)
Eval(f) == [is |-> "eval", forms |-> <<f>>]        \* (eval f)
Define(n, f) == [is |-> "define", name |-> n, forms |-> <<f>>]
DefMacro(n, f) == [is |-> "defmacro", name |-> n, body |-> f]
Alias(n, p) == [is |-> "alias", name |-> n, procedure |-> p]
\* Parsed code only.
Apply(n) == [is |-> "apply", name |-> n]

\* What a name is bound to in a table before it is defined.
Unbound == [is |-> "unbound"]

ASSUME ExpanderAssumption ==
  /\ MaxDepth \in Nat /\ MaxExpansions \in Nat /\ StackSize \in Nat
  /\ \A p \in Programs : Len(p) \in Nat

VARIABLES
  program, pc,   \* the forms to run, how many have been started
  macros,        \* Ctx::macros: the code of each macro
  procs,         \* the global bindings of procedures
  stack,         \* the C++ frames, innermost last
  ret,           \* <<what the call made last returned>>, <<>> before it does
  exc,           \* "none", an "error", a limit ("deep"), or "crashed"
  depth,         \* Ctx::depth
  log,           \* what has been displayed
  outcomes       \* how the forms that are over ended

vars == <<program, pc, macros, procs, stack, ret, exc, depth, log, outcomes>>
tables == <<macros, procs, log>>
progress == <<program, pc, outcomes>>

Frame(f, x) == [f |-> f, x |-> x, at |-> "start", i |-> 0, got |-> <<>>]
Guards == {"parse", "eval"}
Top == stack[Len(stack)]
Rest == SubSeq(stack, 1, Len(stack) - 1)
In(f, at) == stack # <<>> /\ exc = "none" /\ Top.f = f /\ Top.at = at

Init ==
  /\ program \in Programs /\ pc = 0
  /\ macros = [n \in Names |-> Unbound] /\ procs = [n \in Names |-> Unbound]
  /\ stack = <<>> /\ ret = <<>> /\ exc = "none" /\ depth = 0
  /\ log = <<>> /\ outcomes = <<>>
-----------------------------------------------------------------------------
Throw(kind) ==
  /\ exc' = kind
  /\ UNCHANGED <<stack, ret, depth, tables, progress>>

\* One level of recursion into what is known to return at once.
NoLevel == depth >= MaxDepth

\* The frame at the top becomes fr and calls callee, whose DepthGuard throws
\* when the budget is spent; without one, nothing notices the stack's end.
CallFrom(fr, callee) ==
  IF callee.f \in Guards /\ NoLevel
  THEN Throw("deep")
  ELSE IF Len(stack) >= StackSize
  THEN Throw("crashed")
  ELSE /\ stack' = Append(Append(Rest, fr), callee)
       /\ depth' = IF callee.f \in Guards THEN depth + 1 ELSE depth
       /\ ret' = <<>>
       /\ UNCHANGED <<exc, tables, progress>>

\* The frame at the top goes on as fr.
Become(fr) ==
  /\ stack' = Append(Rest, fr) /\ ret' = <<>>
  /\ UNCHANGED <<exc, depth, progress>>

\* Bug: every frame gives back a level.
BugReturn(v) ==
  /\ stack' = Rest /\ ret' = <<v>>
  /\ depth' = depth - 1
  /\ UNCHANGED <<exc, progress>>

Return(v) ==
  /\ stack' = Rest /\ ret' = <<v>>
  /\ depth' = IF Top.f \in Guards THEN depth - 1 ELSE depth
  /\ UNCHANGED <<exc, progress>>

IsMacroUse(x) == x.is = "use" /\ macros[x.name] # Unbound

(***************************************************************************)
(* Parser::top_level, which first expands the head of its datum.  The test *)
(* of the loop comes before the look at the form.                          *)
(***************************************************************************)
ExpandHead ==
  /\ In("top", "start") /\ Top.i < MaxExpansions /\ IsMacroUse(Top.x)
  /\ CallFrom([Top EXCEPT !.at = "expanding"], Frame("eval", macros[Top.x.name]))

\* Bug: the expansions of a head are not counted.
BugHeadExpanded ==
  /\ In("top", "expanding") /\ ret # <<>>
  /\ Become([Frame("top", ret[1]) EXCEPT !.i = Top.i])
  /\ UNCHANGED tables

HeadExpanded ==
  /\ In("top", "expanding") /\ ret # <<>>
  /\ Become([Frame("top", ret[1]) EXCEPT !.i = Top.i + 1])
  /\ UNCHANGED tables

TooManyExpansions ==
  /\ In("top", "start") /\ Top.i = MaxExpansions
  /\ Throw("deep")

Expanded(kinds) == /\ In("top", "start") /\ Top.i < MaxExpansions
                   /\ ~IsMacroUse(Top.x) /\ Top.x.is \in kinds

\* Bug: a begin is parsed as a whole before any of it is evaluated.
BugTopBegin ==
  /\ Expanded({"begin"})
  /\ CallFrom([Top EXCEPT !.at = "parsing"], Frame("parse", Top.x))

\* The forms of a begin at top level are at top level.
TopBegin ==
  /\ Expanded({"begin"})
  /\ Become(Frame("seq", Top.x.forms))
  /\ UNCHANGED tables

NextInBegin ==
  /\ In("seq", "start") /\ Top.i < Len(Top.x)
  /\ CallFrom([Top EXCEPT !.i = @ + 1], Frame("top", Top.x[Top.i + 1]))

EndBegin ==
  /\ In("seq", "start") /\ Top.i = Len(Top.x)
  /\ Return(IF ret = <<>> THEN Void ELSE ret[1])
  /\ UNCHANGED tables

\* (define-macro (name) body): the body is parsed now.
TopDefineMacro ==
  /\ Expanded({"defmacro"})
  /\ CallFrom([Top EXCEPT !.at = "body"], Frame("parse", Top.x.body))

DefineMacro ==
  /\ In("top", "body") /\ ret # <<>>
  /\ macros' = [macros EXCEPT ![Top.x.name] = ret[1]]
  /\ Return(Void)
  /\ UNCHANGED <<procs, log>>

\* (define-macro name procedure)
TopAlias ==
  /\ Expanded({"alias"})
  /\ IF NoLevel THEN Throw("deep")
     ELSE IF procs[Top.x.procedure] = Unbound THEN Throw("error")
     ELSE /\ macros' = [macros EXCEPT ![Top.x.name] = procs[Top.x.procedure]]
          /\ Return(Void)
          /\ UNCHANGED <<procs, log>>

TopParse ==
  /\ Expanded({"void", "quote", "show", "raise", "use", "call", "eval", "define"})
  /\ CallFrom([Top EXCEPT !.at = "parsing"], Frame("parse", Top.x))

TopEval ==
  /\ In("top", "parsing") /\ ret # <<>>
  /\ CallFrom([Top EXCEPT !.at = "evaluating"], Frame("eval", ret[1]))

TopReturn ==
  /\ In("top", "evaluating") /\ ret # <<>>
  /\ Return(ret[1])
  /\ UNCHANGED tables

(***************************************************************************)
(* Parser::parse below the top level.                                      *)
(***************************************************************************)
ParseMacro ==
  /\ In("parse", "start") /\ IsMacroUse(Top.x)
  /\ CallFrom([Top EXCEPT !.at = "expanding"], Frame("eval", macros[Top.x.name]))

ParseExpansion ==
  /\ In("parse", "expanding") /\ ret # <<>>
  /\ CallFrom([Top EXCEPT !.at = "expanded"], Frame("parse", ret[1]))

ParseReturn ==
  /\ In("parse", "expanded") /\ ret # <<>>
  /\ Return(ret[1])
  /\ UNCHANGED tables

\* A datum, or a call without a form below it, whose operator takes a level.
ParseLeaf ==
  /\ In("parse", "start") /\ ~IsMacroUse(Top.x)
  /\ Top.x.is \in {"void", "quote", "show", "raise", "use"}
  /\ IF NoLevel /\ Top.x.is \in {"show", "raise", "use"}
     THEN Throw("deep")
     ELSE /\ Return(IF Top.x.is = "use" THEN Apply(Top.x.name) ELSE Top.x)
          /\ UNCHANGED tables

Compound == {"begin", "call", "eval", "define"}

\* The parts of a form, from the first to the last.
ParseNext ==
  /\ In("parse", "start") /\ Top.x.is \in Compound
  /\ Len(Top.got) < Len(Top.x.forms)
  /\ CallFrom([Top EXCEPT !.at = "part"],
              Frame("parse", Top.x.forms[Len(Top.got) + 1]))

ParsePart ==
  /\ In("parse", "part") /\ ret # <<>>
  /\ Become([Frame("parse", Top.x) EXCEPT !.got = Append(Top.got, ret[1])])
  /\ UNCHANGED tables

\* parse_sequence makes no node for one expression, and a literal for none.
Node(x, parts) ==
  IF x.is = "begin" /\ Len(parts) = 0 THEN Void
  ELSE IF x.is = "begin" /\ Len(parts) = 1 THEN parts[1]
  ELSE [x EXCEPT !.forms = parts]

ParseNode ==
  /\ In("parse", "start") /\ Top.x.is \in Compound
  /\ Len(Top.got) = Len(Top.x.forms)
  /\ Return(Node(Top.x, Top.got))
  /\ UNCHANGED tables

\* parse_define_macro: only at top level.
ParseDefineMacro ==
  /\ In("parse", "start") /\ Top.x.is \in {"defmacro", "alias"}
  /\ Throw("error")

(***************************************************************************)
(* Ctx::eval and the eval of the nodes; every call evaluates its operator. *)
(***************************************************************************)
EvalCall == {"show", "raise", "apply", "call", "eval", "define"}
Evaluating(kinds) == In("eval", "start") /\ Top.x.is \in kinds

EvalDeep == Evaluating(EvalCall) /\ NoLevel /\ Throw("deep")

EvalLiteral ==
  /\ Evaluating({"void", "quote"})
  /\ Return(IF Top.x.is = "quote" THEN Top.x.form ELSE Void)
  /\ UNCHANGED tables

EvalShow ==
  /\ Evaluating({"show"}) /\ ~NoLevel
  /\ log' = Append(log, Top.x.tag)
  /\ Return(Void)
  /\ UNCHANGED <<macros, procs>>

EvalRaise == Evaluating({"raise"}) /\ ~NoLevel /\ Throw("error")

\* A tail call: the frame goes on with the body.
EvalApply ==
  /\ Evaluating({"apply"}) /\ ~NoLevel
  /\ IF procs[Top.x.name] = Unbound
     THEN Throw("error")
     ELSE Become(Frame("eval", procs[Top.x.name])) /\ UNCHANGED tables

EvalDefine ==
  /\ Evaluating({"define"}) /\ ~NoLevel
  /\ procs' = [procs EXCEPT ![Top.x.name] = Top.x.forms[1]]
  /\ Return(Void)
  /\ UNCHANGED <<macros, log>>

\* The last expression of a sequence is in tail position.
EvalSequence ==
  /\ Evaluating({"begin"})
  /\ IF Top.i = Len(Top.x.forms) - 1
     THEN Become(Frame("eval", Top.x.forms[Top.i + 1])) /\ UNCHANGED tables
     ELSE CallFrom([Top EXCEPT !.i = @ + 1], Frame("eval", Top.x.forms[Top.i + 1]))

EvalOperand ==
  /\ Evaluating({"call", "eval"}) /\ ~NoLevel /\ Top.i < Len(Top.x.forms)
  /\ CallFrom([Top EXCEPT !.i = @ + 1], Frame("eval", Top.x.forms[Top.i + 1]))

EvalList ==
  /\ Evaluating({"call"}) /\ ~NoLevel /\ Top.i = Len(Top.x.forms)
  /\ Return(Void)
  /\ UNCHANGED tables

\* The eval builtin: Ctx::eval_global.
EvalEval ==
  /\ Evaluating({"eval"}) /\ ~NoLevel /\ Top.i = 1
  /\ CallFrom([Top EXCEPT !.at = "called"], Frame("top", ret[1]))

EvalReturn ==
  /\ In("eval", "called") /\ ret # <<>>
  /\ Return(ret[1])
  /\ UNCHANGED tables

(***************************************************************************)
(* Between top-level forms: Ctx::run, and the exception that ends it.      *)
(***************************************************************************)
Idle == stack = <<>> /\ exc = "none" /\ ret = <<>>

StartForm ==
  /\ Idle /\ pc < Len(program)
  /\ pc' = pc + 1
  /\ stack' = <<Frame("top", program[pc + 1])>>
  /\ UNCHANGED <<program, macros, procs, ret, exc, depth, log, outcomes>>

EndForm ==
  /\ stack = <<>> /\ exc = "none" /\ ret # <<>>
  /\ outcomes' = Append(outcomes, "ok") /\ ret' = <<>>
  /\ UNCHANGED <<program, pc, macros, procs, stack, exc, depth, log>>

\* Bug: the depth is given back by a return only.
BugUnwind ==
  /\ exc \in {"error", "deep"} /\ stack # <<>>
  /\ stack' = Rest
  /\ UNCHANGED <<ret, exc, depth, tables, progress>>

Unwind ==
  /\ exc \in {"error", "deep"} /\ stack # <<>>
  /\ stack' = Rest
  /\ depth' = IF Top.f \in Guards THEN depth - 1 ELSE depth
  /\ UNCHANGED <<ret, exc, tables, progress>>

FailForm ==
  /\ exc \in {"error", "deep"} /\ stack = <<>>
  /\ outcomes' = Append(outcomes, exc) /\ exc' = "none" /\ ret' = <<>>
  /\ UNCHANGED <<program, pc, macros, procs, stack, depth, log>>

Over == exc = "crashed" \/ (Idle /\ pc = Len(program))
Finished == Over /\ UNCHANGED vars

TopLevel == ExpandHead \/ HeadExpanded \/ TooManyExpansions \/ TopBegin \/ NextInBegin
            \/ EndBegin \/ TopDefineMacro \/ DefineMacro \/ TopAlias \/ TopParse
            \/ TopEval \/ TopReturn
Parse == ParseMacro \/ ParseExpansion \/ ParseReturn \/ ParseLeaf \/ ParseNext
         \/ ParsePart \/ ParseNode \/ ParseDefineMacro
Evaluate == EvalDeep \/ EvalLiteral \/ EvalShow \/ EvalRaise \/ EvalApply \/ EvalDefine
            \/ EvalSequence \/ EvalOperand \/ EvalList \/ EvalEval \/ EvalReturn
Step == TopLevel \/ Parse \/ Evaluate \/ StartForm \/ EndForm \/ Unwind \/ FailForm
Next == Step \/ Finished

Spec == Init /\ [][Next]_vars
\* The interpreter is not interrupted.
FairSpec == Spec /\ WF_vars(Step)
-----------------------------------------------------------------------------
TypeOK ==
  /\ pc \in 0..Len(program)
  /\ DOMAIN macros = Names /\ DOMAIN procs = Names
  /\ \A i \in DOMAIN stack : stack[i].f \in {"top", "seq", "parse", "eval"}
  /\ Len(ret) <= 1
  /\ exc \in {"none", "error", "deep", "crashed"}
  /\ depth \in Nat

(***************************************************************************)
(* The depth is the number of DepthGuards on the C++ stack, within its     *)
(* limit, whatever mix of parsing, expansion and evaluation is under way   *)
(* and whatever was thrown: a form starts with the whole budget, however   *)
(* the one before it ended (Ctx::DepthGuard).                              *)
(***************************************************************************)
Guarded == {i \in DOMAIN stack : stack[i].f \in Guards}
DepthBalanced == depth = Cardinality(Guarded) /\ depth <= MaxDepth

(***************************************************************************)
(* Every form ends, one way or another: macros that expand to themselves,  *)
(* at the head or below it, and expanders that use themselves through eval *)
(* run into one of the limits; what may go on for ever is a procedure that *)
(* only calls itself (expand_head, Ctx::DepthGuard).                       *)
(***************************************************************************)
TailLoop == In("eval", "start") /\ Top.x.is = "apply" /\ procs[Top.x.name] = Top.x
EveryFormEnds == <>(Over \/ TailLoop)

(***************************************************************************)
(* README.md:334-337, deep recursion "is bounded by the C stack" and       *)
(* "Overflowing it raises a catchable error rather than crashing the       *)
(* session"; README.md:323, "Parsing and evaluation share one recursion    *)
(* budget for deep non-tail work".                                         *)
(***************************************************************************)
NeverCrashes == exc # "crashed"
=============================================================================
