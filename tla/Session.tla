------------------------------ MODULE Session -------------------------------
(***************************************************************************)
(* scheme::Session (include/scheme/session.hpp) as its host sees it, and   *)
(* the machinery of Ctx (src/ctx.cpp) underneath: the active flag, the     *)
(* slot that holds the event callback, the recursion depth, the loop over  *)
(* the forms of a source, load running that loop again from inside an      *)
(* evaluation, and exceptions unwinding all of it.                         *)
(*                                                                         *)
(* A form is reduced to what the session observes of its evaluation: the   *)
(* builtins it calls in order (display, load, raise, exit), whether it     *)
(* wraps them in guard, and whether its value is void.  The C++ stack is   *)
(* explicit, one frame per object whose destructor matters:                *)
(*   call  ActiveSession and EmitScope of a host's run or execute          *)
(*   run   one activation of Ctx::run(source)                              *)
(*   eval  one DepthGuard of Ctx::eval, with the form it works on          *)
(*   emit  the host's callback, while it runs                              *)
(***************************************************************************)
EXTENDS Integers, Sequences, FiniteSets

CONSTANTS
  Sources,      \* the program texts a host passes, each a record below
  Files,        \* function from the names load can be given to source or Absent
  Absent,       \* a file that cannot be opened
  Preamble,     \* the source Ctx::Ctx executes
  Emitters,     \* the callbacks a host passes: see Behaviour
  Behaviour,    \* what each callback does with an event
  NoOp,         \* no_op_emit(): the slot's value when no host call is active
  MaxDepth,     \* max_depth, 1000 in the code
  MaxCalls      \* bound on the calls a host makes

\* A builtin called by a form, a top-level form, a program text.  "tail" is
\* what follows the last form: nothing, the beginning of a datum, or a token
\* no datum starts with.
FileNames == DOMAIN Files
Op == [op : {"display", "raise", "exit"}] \cup [op : {"load"}, file : FileNames]
Form == [ops : Seq(Op), guard : {"none", "else", "miss"}, value : {"void", "some"}]
Source == [forms : Seq(Form), tail : {"end", "open", "bad"}]

ASSUME SessionAssumption ==
  /\ Sources \subseteq Source /\ Preamble \in Source
  /\ \A f \in FileNames : Files[f] \in Source \cup {Absent}
  /\ Absent \notin Source
  /\ NoOp \notin Emitters
  /\ Behaviour \in [Emitters -> {"return", "throw", "reenter", "reenter-throw"}]
  /\ MaxDepth \in Nat /\ MaxCalls \in Nat

VARIABLES
  active,    \* Ctx::active
  emit,      \* Ctx::emit
  depth,     \* Ctx::depth
  stack,     \* the C++ frames, innermost last
  exc,       \* the exception in flight, "none" most of the time
  value,     \* is the value evaluated last void?
  result,    \* what Ctx::run returned last
  events,    \* the events the callback of the current call was given
  history    \* the host's calls, each with its events and its outcome

vars == <<active, emit, depth, stack, exc, value, result, events, history>>

Nothing == [consumed |-> 0, incomplete |-> FALSE]
RunResult == [consumed : Nat, incomplete : BOOLEAN]
CallFrames == [f : {"call"}, op : {"run", "execute"}, source : Source,
               emitter : Emitters, previous : Emitters \cup {NoOp}]
RunFrames == [f : {"run"}, source : Source, pos : Nat, strict : BOOLEAN,
              at : {"loop", "eval", "echo"}]
EvalFrames == [f : {"eval"}, form : Form, role : {"form", "guard"}, ip : Nat]
EmitFrames == [f : {"emit"}, event : {"output", "result"}, refused : BOOLEAN]
Frames == CallFrames \cup RunFrames \cup EvalFrames \cup EmitFrames

CallFrame(op, src, e) == [f |-> "call", op |-> op, source |-> src,
                          emitter |-> e, previous |-> emit]
EmitFrame(event) == [f |-> "emit", event |-> event, refused |-> FALSE]
RunFrame(src, strict) ==
  [f |-> "run", source |-> src, pos |-> 0, strict |-> strict, at |-> "loop"]
EvalFrame(form, role) == [f |-> "eval", form |-> form, role |-> role, ip |-> 0]

Top == stack[Len(stack)]
Rest == SubSeq(stack, 1, Len(stack) - 1)
Going(kind) == stack # <<>> /\ exc = "none" /\ Top.f = kind
Replaced(s, fr) == [s EXCEPT ![Len(s)] = fr]
WithTop(fr) == Replaced(stack, fr)
\* The builtin the innermost evaluation calls next is done.
Advanced(s) == Replaced(s, [s[Len(s)] EXCEPT !.ip = @ + 1])

Init ==
  /\ active = FALSE /\ emit = NoOp /\ depth = 0
  /\ stack = <<RunFrame(Preamble, TRUE)>>
  /\ exc = "none" /\ value = "void"
  /\ result = Nothing
  /\ events = <<>> /\ history = <<>>
-----------------------------------------------------------------------------
\* Bug: run does not mind a call in progress.
BugHostCall(op, src, e) ==
  /\ stack = <<>> \/ (Going("emit") /\ ~Top.refused /\ Behaviour[emit] = "reenter")
  /\ exc = "none" /\ Len(history) < MaxCalls
  /\ active' = TRUE /\ emit' = e /\ events' = <<>>
  /\ stack' = Append(Append(stack, CallFrame(op, src, e)),
                     RunFrame(src, op = "execute"))
  /\ UNCHANGED <<depth, exc, value, result, history>>

\* A host may call a session when no call of its own is running, or from
\* inside a callback (Session::run, Session::execute).
HostCall(op, src, e) ==
  /\ \/ stack = <<>> /\ exc = "none"
     \/ Going("emit") /\ ~Top.refused
        /\ Behaviour[emit] \in {"reenter", "reenter-throw"}
  /\ Len(history) < MaxCalls
  /\ ~active                                  \* ActiveSession
  /\ active' = TRUE
  /\ emit' = e                                \* EmitScope
  /\ stack' = Append(Append(stack, CallFrame(op, src, e)),
                     RunFrame(src, op = "execute"))
  /\ events' = <<>>
  /\ UNCHANGED <<depth, exc, value, result, history>>

\* The other outcome of ActiveSession: std::logic_error, which the callback
\* swallows or lets through.
Refuse ==
  /\ Going("emit") /\ ~Top.refused /\ active
  /\ Behaviour[emit] \in {"reenter", "reenter-throw"}
  /\ stack' = WithTop([Top EXCEPT !.refused = TRUE])
  /\ exc' = IF Behaviour[emit] = "reenter-throw" THEN "host" ELSE "none"
  /\ UNCHANGED <<active, emit, depth, value, result, events, history>>

Throw(kind) ==
  /\ exc' = kind
  /\ UNCHANGED <<active, emit, depth, stack, value, result, events, history>>

(***************************************************************************)
(* Ctx::run(source): collect_if_needed, read_one, eval_global, echo.       *)
(***************************************************************************)
More == Top.pos < Len(Top.source.forms)
NextForm == Top.source.forms[Top.pos + 1]

\* Reading, parsing and evaluating each take a DepthGuard at this level, so
\* the first of them throws when the budget is spent.
StartForm ==
  /\ Going("run") /\ Top.at = "loop" /\ More
  /\ IF depth >= MaxDepth
     THEN Throw("scheme")
     ELSE /\ stack' = Append(WithTop([Top EXCEPT !.at = "eval"]),
                        EvalFrame(NextForm,
                          IF NextForm.guard = "none" THEN "form" ELSE "guard"))
          /\ depth' = depth + 1
          /\ UNCHANGED <<active, emit, exc, value, result, events, history>>

\* Bug: a run waits for the rest of a datum.
BugFinishRun ==
  /\ Going("run") /\ Top.at = "loop" /\ ~More /\ Top.source.tail = "end"
  /\ stack' = IF Len(Rest) > 0 /\ Rest[Len(Rest)].f = "eval" THEN Advanced(Rest) ELSE Rest
  /\ result' = [consumed |-> Top.pos, incomplete |-> FALSE]
  /\ UNCHANGED <<active, emit, depth, exc, value, events, history>>

\* ReadEnd and ReadIncomplete; execute turns the latter into an error, and
\* so does load, which calls execute.
FinishRun ==
  /\ Going("run") /\ Top.at = "loop" /\ ~More
  /\ IF Top.source.tail = "bad" \/ (Top.source.tail = "open" /\ Top.strict)
     THEN Throw("scheme")
     ELSE LET loaded == Len(Rest) > 0 /\ Rest[Len(Rest)].f = "eval"
          IN /\ stack' = IF loaded THEN Advanced(Rest) ELSE Rest
             /\ result' = [consumed |-> Top.pos, incomplete |-> Top.source.tail = "open"]
             /\ UNCHANGED <<active, emit, depth, exc, value, events, history>>

\* Handing an event to the slot: a host's callback runs in a frame of its own.
Deliver(event, then) ==
  IF emit = NoOp
  THEN stack' = then /\ UNCHANGED events
  ELSE /\ stack' = Append(then, EmitFrame(event))
       /\ events' = Append(events, event)

\* Bug: a file that is loaded echoes too.
BugEcho ==
  /\ Going("run") /\ Top.at = "echo"
  /\ LET then == WithTop([Top EXCEPT !.at = "loop", !.pos = @ + 1])
     IN IF value # "void" THEN Deliver("result", then)
                          ELSE stack' = then /\ UNCHANGED events
  /\ UNCHANGED <<active, emit, depth, exc, value, result, history>>

\* The value of a form is echoed by an outermost run only.
Echo ==
  /\ Going("run") /\ Top.at = "echo"
  /\ LET then == WithTop([Top EXCEPT !.at = "loop", !.pos = @ + 1])
     IN IF depth = 0 /\ value # "void"
        THEN Deliver("result", then)
        ELSE stack' = then /\ UNCHANGED events
  /\ UNCHANGED <<active, emit, depth, exc, value, result, history>>

(***************************************************************************)
(* Ctx::eval, GuardExpr::eval, and the builtins a form calls.              *)
(***************************************************************************)
Calling(op) ==
  /\ Going("eval") /\ Top.role = "form" /\ Top.ip < Len(Top.form.ops)
  /\ Top.form.ops[Top.ip + 1].op = op

\* The body of a guard, in a DepthGuard of its own that its try encloses.
EnterBody ==
  /\ Going("eval") /\ Top.role = "guard" /\ Top.ip = 0
  /\ IF depth >= MaxDepth
     THEN Throw("scheme")
     ELSE /\ stack' = Append(stack, EvalFrame(Top.form, "form"))
          /\ depth' = depth + 1
          /\ UNCHANGED <<active, emit, exc, value, result, events, history>>

Display ==
  /\ Calling("display")
  /\ Deliver("output", Advanced(stack))
  /\ UNCHANGED <<active, emit, depth, exc, value, result, history>>

Load ==
  /\ Calling("load")
  /\ LET src == Files[Top.form.ops[Top.ip + 1].file]
     IN IF src = Absent
        THEN Throw("scheme")
        ELSE /\ stack' = Append(stack, RunFrame(src, TRUE))
             /\ UNCHANGED <<active, emit, depth, exc, value, result, events, history>>

Raise == Calling("raise") /\ Throw("scheme")
Exit == Calling("exit") /\ Throw("exit")

\* A value is returned through Ctx::eval: to the guard it is the body of, or
\* to the run that reports it.
Return ==
  /\ Going("eval")
  /\ \/ Top.role = "form" /\ Top.ip = Len(Top.form.ops) /\ value' = Top.form.value
     \/ Top.role = "guard" /\ Top.ip = 1 /\ UNCHANGED value
  /\ depth' = depth - 1
  /\ LET caller == Rest[Len(Rest)]
     IN stack' = Replaced(Rest, IF caller.f = "run"
                                THEN [caller EXCEPT !.at = "echo"]
                                ELSE [caller EXCEPT !.ip = 1])
  /\ UNCHANGED <<active, emit, exc, result, events, history>>

\* The callback returns, or throws an exception of the host's own.
CallbackReturn ==
  /\ Going("emit")
  /\ Behaviour[emit] # "throw"
  /\ Behaviour[emit] \in {"reenter", "reenter-throw"} => Top.refused
  /\ stack' = Rest
  /\ UNCHANGED <<active, emit, depth, exc, value, result, events, history>>

CallbackThrow ==
  /\ Going("emit") /\ Behaviour[emit] = "throw"
  /\ Throw("host")

(***************************************************************************)
(* An exception destroys the innermost frame.  A guard whose clauses match *)
(* stops a SchemeError there; a miss rethrows it.                          *)
(***************************************************************************)
Caught == exc = "scheme" /\ Top.f = "eval" /\ Top.role = "guard"
          /\ Top.form.guard = "else"

\* Bug: the session stays active after an exception.
BugLeave(thrown) ==
  /\ active' = (thrown # "none")
  /\ emit' = Top.previous
  /\ stack' = Rest
  /\ history' = Append(history, [op |-> Top.op, source |-> Top.source,
                                 emitter |-> Top.emitter, events |-> events,
                                 thrown |-> thrown, result |-> Nothing])
  /\ UNCHANGED <<depth, value, result, events>>

\* The destructors of EmitScope and ActiveSession, in that order.
Leave(thrown) ==
  /\ active' = FALSE
  /\ emit' = Top.previous
  /\ stack' = Rest
  /\ history' = Append(history, [op |-> Top.op, source |-> Top.source,
                                 emitter |-> Top.emitter, events |-> events,
                                 thrown |-> thrown,
                                 result |-> IF thrown = "none" /\ Top.op = "run"
                                            THEN result ELSE Nothing])
  /\ UNCHANGED <<depth, value, result, events>>

Handle ==
  /\ stack # <<>> /\ exc # "none" /\ Caught
  /\ exc' = "none" /\ value' = "void"
  /\ stack' = WithTop([Top EXCEPT !.ip = 1])
  /\ UNCHANGED <<active, emit, depth, result, events, history>>

\* Bug: the depth is given back by a return only, not by an exception.
BugUnwind ==
  /\ stack # <<>> /\ exc # "none" /\ ~Caught /\ Top.f # "call"
  /\ stack' = Rest
  /\ UNCHANGED <<active, emit, depth, exc, value, result, events, history>>

\* Bug: every frame gives back a level it may not have taken.
BugUnwindAll ==
  /\ stack # <<>> /\ exc # "none" /\ ~Caught /\ Top.f # "call"
  /\ stack' = Rest
  /\ depth' = depth - 1
  /\ UNCHANGED <<active, emit, exc, value, result, events, history>>

Unwind ==
  /\ stack # <<>> /\ exc # "none" /\ ~Caught /\ Top.f # "call"
  /\ stack' = Rest
  /\ depth' = IF Top.f = "eval" THEN depth - 1 ELSE depth
  /\ UNCHANGED <<active, emit, exc, value, result, events, history>>

\* Out of the session: the host catches what is left.
Escape ==
  /\ stack # <<>> /\ exc # "none" /\ Top.f = "call"
  /\ Leave(exc)
  /\ exc' = "none"

FinishCall ==
  /\ Going("call")
  /\ Leave("none")
  /\ UNCHANGED exc

Step == StartForm \/ FinishRun \/ Echo \/ EnterBody \/ Display \/ Load
        \/ Raise \/ Exit \/ Return \/ Handle \/ Unwind \/ Escape \/ FinishCall
Callback == Refuse \/ CallbackReturn \/ CallbackThrow
Host == \E op \in {"run", "execute"}, src \in Sources, e \in Emitters :
          HostCall(op, src, e)
Next == Step \/ Callback \/ Host

Spec == Init /\ [][Next]_vars
\* The interpreter runs on the host's thread until the call is over; that
\* callbacks come back is the host's part.
FairSpec == Spec /\ WF_vars(Step) /\ WF_vars(Callback)
-----------------------------------------------------------------------------
TypeOK ==
  /\ active \in BOOLEAN
  /\ emit \in Emitters \cup {NoOp}
  /\ depth \in Nat
  /\ stack \in Seq(Frames)
  /\ exc \in {"none", "scheme", "host", "exit"}
  /\ value \in {"void", "some"}
  /\ result \in RunResult
  /\ events \in Seq({"output", "result"})

FramesOf(s, kind) == {i \in DOMAIN s : s[i].f = kind}

(***************************************************************************)
(* The depth counter is the number of live DepthGuards and never exceeds   *)
(* its limit, whatever was thrown: an error, an exit or a host's exception *)
(* leaves no debt behind.                                                  *)
(***************************************************************************)
DepthBalanced == depth = Cardinality(FramesOf(stack, "eval")) /\ depth <= MaxDepth

(***************************************************************************)
(* The session is active exactly while a host's call is on the stack,      *)
(* there is one such call, it is outermost, and the slot holds its         *)
(* callback; otherwise the slot holds the no-op.                           *)
(***************************************************************************)
ActiveBalanced ==
  /\ FramesOf(stack, "call") \subseteq {1}
  /\ active <=> FramesOf(stack, "call") # {}
  /\ emit = IF active THEN stack[1].emitter ELSE NoOp
  /\ active => stack[1].previous = NoOp

(***************************************************************************)
(* A callback only ever runs on behalf of the call in progress, and what   *)
(* it is told a result of is a form of that call's own source.             *)
(***************************************************************************)
CallbackInCall ==
  \A i \in FramesOf(stack, "emit") :
    /\ i = Len(stack) /\ active
    /\ stack[i].event = "result" => i = 3

(***************************************************************************)
(* A session called from its own callback refuses, and that leaves the     *)
(* call in progress as it was ("A session cannot be called recursively     *)
(* from its own event callback", README).                                  *)
(***************************************************************************)
CallInProgressUndisturbed ==
  [][(stack # <<>> /\ Top.f = "emit") =>
       /\ UNCHANGED <<active, emit, depth, events, history>>
       /\ Rest = SubSeq(stack', 1, Len(Rest))]_vars

(***************************************************************************)
(* Every call a host makes comes back to it, even one that loads a file    *)
(* that loads itself.                                                      *)
(***************************************************************************)
CallsReturn == (stack # <<>>) ~> (stack = <<>>)

(***************************************************************************)
(* Every call is one step of SessionContract, whatever happens inside it.  *)
(***************************************************************************)
Contract == INSTANCE SessionContract
ContractSpec == Contract!Spec
=============================================================================
