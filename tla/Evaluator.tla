----------------------------- MODULE Evaluator ------------------------------
(***************************************************************************)
(* Evaluation (src/expression.cpp; Ctx::eval; Env, Formals and Promise in  *)
(* src/types.cpp): the eval method of every syntax node, the trampoline    *)
(* that runs them, procedure application, promises and guard.              *)
(*                                                                         *)
(* Every activation of Ctx::eval is a frame: it owns one DepthGuard and    *)
(* the C++ frame of some Expr::eval, whose progress is "at" and the values *)
(* its calls of Ctx::eval have returned.  A TailCall replaces the node a   *)
(* frame works on; only a call of Ctx::eval adds a frame.  Nothing is      *)
(* freed here: no collection interrupts an evaluation (Collector).         *)
(***************************************************************************)
EXTENDS Integers, Sequences

CONSTANTS
  Programs,      \* sequences of top-level expressions
  MaxDepth       \* max_depth, 1000 in the code

ASSUME DepthAssumption == MaxDepth \in Nat \ {0}

VARIABLES
  source,      \* the program
  left,        \* its forms still to run
  envs,        \* every Env allocated, the global one first
  promises,    \* the state of every Promise allocated
  stack,       \* the activations of Ctx::eval, innermost last
  thrown,      \* the condition of the SchemeError in flight
  results      \* what the forms run so far came to

store == <<envs, promises>>
vars == <<source, left, envs, promises, stack, thrown, results>>
-----------------------------------------------------------------------------
\* Values.  A pair is kept as the elements along its cdrs and what follows.
None == [is |-> "none"]
Void == [is |-> "void"]
Null == [is |-> "null"]
Num(n) == [is |-> "number", n |-> n]
Bool(b) == [is |-> "bool", b |-> b]
Builtin(name) == [is |-> "builtin", name |-> name]
Error(message) == [is |-> "error", message |-> message]
TooDeep == Error("recursion too deep")
Procedure(code, env) == [is |-> "procedure", code |-> code, env |-> env]
Promise(id) == [is |-> "promise", id |-> id]
List(elements, tail) ==
  IF elements = <<>> THEN tail
  ELSE IF tail.is = "pair"
       THEN [is |-> "pair", elements |-> elements \o tail.elements, tail |-> tail.tail]
       ELSE [is |-> "pair", elements |-> elements, tail |-> tail]

Cons(a, d) == List(<<a>>, d)
is_true(v) == v # Bool(FALSE)
Elements(v) == IF v.is = "pair" THEN v.elements ELSE <<>>
is_list(v) == v = Null \/ (v.is = "pair" /\ v.tail = Null)

\* Builtins that take and return values and may fail; of numbers, those that
\* the library calls and with the two arguments it gives them.  eq? and equal?
\* of data without procedures and promises; eq? of pairs, which asks for
\* their identity, is left out.
Arithmetic == {"+", "-", "*"}
Comparisons == {"=", ">", ">="}
Compute(name, m, n) == CASE name = "+" -> m + n [] name = "-" -> m - n [] name = "*" -> m * n
Compare(name, m, n) == CASE name = "=" -> m = n [] name = ">" -> m > n [] name = ">=" -> m >= n
Primitives == {"car", "cdr", "cons", "list", "length", "null?", "not", "eq?", "equal?"}
              \cup Arithmetic \cup Comparisons
Prim(name, args) ==
  LET a == args[1]
      two == Len(args) = 2
      numbers == two /\ \A i \in 1 .. 2 : args[i].is = "number"
  IN CASE name = "list" -> List(args, Null)
       [] name = "cons" /\ two -> Cons(a, args[2])
       [] name = "equal?" /\ two -> Bool(a = args[2])
       [] name = "eq?" /\ two /\ a.is # "pair" -> Bool(a = args[2])
       [] name \in Arithmetic /\ numbers -> Num(Compute(name, a.n, args[2].n))
       [] name \in Comparisons /\ numbers -> Bool(Compare(name, a.n, args[2].n))
       [] name = "car" /\ Len(args) = 1 /\ a.is = "pair" -> a.elements[1]
       [] name = "cdr" /\ Len(args) = 1 /\ a.is = "pair" -> List(Tail(a.elements), a.tail)
       [] name = "length" /\ Len(args) = 1 /\ is_list(a) -> Num(Len(Elements(a)))
       [] name = "null?" /\ Len(args) = 1 -> Bool(a = Null)
       [] name = "not" /\ Len(args) = 1 -> Bool(~is_true(a))
       [] OTHER -> None
BuiltinNames == Primitives \cup {"force", "raise", "apply"}

\* Env: bindings and the parent, 0 for none.
Env(bindings, parent) == [bindings |-> bindings, parent |-> parent]
GlobalEnv == Env([x \in BuiltinNames |-> Builtin(x)], 0)
\* The innermost environment around e that binds x (Env::lookup, Env::set).
Holder(es, e, x) ==
  LET h[i \in 0 .. Len(es)] ==
        IF i = 0 \/ x \in DOMAIN es[i].bindings THEN i ELSE h[es[i].parent]
  IN h[e]
\* Env::define: a new binding of e, or a new value for one it has.
Defined(es, e, x, v) ==
  [es EXCEPT ![e].bindings =
     [y \in DOMAIN @ \cup {x} |-> IF y = x THEN v ELSE @[y]]]

\* Formals: fixed names, and the name of the rest or "".
Accepts(f, args) == IF f.rest = "" THEN Len(args) = Len(f.fixed)
                                   ELSE Len(args) >= Len(f.fixed)
Bind(f, args) ==
  LET n == Len(f.fixed)
      names == {f.fixed[i] : i \in 1 .. n} \cup ({f.rest} \ {""})
  IN [x \in names |-> IF x = f.rest THEN List(SubSeq(args, n + 1, Len(args)), Null)
                      ELSE args[CHOOSE i \in 1 .. n : f.fixed[i] = x]]

Thunk(body, env) == [is |-> "thunk", body |-> body, env |-> env]

(***************************************************************************)
(* What the parser makes (the classes of expression.hpp): a set C of       *)
(* nodes, each with its parts in C and its constants in D.  A sequence     *)
(* that is evaluated for its last value is not empty.                      *)
(***************************************************************************)
Data(D) == [is : {"void", "null"}] \cup [is : {"number"}, n : Int]
           \cup [is : {"bool"}, b : BOOLEAN]
           \cup [is : {"pair"}, elements : Seq(D) \ {<<>>}, tail : D]
Node(e, C, D) ==
  LET Sequence(s) == Len(s) \in Nat /\ DOMAIN s = 1 .. Len(s)
      clauses == Sequence(e.clauses)
      bodies == \A i \in DOMAIN e.clauses : e.clauses[i].body \in C
      tests == \A i \in DOMAIN e.clauses : e.clauses[i].test \in C
  IN CASE e.op = "lit" -> e.value \in D
       [] e.op = "ref" -> TRUE
       [] e.op = "if" -> {e.test, e.then, e.else} \subseteq C
       [] e.op = "begin" -> e.body \in Seq(C) \ {<<>>}
       [] e.op = "lambda" -> e.body \in C /\ Sequence(e.fixed)
       [] e.op \in {"define", "set"} -> e.init \in C
       [] e.op = "call" -> e.proc \in C /\ e.args \in Seq(C)
       [] e.op \in {"let", "letrec"} -> e.inits \in Seq(C) /\ e.body \in C
       [] e.op = "logical" -> e.operands \in Seq(C) \ {<<>>}
       [] e.op = "cond" -> clauses /\ tests /\ bodies
       [] e.op = "guard" -> clauses /\ tests /\ bodies /\ e.body \in C
       [] e.op = "case" -> clauses /\ bodies /\ e.key \in C
       [] e.op = "delay" -> e.body \in C
       [] e.op = "cons-stream" -> {e.head, e.tail} \subseteq C
       [] OTHER -> FALSE
Code(C, D) == D \subseteq Data(D) /\ \A e \in C : Node(e, C, D)
ProgramsParsed == \A p \in Programs : \E C, D : p \in Seq(C) /\ Code(C, D)
-----------------------------------------------------------------------------
Frame(e, env) == [e |-> e, env |-> env, at |-> "eval", vals |-> <<>>,
                  local |-> 0, caught |-> None]

Top == stack[Len(stack)]
Rest == SubSeq(stack, 1, Len(stack) - 1)
WithTop(fr) == [stack EXCEPT ![Len(stack)] = fr]
N == Top.e
got == Len(Top.vals)
Running == stack # <<>> /\ thrown = None
On(op) == Running /\ Top.at = "eval" /\ N.op = op

Init ==
  /\ source \in Programs /\ left = source
  /\ envs = <<GlobalEnv>> /\ promises = <<>>
  /\ stack = <<>> /\ thrown = None
  /\ results = <<>>

\* throw SchemeError
Throw(v) == thrown' = v /\ UNCHANGED <<stack, results>>

\* The limit one activation too far.
BugCallEval(fr, e, env) ==
  IF Len(stack) > MaxDepth
  THEN Throw(TooDeep)
  ELSE /\ stack' = Append(WithTop(fr), Frame(e, env))
       /\ UNCHANGED <<thrown, results>>

\* The frame fr of an Expr::eval calls Ctx::eval: a DepthGuard first.
CallEval(fr, e, env) ==
  IF Len(stack) >= MaxDepth
  THEN Throw(TooDeep)
  ELSE /\ stack' = Append(WithTop(fr), Frame(e, env))
       /\ UNCHANGED <<thrown, results>>
Eval(e) == CallEval(Top, e, Top.env)

\* The loop of Ctx::eval goes round with the node of a TailCall.
TailCall(e, env) ==
  /\ stack' = WithTop(Frame(e, env))
  /\ UNCHANGED <<thrown, results>>

\* Ctx::eval returns to the frame below, or to Ctx::run.
Return(v) ==
  /\ IF Rest = <<>>
     THEN stack' = <<>> /\ results' = Append(results, v)
     ELSE /\ stack' = [Rest EXCEPT ![Len(Rest)].vals = Append(@, v)]
          /\ UNCHANGED results
  /\ UNCHANGED thrown

\* What Expr::eval does next within its own C++ frame.
Becomes(fr) == stack' = WithTop(fr) /\ UNCHANGED <<thrown, results>>
Applying(f, args) == Becomes([Top EXCEPT !.at = "apply", !.vals = <<f>> \o args])
-----------------------------------------------------------------------------
\* Ctx::run evaluates the next form.
NextForm ==
  /\ stack = <<>> /\ left # <<>>
  /\ stack' = <<Frame(Head(left), 1)>>
  /\ left' = Tail(left)
  /\ UNCHANGED <<source, envs, promises, thrown, results>>

Literal == On("lit") /\ Return(N.value) /\ UNCHANGED store

Reference ==
  /\ On("ref")
  /\ LET h == Holder(envs, Top.env, N.name)
     IN IF h = 0 THEN Throw(Error("undefined variable"))
                 ELSE Return(envs[h].bindings[N.name])
  /\ UNCHANGED store

\* The chosen branch called, not handed to the trampoline.
BugIf ==
  /\ On("if")
  /\ IF got = 0 THEN Eval(N.test)
     ELSE IF got = 1 THEN Eval(IF is_true(Top.vals[1]) THEN N.then ELSE N.else)
     ELSE Return(Top.vals[2])
  /\ UNCHANGED store

If ==
  /\ On("if")
  /\ IF got = 0 THEN Eval(N.test)
     ELSE TailCall(IF is_true(Top.vals[1]) THEN N.then ELSE N.else, Top.env)
  /\ UNCHANGED store

\* eval_sequence
Begin ==
  /\ On("begin")
  /\ LET e == N.body[got + 1]
     IN IF got + 1 < Len(N.body) THEN Eval(e) ELSE TailCall(e, Top.env)
  /\ UNCHANGED store

Lambda == On("lambda") /\ Return(Procedure(N, Top.env)) /\ UNCHANGED store

Define ==
  /\ On("define")
  /\ \/ got = 0 /\ Eval(N.init) /\ UNCHANGED envs
     \/ /\ got = 1 /\ Return(Void)
        /\ envs' = Defined(envs, Top.env, N.name, Top.vals[1])
  /\ UNCHANGED promises

Set ==
  /\ On("set")
  /\ LET h == Holder(envs, Top.env, N.name)
     IN \/ got = 0 /\ Eval(N.init) /\ UNCHANGED envs
        \/ got = 1 /\ h = 0 /\ Throw(Error("undefined variable")) /\ UNCHANGED envs
        \/ /\ got = 1 /\ h # 0 /\ Return(Void)
           /\ envs' = Defined(envs, h, N.name, Top.vals[1])
  /\ UNCHANGED promises

\* The operator, then the operands from left to right.
Call ==
  /\ On("call")
  /\ IF got <= Len(N.args) THEN Eval((<<N.proc>> \o N.args)[got + 1])
     ELSE Becomes([Top EXCEPT !.at = "apply"])
  /\ UNCHANGED store

\* The bindings of a let or a letrec: local is allocated before the first
\* initializer is evaluated, in env, and defined one binding at a time.
Bindings(env) ==
  /\ envs' = IF got = 0 THEN envs
             ELSE Defined(envs, Top.local, N.names[got], Top.vals[got])
  /\ IF got < Len(N.inits) THEN CallEval(Top, N.inits[got + 1], env)
                           ELSE TailCall(N.body, Top.local)
NewLocal(bindings) ==
  /\ envs' = Append(envs, Env(bindings, Top.env))
  /\ Becomes([Top EXCEPT !.local = Len(envs')])

\* The initializers of a let see the outer environment only.
Let ==
  /\ On("let")
  /\ IF Top.local = 0 THEN NewLocal(<<>>) ELSE Bindings(Top.env)
  /\ UNCHANGED promises

\* Those of a letrec see each other's names, void until they are computed.
LetRec ==
  /\ On("letrec")
  /\ IF Top.local = 0
     THEN NewLocal([x \in {N.names[i] : i \in DOMAIN N.names} |-> Void])
     ELSE Bindings(Top.local)
  /\ UNCHANGED promises

\* and, or: N.stop is the truth value that decides before the last operand.
Logical ==
  /\ On("logical")
  /\ IF got > 0 /\ is_true(Top.vals[got]) = N.stop
     THEN Return(Top.vals[got])
     ELSE LET e == N.operands[got + 1]
          IN IF got + 1 < Len(N.operands) THEN Eval(e) ELSE TailCall(e, Top.env)
  /\ UNCHANGED store

(***************************************************************************)
(* CondExpr::try_eval, for a cond in its environment and for the clauses   *)
(* of a guard in the environment of the handler.  vals are the tests that  *)
(* came out false, then the one that did not.                              *)
(***************************************************************************)
ClauseEnv == IF Top.at = "handler" THEN Top.local ELSE Top.env
Clauses(none) ==
  LET hit == got > 0 /\ is_true(Top.vals[got])
      i == IF hit THEN got ELSE got + 1
      c == N.clauses[i]
  IN IF i > Len(N.clauses) THEN none
     ELSE \/ c.kind = "else" /\ TailCall(c.body, ClauseEnv)
          \/ c.kind # "else" /\ ~hit /\ CallEval(Top, c.test, ClauseEnv)
          \/ hit /\ c.kind = "test" /\ Return(Top.vals[got])
          \/ hit /\ c.kind = "body" /\ TailCall(c.body, ClauseEnv)
          \/ hit /\ c.kind = "arrow"
             /\ CallEval([Top EXCEPT !.at = "receiver"], c.body, ClauseEnv)

Cond == On("cond") /\ Clauses(Return(Void)) /\ UNCHANGED store

Receiver ==
  /\ Running /\ Top.at = "receiver"
  /\ Applying(Top.vals[got], <<Top.vals[got - 1]>>)
  /\ UNCHANGED store

Case ==
  /\ On("case")
  /\ LET matching == {i \in DOMAIN N.clauses :
                        \/ N.clauses[i].kind = "else"
                        \/ Top.vals[1] \in N.clauses[i].datums}
         first == CHOOSE i \in matching : \A j \in matching : i <= j
     IN \/ got = 0 /\ Eval(N.key)
        \/ got = 1 /\ matching # {} /\ TailCall(N.clauses[first].body, Top.env)
        \/ got = 1 /\ matching = {} /\ Return(Void)
  /\ UNCHANGED store

Delay ==
  /\ On("delay")
  /\ promises' = Append(promises, Thunk(N.body, Top.env))
  /\ Return(Promise(Len(promises')))
  /\ UNCHANGED envs

ConsStream ==
  /\ On("cons-stream")
  /\ \/ got = 0 /\ Eval(N.head) /\ UNCHANGED promises
     \/ /\ got = 1
        /\ promises' = Append(promises, Thunk(N.tail, Top.env))
        /\ Return(Cons(Top.vals[1], Promise(Len(promises'))))
  /\ UNCHANGED envs

(***************************************************************************)
(* apply_procedure: vals are the procedure and its arguments.              *)
(***************************************************************************)
Callee == Top.vals[1]
Args == Tail(Top.vals)
OnApply(kind) == Running /\ Top.at = "apply" /\ Callee.is = kind
OnBuiltin(names) == OnApply("builtin") /\ Callee.name \in names

ApplyProcedure ==
  /\ OnApply("procedure")
  /\ IF Accepts(Callee.code, Args)
     THEN /\ envs' = Append(envs, Env(Bind(Callee.code, Args), Callee.env))
          /\ TailCall(Callee.code.body, Len(envs'))
     ELSE /\ envs' = Append(envs, Env(<<>>, Callee.env))
          /\ Throw(Error("arity"))
  /\ UNCHANGED promises

\* Builtin::Apply: round the loop again with the arguments spliced.
ApplyApply ==
  /\ OnBuiltin({"apply"})
  /\ LET last == Args[Len(Args)]
     IN IF Len(Args) >= 2 /\ is_list(last)
        THEN Applying(Args[1], SubSeq(Args, 2, Len(Args) - 1) \o Elements(last))
        ELSE Throw(Error("apply"))
  /\ UNCHANGED store

ApplyPrimitive ==
  /\ OnBuiltin(Primitives)
  /\ LET v == Prim(Callee.name, Args)
     IN IF v = None THEN Throw(Error(Callee.name)) ELSE Return(v)
  /\ UNCHANGED store

ApplyRaise ==
  /\ OnBuiltin({"raise"})
  /\ Throw(IF Len(Args) = 1 THEN Args[1] ELSE Error("raise"))
  /\ UNCHANGED store

ApplyOther ==
  /\ Running /\ Top.at = "apply" /\ Callee.is \notin {"procedure", "builtin"}
  /\ Throw(Error("not a procedure"))
  /\ UNCHANGED store

\* Promise::force, up to its call of Ctx::eval.
ApplyForce ==
  /\ OnBuiltin({"force"})
  /\ IF Len(Args) # 1 THEN Throw(Error("force"))
     ELSE IF Args[1].is # "promise" THEN Return(Args[1])
     ELSE LET state == promises[Args[1].id]
          IN IF state.is # "thunk" THEN Return(state)
             ELSE CallEval([Top EXCEPT !.at = "force"], state.body, state.env)
  /\ UNCHANGED store

\* The assignment to state, and the value read back from it.
Forced ==
  /\ Running /\ Top.at = "force"
  /\ promises' = [promises EXCEPT ![Args[1].id] = Top.vals[got]]
  /\ Return(promises'[Args[1].id])
  /\ UNCHANGED envs

(***************************************************************************)
(* GuardExpr: the body is evaluated inside the try, the clauses inside the *)
(* catch, and what a clause selects after it.                              *)
(***************************************************************************)
Guard ==
  /\ On("guard")
  /\ IF got = 0 THEN Eval(N.body) ELSE Return(Top.vals[1])
  /\ UNCHANGED store

Catches == Top.e.op = "guard" /\ Top.at = "eval"

Catch ==
  /\ stack # <<>> /\ thrown # None /\ Catches
  /\ envs' = Append(envs, Env([x \in {N.name} |-> thrown], Top.env))
  /\ stack' = WithTop([Top EXCEPT !.at = "handler", !.local = Len(envs'),
                                  !.caught = thrown])
  /\ thrown' = None
  /\ UNCHANGED <<source, left, promises, results>>

\* A new error in place of the one caught.
BugHandler ==
  /\ Running /\ Top.at = "handler"
  /\ Clauses(Throw(Error("unhandled")))
  /\ UNCHANGED store

\* No clause matches: the exception caught is thrown again.
Handler ==
  /\ Running /\ Top.at = "handler"
  /\ Clauses(Throw(Top.caught))
  /\ UNCHANGED store

\* The exception still in flight after the frame that ended the run.
BugUnwind ==
  /\ stack # <<>> /\ thrown # None /\ ~Catches
  /\ stack' = Rest
  /\ IF Rest = <<>>
     THEN /\ results' = Append(results, [is |-> "thrown", v |-> thrown])
          /\ left' = <<>> /\ UNCHANGED thrown
     ELSE UNCHANGED <<results, thrown, left>>
  /\ UNCHANGED <<source, envs, promises>>

\* An exception destroys a frame, and ends the run with the last one.
Unwind ==
  /\ stack # <<>> /\ thrown # None /\ ~Catches
  /\ stack' = Rest
  /\ IF Rest = <<>>
     THEN /\ results' = Append(results, [is |-> "thrown", v |-> thrown])
          /\ thrown' = None /\ left' = <<>>
     ELSE UNCHANGED <<results, thrown, left>>
  /\ UNCHANGED <<source, envs, promises>>

ExprEval == Literal \/ Reference \/ If \/ Begin \/ Lambda \/ Define \/ Set \/ Call
            \/ Let \/ LetRec \/ Logical \/ Cond \/ Receiver \/ Case \/ Delay
            \/ ConsStream \/ Guard \/ Handler
Apply == ApplyProcedure \/ ApplyApply \/ ApplyPrimitive \/ ApplyRaise
         \/ ApplyOther \/ ApplyForce \/ Forced
Next == NextForm \/ Catch \/ Unwind
        \/ ((ExprEval \/ Apply) /\ UNCHANGED <<source, left>>)

Spec == Init /\ [][Next]_vars
-----------------------------------------------------------------------------
\* Every frame, promise, closure bound and environment refers to an
\* environment that was allocated before it.
TypeOK ==
  /\ \A i \in DOMAIN stack :
       /\ stack[i].env \in DOMAIN envs /\ stack[i].local \in {0} \cup DOMAIN envs
       /\ stack[i].at \in {"eval", "apply", "receiver", "force", "handler"}
  /\ \A i \in DOMAIN envs :
       /\ envs[i].parent \in 0 .. i - 1
       /\ \A x \in DOMAIN envs[i].bindings :
            LET v == envs[i].bindings[x]
            IN v.is = "procedure" => v.env \in DOMAIN envs
  /\ \A p \in DOMAIN promises :
       promises[p].is = "thunk" => promises[p].env \in DOMAIN envs
  /\ thrown # None => stack # <<>>

\* max_depth bounds the activations of Ctx::eval, whatever mixture of calls,
\* guards, receivers and forced promises nests them: Ctx::DepthGuard is on
\* every path that adds a C++ frame.
DepthBounded == Len(stack) <= MaxDepth

\* README: "force evaluates it and memoizes the result, so the expression runs
\* at most once": a promise with a value keeps it.
ForcedOnce ==
  [][\A p \in DOMAIN promises :
       promises[p].is # "thunk" => promises'[p] = promises[p]]_vars
=============================================================================
