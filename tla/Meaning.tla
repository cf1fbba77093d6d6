------------------------------ MODULE Meaning -------------------------------
(***************************************************************************)
(* What expressions mean, by recursion on them: no frames, no trampoline,  *)
(* no exceptions in flight.  d is the number of evaluations around; only   *)
(* an expression that is not in tail position adds to it.                  *)
(***************************************************************************)
EXTENDS Evaluator

\* An outcome: the store left behind, and a value or a condition raised.
Out(s, v) == [envs |-> s.envs, promises |-> s.promises, v |-> v, raised |-> FALSE]
Err(s, v) == [envs |-> s.envs, promises |-> s.promises, v |-> v, raised |-> TRUE]
WithEnv(s, env) == [s EXCEPT !.envs = Append(@, env)]
WithPromise(s, t) == [s EXCEPT !.promises = Append(@, t)]
Define_(s, e, x, v) == [s EXCEPT !.envs = Defined(@, e, x, v)]

RECURSIVE MEval(_, _, _, _), MTail(_, _, _, _), MList(_, _, _, _, _),
          MApply(_, _, _, _), MClauses(_, _, _, _, _), MLogical(_, _, _, _, _),
          MBindings(_, _, _, _, _, _)

\* A sub-expression, one evaluation deeper.
MEval(e, env, s, d) == IF d >= MaxDepth THEN Err(s, TooDeep) ELSE MTail(e, env, s, d + 1)

\* The expressions of es from the left: v is the sequence of their values.
MList(es, env, s, d, vals) ==
  IF es = <<>> THEN Out(s, vals)
  ELSE LET o == MEval(Head(es), env, s, d)
       IN IF o.raised THEN o ELSE MList(Tail(es), env, o, d, Append(vals, o.v))

MLogical(e, i, env, s, d) ==
  IF i = Len(e.operands) THEN MTail(e.operands[i], env, s, d)
  ELSE LET o == MEval(e.operands[i], env, s, d)
       IN IF o.raised \/ is_true(o.v) = e.stop THEN o ELSE MLogical(e, i + 1, env, o, d)

\* The bindings of e from the i-th, evaluated in env, defined in local.
MBindings(e, i, local, env, s, d) ==
  IF i > Len(e.inits) THEN MTail(e.body, local, s, d)
  ELSE LET o == MEval(e.inits[i], env, s, d)
       IN IF o.raised THEN o
          ELSE MBindings(e, i + 1, local, env, Define_(o, local, e.names[i], o.v), d)

\* The first clause whose test holds, or none.
MClauses(cs, env, s, d, none) ==
  IF cs = <<>> THEN [none EXCEPT !.envs = s.envs, !.promises = s.promises]
  ELSE LET c == Head(cs)
           t == MEval(c.test, env, s, d)
           r == MEval(c.body, env, t, d)
       IN IF c.kind = "else" THEN MTail(c.body, env, s, d)
          ELSE IF t.raised THEN t
          ELSE IF ~is_true(t.v) THEN MClauses(Tail(cs), env, t, d, none)
          ELSE CASE c.kind = "test" -> t
                 [] c.kind = "body" -> MTail(c.body, env, t, d)
                 [] c.kind = "arrow" ->
                      IF r.raised THEN r ELSE MApply(r.v, <<t.v>>, r, d)

MApply(f, args, s, d) ==
  IF f.is = "procedure"
  THEN IF Accepts(f.code, args)
       THEN MTail(f.code.body, Len(s.envs) + 1, WithEnv(s, Env(Bind(f.code, args), f.env)), d)
       ELSE Err(WithEnv(s, Env(<<>>, f.env)), Error("arity"))
  ELSE IF f.is # "builtin" THEN Err(s, Error("not a procedure"))
  ELSE CASE f.name \in Primitives ->
              LET v == Prim(f.name, args)
              IN IF v = None THEN Err(s, Error(f.name)) ELSE Out(s, v)
         [] f.name = "raise" -> Err(s, IF Len(args) = 1 THEN args[1] ELSE Error("raise"))
         [] f.name = "apply" ->
              IF Len(args) >= 2 /\ is_list(args[Len(args)])
              THEN MApply(args[1], SubSeq(args, 2, Len(args) - 1) \o Elements(args[Len(args)]), s, d)
              ELSE Err(s, Error("apply"))
         [] f.name = "force" ->
              IF Len(args) # 1 THEN Err(s, Error("force"))
              ELSE IF args[1].is # "promise" THEN Out(s, args[1])
              ELSE LET p == s.promises[args[1].id]
                       o == MEval(p.body, p.env, s, d)
                   IN IF p.is # "thunk" THEN Out(s, p)
                      ELSE IF o.raised THEN o
                      ELSE Out([o EXCEPT !.promises[args[1].id] = o.v], o.v)

MTail(e, env, s, d) ==
  CASE e.op = "lit" -> Out(s, e.value)
    [] e.op = "ref" ->
         LET h == Holder(s.envs, env, e.name)
         IN IF h = 0 THEN Err(s, Error("undefined variable"))
                     ELSE Out(s, s.envs[h].bindings[e.name])
    [] e.op = "if" ->
         LET t == MEval(e.test, env, s, d)
         IN IF t.raised THEN t
            ELSE MTail(IF is_true(t.v) THEN e.then ELSE e.else, env, t, d)
    [] e.op = "begin" ->
         LET o == MList(SubSeq(e.body, 1, Len(e.body) - 1), env, s, d, <<>>)
         IN IF o.raised THEN o ELSE MTail(e.body[Len(e.body)], env, o, d)
    [] e.op = "lambda" -> Out(s, Procedure(e, env))
    [] e.op = "define" ->
         LET o == MEval(e.init, env, s, d)
         IN IF o.raised THEN o ELSE Out(Define_(o, env, e.name, o.v), Void)
    [] e.op = "set" ->
         LET o == MEval(e.init, env, s, d)
             h == Holder(o.envs, env, e.name)
         IN IF o.raised THEN o
            ELSE IF h = 0 THEN Err(o, Error("undefined variable"))
            ELSE Out(Define_(o, h, e.name, o.v), Void)
    [] e.op = "call" ->
         LET o == MList(<<e.proc>> \o e.args, env, s, d, <<>>)
         IN IF o.raised THEN o ELSE MApply(Head(o.v), Tail(o.v), o, d)
    [] e.op = "let" ->
         LET local == Len(s.envs) + 1
         IN MBindings(e, 1, local, env, WithEnv(s, Env(<<>>, env)), d)
    [] e.op = "letrec" ->
         LET local == Len(s.envs) + 1
             unset == [x \in {e.names[i] : i \in DOMAIN e.names} |-> Void]
         IN MBindings(e, 1, local, local, WithEnv(s, Env(unset, env)), d)
    [] e.op = "logical" -> MLogical(e, 1, env, s, d)
    [] e.op = "cond" -> MClauses(e.clauses, env, s, d, Out(s, Void))
    [] e.op = "case" ->
         LET o == MEval(e.key, env, s, d)
             hits == {i \in DOMAIN e.clauses : e.clauses[i].kind = "else"
                                               \/ o.v \in e.clauses[i].datums}
         IN IF o.raised THEN o
            ELSE IF hits = {} THEN Out(o, Void)
            ELSE MTail(e.clauses[CHOOSE i \in hits : \A j \in hits : i <= j].body, env, o, d)
    [] e.op = "delay" ->
         Out(WithPromise(s, Thunk(e.body, env)), Promise(Len(s.promises) + 1))
    [] e.op = "cons-stream" ->
         LET o == MEval(e.head, env, s, d)
         IN IF o.raised THEN o
            ELSE Out(WithPromise(o, Thunk(e.tail, env)),
                     Cons(o.v, Promise(Len(o.promises) + 1)))
    [] e.op = "guard" ->
         LET o == MEval(e.body, env, s, d)
             new == Env([x \in {e.name} |-> o.v], env)
         IN IF o.raised
            THEN MClauses(e.clauses, Len(o.envs) + 1, WithEnv(o, new), d, Err(o, o.v))
            ELSE o

\* A program: its forms one after the other, up to the first that raises.
RECURSIVE MRun(_, _, _)
MRun(forms, s, out) ==
  IF forms = <<>> THEN [envs |-> s.envs, promises |-> s.promises, results |-> out]
  ELSE LET o == MEval(Head(forms), 1, s, 0)
       IN IF o.raised
          THEN [envs |-> o.envs, promises |-> o.promises,
                results |-> Append(out, [is |-> "thrown", v |-> o.v])]
          ELSE MRun(Tail(forms), o, Append(out, o.v))

Meaning(program) == MRun(program, [envs |-> <<GlobalEnv>>, promises |-> <<>>], <<>>)
-----------------------------------------------------------------------------
\* A program that has ended came to what its forms mean, in order, up to the
\* first that raises, and left the environments and promises they leave: the
\* trampoline, the frames it reuses and the unwinding of exceptions change
\* neither a value, nor the order of effects, nor where "recursion too deep"
\* strikes (Ctx::eval, apply_procedure, GuardExpr::eval, Promise::force).
ComputesMeaning ==
  (left = <<>> /\ stack = <<>>) =>
    [envs |-> envs, promises |-> promises, results |-> results] = Meaning(source)
=============================================================================
