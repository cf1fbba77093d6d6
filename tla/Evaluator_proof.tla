--------------------------- MODULE Evaluator_proof --------------------------
(***************************************************************************)
(* Proofs about Evaluator: how deep an evaluation nests, and what it uses. *)
(***************************************************************************)
EXTENDS Evaluator, SequenceTheorems, FiniteSetTheorems, TLAPS

(***************************************************************************)
(* For every program and every limit, an evaluation never nests more       *)
(* activations of Ctx::eval than the limit.                                *)
(***************************************************************************)
Shape == /\ \E S : stack \in Seq(S)
         /\ Len(stack) <= MaxDepth

\* The ways a step changes the stack.
LEMMA Replaced ==
  ASSUME Shape, stack # <<>>, NEW fr, stack' = WithTop(fr) PROVE Shape'
<1>1. PICK S : stack \in Seq(S)
  BY DEF Shape
<1>2. stack' = [stack EXCEPT ![Len(stack)] = fr]
  BY DEF WithTop
<1>3. stack' \in Seq(S \cup {fr}) /\ Len(stack') = Len(stack)
  BY <1>1, <1>2
<1> QED BY <1>3 DEF Shape

LEMMA Pushed ==
  ASSUME Shape, stack # <<>>, NEW fr, NEW g, Len(stack) < MaxDepth,
         stack' = Append(WithTop(fr), g)
  PROVE  Shape'
<1>1. PICK S : stack \in Seq(S)
  BY DEF Shape
<1>2. stack' = Append([stack EXCEPT ![Len(stack)] = fr], g)
  BY DEF WithTop
<1> DEFINE s == [stack EXCEPT ![Len(stack)] = fr]
<1>3. s \in Seq(S \cup {fr, g}) /\ Len(s) = Len(stack)
  BY <1>1
<1> HIDE DEF s
<1>4. stack' = Append(s, g)
  BY <1>2 DEF s
<1>5. stack' \in Seq(S \cup {fr, g}) /\ Len(stack') = Len(s) + 1
  BY <1>3, <1>4
<1> QED BY <1>1, <1>3, <1>5, DepthAssumption DEF Shape

LEMMA Popped == ASSUME Shape, stack # <<>>
                PROVE  /\ \A S : stack \in Seq(S) => Rest \in Seq(S)
                       /\ Len(Rest) = Len(stack) - 1
<1>1. PICK S : stack \in Seq(S)
  BY DEF Shape
<1>2. ASSUME NEW T, stack \in Seq(T) PROVE Rest \in Seq(T) /\ Len(Rest) = Len(stack) - 1
  <2>1. Len(stack) \in Nat /\ Len(stack) >= 1
    BY <1>2
  <2>2. \A i \in 1 .. Len(stack) - 1 : stack[i] \in T
    BY <1>2, <2>1
  <2>3. Rest = [i \in 1 .. Len(stack) - 1 |-> stack[i]]
    BY <1>2, <2>1 DEF Rest
  <2> QED BY <2>1, <2>2, <2>3
<1> QED BY <1>1, <1>2

LEMMA Kept == ASSUME Shape, UNCHANGED stack PROVE Shape'
BY DEF Shape

LEMMA Threw == ASSUME Shape, NEW v, Throw(v) PROVE Shape'
BY Kept DEF Throw

LEMMA Called == ASSUME Shape, stack # <<>>, NEW fr, NEW e, NEW env, CallEval(fr, e, env)
                PROVE  Shape'
<1>1. CASE Len(stack) >= MaxDepth
  BY <1>1, Threw DEF CallEval
<1>2. CASE ~(Len(stack) >= MaxDepth)
  <2>1. Len(stack) < MaxDepth
    <3>1. Len(stack) \in Nat
      BY DEF Shape
    <3> QED BY <1>2, <3>1, DepthAssumption
  <2> QED BY <1>2, <2>1, Pushed DEF CallEval
<1> QED BY <1>1, <1>2

LEMMA TailCalled == ASSUME Shape, stack # <<>>, NEW e, NEW env, TailCall(e, env) PROVE Shape'
BY Replaced DEF TailCall

LEMMA Became == ASSUME Shape, stack # <<>>, NEW fr, Becomes(fr) PROVE Shape'
BY Replaced DEF Becomes

LEMMA Returned == ASSUME Shape, stack # <<>>, NEW v, Return(v) PROVE Shape'
<1>1. PICK S : stack \in Seq(S)
  BY DEF Shape
<1>2. Rest \in Seq(S) /\ Len(Rest) = Len(stack) - 1
  BY <1>1, Popped
<1>3. CASE Rest = <<>>
  BY <1>3, DepthAssumption DEF Return, Shape
<1>4. CASE Rest # <<>>
  <2>1. PICK f : stack' = [Rest EXCEPT ![Len(Rest)] = f]
    BY <1>4 DEF Return
  <2>2. stack' \in Seq(S \cup {f}) /\ Len(stack') = Len(Rest)
    BY <1>2, <1>4, <2>1
  <2> QED BY <1>1, <1>2, <2>2, DepthAssumption DEF Shape
<1> QED BY <1>3, <1>4

\* One step of an Expr::eval, of a call or of a catch.
LEMMA ClausesKeep ==
  ASSUME Shape, stack # <<>>, NEW v, Clauses(Throw(v)) \/ Clauses(Return(v)) PROVE Shape'
BY Threw, Returned, TailCalled, Called DEF Clauses

LEMMA BindingsKeep ==
  ASSUME Shape, stack # <<>>, NEW env, Bindings(env) PROVE Shape'
BY TailCalled, Called DEF Bindings

LEMMA LocalKeeps ==
  ASSUME Shape, stack # <<>>, NEW b, NewLocal(b) PROVE Shape'
BY Became DEF NewLocal

LEMMA EvalKeeps == ASSUME Shape, stack # <<>>, NEW e, Eval(e) PROVE Shape'
BY Called DEF Eval

LEMMA ApplyingKeeps ==
  ASSUME Shape, stack # <<>>, NEW f, NEW args, Applying(f, args) PROVE Shape'
BY Became DEF Applying

LEMMA InitShape == Init => Shape
BY DepthAssumption DEF Init, Shape

LEMMA ExprKeeps == ASSUME Shape, ExprEval PROVE Shape'
<1>0. stack # <<>>
  BY DEF ExprEval, Literal, Reference, If, Begin, Lambda, Define, Set, Call, Let, LetRec,
         Logical, Cond, Receiver, Case, Delay, ConsStream, Guard, Handler, On, Running
<1>1. CASE Literal
  BY <1>0, <1>1, Returned DEF Literal
<1>2. CASE Reference
  BY <1>0, <1>2, Returned, Threw DEF Reference
<1>3. CASE If
  BY <1>0, <1>3, EvalKeeps, TailCalled DEF If
<1>4. CASE Begin
  BY <1>0, <1>4, EvalKeeps, TailCalled DEF Begin
<1>5. CASE Lambda
  BY <1>0, <1>5, Returned DEF Lambda
<1>6. CASE Define
  BY <1>0, <1>6, EvalKeeps, Returned DEF Define
<1>7. CASE Set
  BY <1>0, <1>7, EvalKeeps, Returned, Threw DEF Set
<1>8. CASE Call
  BY <1>0, <1>8, EvalKeeps, Became DEF Call
<1>9. CASE Let
  BY <1>0, <1>9, LocalKeeps, BindingsKeep DEF Let
<1>10. CASE LetRec
  BY <1>0, <1>10, LocalKeeps, BindingsKeep DEF LetRec
<1>11. CASE Logical
  BY <1>0, <1>11, EvalKeeps, TailCalled, Returned DEF Logical
<1>12. CASE Cond
  BY <1>0, <1>12, ClausesKeep DEF Cond
<1>13. CASE Receiver
  BY <1>0, <1>13, ApplyingKeeps DEF Receiver
<1>14. CASE Case
  BY <1>0, <1>14, EvalKeeps, TailCalled, Returned DEF Case
<1>15. CASE Delay
  BY <1>0, <1>15, Returned DEF Delay
<1>16. CASE ConsStream
  BY <1>0, <1>16, EvalKeeps, Returned DEF ConsStream
<1>17. CASE Guard
  BY <1>0, <1>17, EvalKeeps, Returned DEF Guard
<1>18. CASE Handler
  BY <1>0, <1>18, ClausesKeep DEF Handler
<1> QED BY <1>1, <1>2, <1>3, <1>4, <1>5, <1>6, <1>7, <1>8, <1>9, <1>10, <1>11, <1>12,
           <1>13, <1>14, <1>15, <1>16, <1>17, <1>18 DEF ExprEval

LEMMA ApplyKeeps == ASSUME Shape, Apply PROVE Shape'
<1>0. stack # <<>>
  BY DEF Apply, ApplyProcedure, ApplyApply, ApplyPrimitive, ApplyRaise, ApplyOther,
         ApplyForce, Forced, OnBuiltin, OnApply, Running
<1>1. CASE ApplyProcedure
  BY <1>0, <1>1, TailCalled, Threw DEF ApplyProcedure
<1>2. CASE ApplyApply
  BY <1>0, <1>2, ApplyingKeeps, Threw DEF ApplyApply
<1>3. CASE ApplyPrimitive
  BY <1>0, <1>3, Returned, Threw DEF ApplyPrimitive
<1>4. CASE ApplyRaise
  BY <1>0, <1>4, Threw DEF ApplyRaise
<1>5. CASE ApplyOther
  BY <1>0, <1>5, Threw DEF ApplyOther
<1>6. CASE ApplyForce
  BY <1>0, <1>6, Threw, Returned, Called DEF ApplyForce
<1>7. CASE Forced
  BY <1>0, <1>7, Returned DEF Forced
<1> QED BY <1>1, <1>2, <1>3, <1>4, <1>5, <1>6, <1>7 DEF Apply

LEMMA NextKeeps == ASSUME Shape, [Next]_vars PROVE Shape'
<1>1. CASE NextForm
  <2>1. PICK fr : stack' = <<fr>>
    BY <1>1 DEF NextForm
  <2>2. stack' \in Seq({fr}) /\ Len(stack') = 1
    BY <2>1
  <2> QED BY <2>2, DepthAssumption DEF Shape
<1>2. CASE Catch
  BY <1>2, Replaced DEF Catch
<1>3. CASE Unwind
  <2>1. stack # <<>> /\ stack' = Rest
    BY <1>3 DEF Unwind
  <2>2. PICK S : stack \in Seq(S)
    BY DEF Shape
  <2>3. stack' \in Seq(S) /\ Len(stack') = Len(stack) - 1
    BY <2>1, <2>2, Popped
  <2> QED BY <2>2, <2>3, DepthAssumption DEF Shape
<1>4. CASE ExprEval
  BY <1>4, ExprKeeps
<1>5. CASE Apply
  BY <1>5, ApplyKeeps
<1>6. CASE UNCHANGED vars
  BY <1>6, Kept DEF vars
<1> QED BY <1>1, <1>2, <1>3, <1>4, <1>5, <1>6 DEF Next

(***************************************************************************)
(* Whatever the program, no more than MaxDepth activations of Ctx::eval    *)
(* are ever nested (Ctx::DepthGuard): Shape, which adds that the stack is  *)
(* a sequence, is inductive.                                               *)
(***************************************************************************)
THEOREM DepthIsBounded == Spec => []DepthBounded
<1>1. Shape /\ [Next]_vars => Shape'
  BY NextKeeps
<1>2. Shape => DepthBounded
  BY DEF Shape, DepthBounded
<1> QED BY InitShape, <1>1, <1>2, PTL DEF Spec

-----------------------------------------------------------------------------
(***************************************************************************)
(* For every set of parsed programs and every limit, the evaluator uses    *)
(* values, environments, promises and frames only in the ways they can be  *)
(* used.  The invariant says of the state what the C++ types do not: there *)
(* are a set C of syntax nodes, a set D of constants and a set V of values *)
(* such that all that is stored or waited for is made of them, and every   *)
(* frame has the values that the rest of its Expr::eval takes for granted. *)
(* V is chosen again at every step that makes a value.                     *)
(*                                                                         *)
(* Env::lookup is a recursive function along the parents; that it finds    *)
(* the binding the scope rules say needs an induction on the index of the  *)
(* environment, which is here a consequence of the well-foundedness of the *)
(* finite sets of numbers.                                                 *)
(***************************************************************************)

(***************************************************************************)
(* Values.                                                                 *)
(***************************************************************************)
Messages == BuiltinNames \cup {"undefined variable", "arity", "not a procedure", "recursion too deep"}
Atoms(C, E, P) ==
  [is : {"void", "null"}] \cup [is : {"number"}, n : Int] \cup [is : {"bool"}, b : BOOLEAN]
  \cup [is : {"builtin"}, name : BuiltinNames] \cup [is : {"error"}, message : Messages]
  \cup [is : {"procedure"}, code : {c \in C : c.op = "lambda"}, env : 1 .. E]
  \cup [is : {"promise"}, id : 1 .. P]
Pairs(V) == [is : {"pair"}, elements : Seq(V) \ {<<>>}, tail : V]
Values(V, C, E, P) == Atoms(C, E, P) \subseteq V /\ V \subseteq Atoms(C, E, P) \cup Pairs(V)

LEMMA OfValue ==
  ASSUME NEW C, NEW E \in Nat, NEW P \in Nat, NEW V, Values(V, C, E, P), NEW v \in V
  PROVE  /\ v.is = "procedure" => v.code \in C /\ v.code.op = "lambda" /\ v.env \in 1 .. E
         /\ v.is = "promise" => v.id \in 1 .. P
         /\ v.is = "pair" => v.elements \in Seq(V) /\ v.elements # <<>> /\ v.tail \in V
         /\ v.is = "number" => v.n \in Int
         /\ v.is = "builtin" => v.name \in BuiltinNames
         /\ v # None /\ v.is # "thunk"
<1>1. CASE v \in Atoms(C, E, P)
  BY <1>1 DEF Atoms, None
<1>2. CASE v \in Pairs(V)
  BY <1>2 DEF Pairs, None
<1> QED BY <1>1, <1>2 DEF Values

LEMMA AtomValues ==
  ASSUME NEW C, NEW E \in Nat, NEW P \in Nat, NEW V, Values(V, C, E, P)
  PROVE  /\ Void \in V /\ Null \in V /\ TooDeep \in V
         /\ \A n \in Int : Num(n) \in V
         /\ \A b \in BOOLEAN : Bool(b) \in V
         /\ \A name \in BuiltinNames : Builtin(name) \in V
         /\ \A m \in Messages : Error(m) \in V
         /\ \A c \in C, env \in 1 .. E : c.op = "lambda" => Procedure(c, env) \in V
         /\ \A id \in 1 .. P : Promise(id) \in V
<1>0. Atoms(C, E, P) \subseteq V
  BY DEF Values
<1>1. Void \in V /\ Null \in V
  BY <1>0 DEF Atoms, Void, Null
<1>2. \A n \in Int : Num(n) \in V
  BY <1>0 DEF Atoms, Num
<1>3. \A b \in BOOLEAN : Bool(b) \in V
  BY <1>0 DEF Atoms, Bool
<1>4. \A name \in BuiltinNames : Builtin(name) \in V
  BY <1>0 DEF Atoms, Builtin
<1>5. \A m \in Messages : Error(m) \in V
  BY <1>0 DEF Atoms, Error
<1>6. \A c \in C, env \in 1 .. E : c.op = "lambda" => Procedure(c, env) \in V
  BY <1>0 DEF Atoms, Procedure
<1>7. \A id \in 1 .. P : Promise(id) \in V
  BY <1>0 DEF Atoms, Promise
<1>8. TooDeep \in V
  <2>1. "recursion too deep" \in Messages
    BY DEF Messages
  <2> QED BY <1>5, <2>1 DEF TooDeep
<1> QED BY <1>1, <1>2, <1>3, <1>4, <1>5, <1>6, <1>7, <1>8

LEMMA GrownValues ==
  ASSUME NEW C, NEW E \in Nat, NEW P \in Nat, NEW V, Values(V, C, E, P),
         NEW F \in Nat, NEW Q \in Nat, E <= F, P <= Q
  PROVE  \E W : V \subseteq W /\ Values(W, C, F, Q)
<1> DEFINE W == V \cup Atoms(C, F, Q)
<1>1. Atoms(C, E, P) \subseteq Atoms(C, F, Q)
  BY DEF Atoms
<1>2. Pairs(V) \subseteq Pairs(W)
  BY DEF Pairs
<1>3. Values(W, C, F, Q)
  BY <1>1, <1>2 DEF Values
<1> QED BY <1>3

LEMMA ListValue ==
  ASSUME NEW C, NEW E \in Nat, NEW P \in Nat, NEW V, Values(V, C, E, P),
         NEW s \in Seq(V), NEW t \in V
  PROVE  \E W : V \subseteq W /\ Values(W, C, E, P) /\ List(s, t) \in W
<1> DEFINE W == V \cup {List(s, t)}
<1>1. List(s, t) \in V \cup Pairs(V)
  <2>1. CASE s = <<>>
    BY <2>1 DEF List
  <2>2. CASE s # <<>> /\ t.is = "pair"
    <3>1. t.elements \in Seq(V) /\ t.tail \in V
      BY <2>2, OfValue
    <3>2. s \o t.elements \in Seq(V) /\ s \o t.elements # <<>>
      BY <2>2, <3>1
    <3> QED BY <2>2, <3>1, <3>2 DEF List, Pairs
  <2>3. CASE s # <<>> /\ t.is # "pair"
    BY <2>3 DEF List, Pairs
  <2> QED BY <2>1, <2>2, <2>3
<1>2. Pairs(V) \subseteq Pairs(W)
  BY DEF Pairs
<1>3. Values(W, C, E, P)
  BY <1>1, <1>2 DEF Values
<1> QED BY <1>3

LEMMA ElementValues ==
  ASSUME NEW C, NEW E \in Nat, NEW P \in Nat, NEW V, Values(V, C, E, P), NEW v \in V
  PROVE  Elements(v) \in Seq(V)
<1>1. v.is = "pair" => v.elements \in Seq(V)
  BY OfValue
<1> QED BY <1>1 DEF Elements

LEMMA PrimValue ==
  ASSUME NEW C, NEW E \in Nat, NEW P \in Nat, NEW V, Values(V, C, E, P),
         NEW name \in Primitives, NEW args \in Seq(V), Prim(name, args) # None
  PROVE  \E W : V \subseteq W /\ Values(W, C, E, P) /\ Prim(name, args) \in W
<1> DEFINE a == args[1]
           b == args[2]
           numbers == Len(args) = 2 /\ a.is = "number" /\ b.is = "number"
<1> USE DEF Arithmetic, Comparisons
<1>0. /\ Len(args) = 2 => a \in V /\ b \in V
      /\ Len(args) = 1 => a \in V
  OBVIOUS
<1>1. SUFFICES \/ Prim(name, args) \in V
               \/ \E s \in Seq(V), t \in V : Prim(name, args) = List(s, t)
  BY ListValue
<1>2. (\A n \in Int : Num(n) \in V) /\ (\A t \in BOOLEAN : Bool(t) \in V) /\ Null \in V
  BY AtomValues
<1>3. CASE name = "list"
  <2>1. Prim(name, args) = List(args, Null)
    BY <1>3 DEF Prim
  <2> QED BY <1>2, <2>1
<1>4. CASE name = "cons"
  <2>1. Len(args) = 2 /\ Prim(name, args) = List(<<a>>, b)
    BY <1>4 DEF Prim, Cons
  <2>2. <<a>> \in Seq(V) /\ b \in V
    BY <1>0, <2>1
  <2> QED BY <2>1, <2>2
<1>5. CASE name \in {"equal?", "eq?"}
  <2>1. Prim(name, args) \in {None, Bool(a = b)}
    BY <1>5 DEF Prim
  <2>2. (a = b) \in BOOLEAN
    OBVIOUS
  <2> QED BY <1>2, <2>1, <2>2
<1>6. CASE name \in Arithmetic \cup Comparisons
  <2>1. numbers
    BY <1>6 DEF Prim
  <2>2. a.n \in Int /\ b.n \in Int
    <3>1. \A v \in V : v.is = "number" => v.n \in Int
      BY OfValue
    <3> QED BY <1>0, <2>1, <3>1
  <2>3. CASE name \in Arithmetic
    <3>1. Prim(name, args) = Num(Compute(name, a.n, b.n))
      BY <2>1, <2>3 DEF Prim
    <3>2. Compute(name, a.n, b.n) \in Int
      BY <2>2, <2>3 DEF Compute
    <3> QED BY <1>2, <3>1, <3>2
  <2>4. CASE name \in Comparisons
    <3>1. Prim(name, args) = Bool(Compare(name, a.n, b.n))
      BY <2>1, <2>4 DEF Prim
    <3>2. /\ Compare("=", a.n, b.n) = (a.n = b.n)
          /\ Compare(">", a.n, b.n) = (a.n > b.n)
          /\ Compare(">=", a.n, b.n) = (a.n >= b.n)
      BY DEF Compare
    <3>3. (a.n = b.n) \in BOOLEAN /\ (a.n > b.n) \in BOOLEAN /\ (a.n >= b.n) \in BOOLEAN
      BY <2>2
    <3>4. Compare(name, a.n, b.n) \in BOOLEAN
      <4>1. CASE name = "="
        BY <4>1, <3>2, <3>3
      <4>2. CASE name = ">"
        BY <4>2, <3>2, <3>3
      <4>3. CASE name = ">="
        BY <4>3, <3>2, <3>3
      <4> QED BY <2>4, <4>1, <4>2, <4>3
    <3> QED BY <1>2, <3>1, <3>4
  <2> QED BY <1>6, <2>3, <2>4
<1>7. CASE name \in {"car", "cdr"}
  <2>1. Len(args) = 1 /\ a.is = "pair"
    BY <1>7 DEF Prim
  <2>2. a.elements \in Seq(V) /\ a.elements # <<>> /\ a.tail \in V
    BY <1>0, <2>1, OfValue
  <2>3. a.elements[1] \in V /\ Tail(a.elements) \in Seq(V)
    BY <2>2
  <2>4. Prim(name, args) \in {a.elements[1], List(Tail(a.elements), a.tail)}
    BY <1>7, <2>1 DEF Prim
  <2> QED BY <2>2, <2>3, <2>4
<1>8. CASE name = "length"
  <2>1. Prim(name, args) = Num(Len(Elements(a))) /\ Len(args) = 1
    BY <1>8 DEF Prim
  <2>2. Len(Elements(a)) \in Int
    BY <1>0, <2>1, ElementValues
  <2> QED BY <1>2, <2>1, <2>2
<1>9. CASE name \in {"null?", "not"}
  <2>1. Prim(name, args) \in {None, Bool(a = Null), Bool(~is_true(a))}
    BY <1>9 DEF Prim
  <2>2. (a = Null) \in BOOLEAN /\ (~is_true(a)) \in BOOLEAN
    OBVIOUS
  <2> QED BY <1>2, <2>1, <2>2
<1> QED BY <1>3, <1>4, <1>5, <1>6, <1>7, <1>8, <1>9 DEF Primitives

(***************************************************************************)
(* Frames.                                                                 *)
(***************************************************************************)
Frames(C, V, E) ==
  [e : C, env : 1 .. E, at : {"eval", "apply", "receiver", "force", "handler"},
   vals : Seq(V), local : 0 .. E, caught : V \cup {None}]

\* What a frame with n values needs to go on.
Ready(fr, n) ==
  /\ fr.at = "eval" /\ fr.e.op = "begin" => n < Len(fr.e.body)
  /\ fr.at = "eval" /\ fr.e.op = "logical" => n < Len(fr.e.operands)
  /\ fr.at = "apply" => n >= 1
  /\ fr.at = "receiver" => n >= 2
  /\ fr.at = "force" => Len(fr.vals) >= 2 /\ fr.vals[2].is = "promise"
  /\ fr.at = "handler" => fr.e.op = "guard" /\ fr.local # 0

\* A frame under another one waits for one value more.
Stacked(st, th, C, V, E) ==
  /\ st \in Seq(Frames(C, V, E)) /\ th \in V \cup {None}
  /\ th # None => st # <<>>
  /\ \A i \in 1 .. Len(st) : i < Len(st) => Ready(st[i], Len(st[i].vals) + 1)
  /\ st # <<>> /\ th = None => Ready(st[Len(st)], Len(st[Len(st)].vals))

LEMMA WiderFrames ==
  ASSUME NEW C, NEW V, NEW W, NEW E \in Nat, NEW F \in Nat, V \subseteq W, E <= F
  PROVE  Frames(C, V, E) \subseteq Frames(C, W, F)
<1>1. SUFFICES ASSUME NEW fr \in Frames(C, V, E) PROVE fr \in Frames(C, W, F)
  OBVIOUS
<1>2. fr.vals \in Seq(V) /\ fr.env \in 1 .. E /\ fr.local \in 0 .. E
  BY DEF Frames
<1>3. fr.vals \in Seq(W) /\ fr.env \in 1 .. F /\ fr.local \in 0 .. F
  BY <1>2
<1> QED BY <1>3 DEF Frames

LEMMA WiderStack ==
  ASSUME NEW C, NEW V, NEW W, NEW E \in Nat, NEW F \in Nat, V \subseteq W, E <= F,
         NEW st, NEW th, Stacked(st, th, C, V, E)
  PROVE  Stacked(st, th, C, W, F)
<1>1. st \in Seq(Frames(C, W, F))
  BY WiderFrames DEF Stacked
<1> QED BY <1>1 DEF Stacked

LEMMA FreshFrame ==
  ASSUME NEW C, NEW D, NEW V, NEW E \in Nat, Code(C, D), NEW e \in C, NEW env \in 1 .. E
  PROVE  Frame(e, env) \in Frames(C, V, E) /\ Ready(Frame(e, env), 0)
<1>1. Frame(e, env) \in Frames(C, V, E)
  <2>1. <<>> \in Seq(V) /\ 0 \in 0 .. E
    OBVIOUS
  <2> QED BY <2>1 DEF Frame, Frames
<1>2. Node(e, C, D)
  BY DEF Code
<1>3. e.op = "begin" => e.body \in Seq(C) /\ e.body # <<>>
  BY <1>2 DEF Node
<1>4. e.op = "logical" => e.operands \in Seq(C) /\ e.operands # <<>>
  BY <1>2 DEF Node
<1>5. /\ e.op = "begin" => 0 < Len(e.body)
      /\ e.op = "logical" => 0 < Len(e.operands)
  BY <1>3, <1>4
<1>6. Ready(Frame(e, env), 0)
  BY <1>5 DEF Frame, Ready
<1> QED BY <1>1, <1>6

\* The frame that runs.
LEMMA TopFrame ==
  ASSUME NEW C, NEW V, NEW E \in Nat, Stacked(stack, thrown, C, V, E), stack # <<>>
  PROVE  /\ Len(stack) \in Nat /\ Len(stack) >= 1
         /\ Top \in Frames(C, V, E)
         /\ N \in C /\ Top.env \in 1 .. E /\ Top.vals \in Seq(V) /\ Top.local \in 0 .. E
         /\ Top.caught \in V \cup {None} /\ got \in Nat
         /\ thrown = None => Ready(Top, got)
<1>1. Len(stack) \in Nat /\ Len(stack) >= 1 /\ Top \in Frames(C, V, E)
  BY DEF Stacked, Top
<1>2. Top.vals \in Seq(V)
  BY <1>1 DEF Frames
<1> QED BY <1>1, <1>2 DEF Frames, N, got, Stacked, Top

(***************************************************************************)
(* What a step does to the stack.                                          *)
(***************************************************************************)
LEMMA Replaces ==
  ASSUME NEW C, NEW V, NEW E \in Nat, Stacked(stack, thrown, C, V, E), stack # <<>>,
         NEW fr \in Frames(C, V, E), Ready(fr, Len(fr.vals)), stack' = WithTop(fr),
         thrown' = None
  PROVE  Stacked(stack', thrown', C, V, E)
<1>1. /\ stack' \in Seq(Frames(C, V, E)) /\ Len(stack') = Len(stack)
      /\ stack'[Len(stack)] = fr
      /\ \A i \in 1 .. Len(stack) : i < Len(stack) => stack'[i] = stack[i]
  BY TopFrame DEF Stacked, WithTop
<1> QED BY <1>1 DEF Stacked

LEMMA Throws ==
  ASSUME NEW C, NEW V, NEW E \in Nat, Stacked(stack, thrown, C, V, E), stack # <<>>,
         thrown = None, NEW v \in V \cup {None}, Throw(v)
  PROVE  Stacked(stack', thrown', C, V, E)
BY DEF Stacked, Throw

LEMMA Calls ==
  ASSUME NEW C, NEW D, NEW V, NEW E \in Nat, Stacked(stack, thrown, C, V, E), stack # <<>>,
         thrown = None, Code(C, D), TooDeep \in V,
         NEW fr \in Frames(C, V, E), Ready(fr, Len(fr.vals) + 1),
         NEW e \in C, NEW env \in 1 .. E, CallEval(fr, e, env)
  PROVE  Stacked(stack', thrown', C, V, E)
<1>1. CASE Len(stack) >= MaxDepth
  BY <1>1, Throws DEF CallEval
<1>2. CASE ~(Len(stack) >= MaxDepth)
  <2> DEFINE s == WithTop(fr)
             g == Frame(e, env)
  <2>1. /\ s \in Seq(Frames(C, V, E)) /\ Len(s) = Len(stack)
        /\ s[Len(stack)] = fr
        /\ \A i \in 1 .. Len(stack) : i < Len(stack) => s[i] = stack[i]
    BY TopFrame DEF Stacked, WithTop
  <2>2. g \in Frames(C, V, E) /\ Ready(g, 0) /\ g.vals = <<>>
    BY FreshFrame DEF Frame
  <2>3. stack' = Append(s, g) /\ thrown' = None
    BY <1>2 DEF CallEval
  <2>4. Len(stack) \in Nat /\ Len(stack) >= 1
    BY TopFrame
  <2> HIDE DEF s, g
  <2>5. /\ stack' \in Seq(Frames(C, V, E)) /\ Len(stack') = Len(stack) + 1
        /\ stack'[Len(stack')] = g
        /\ \A i \in 1 .. Len(stack) : stack'[i] = s[i]
    BY <2>1, <2>2, <2>3, <2>4
  <2>6. \A i \in 1 .. Len(stack') : i < Len(stack') => Ready(stack'[i], Len(stack'[i].vals) + 1)
    <3>1. SUFFICES ASSUME NEW i \in 1 .. Len(stack) PROVE Ready(stack'[i], Len(stack'[i].vals) + 1)
      BY <2>4, <2>5
    <3>2. CASE i = Len(stack)
      BY <2>1, <2>5, <3>2
    <3>3. CASE i < Len(stack)
      BY <2>1, <2>5, <3>3 DEF Stacked
    <3> QED BY <2>4, <3>2, <3>3
  <2>7. Ready(stack'[Len(stack')], Len(stack'[Len(stack')].vals))
    BY <2>2, <2>5
  <2> QED BY <2>3, <2>5, <2>6, <2>7 DEF Stacked
<1> QED BY <1>1, <1>2

LEMMA TailCalls ==
  ASSUME NEW C, NEW D, NEW V, NEW E \in Nat, Stacked(stack, thrown, C, V, E), stack # <<>>,
         thrown = None, Code(C, D), NEW e \in C, NEW env \in 1 .. E, TailCall(e, env)
  PROVE  Stacked(stack', thrown', C, V, E)
<1>1. Frame(e, env) \in Frames(C, V, E) /\ Ready(Frame(e, env), 0) /\ Frame(e, env).vals = <<>>
  BY FreshFrame DEF Frame
<1>2. Ready(Frame(e, env), Len(Frame(e, env).vals))
  BY <1>1
<1> QED BY <1>1, <1>2, Replaces DEF TailCall

LEMMA Returns ==
  ASSUME NEW C, NEW V, NEW E \in Nat, Stacked(stack, thrown, C, V, E), stack # <<>>,
         thrown = None, NEW v \in V, Return(v)
  PROVE  Stacked(stack', thrown', C, V, E)
<1>0. Len(stack) \in Nat /\ Len(stack) >= 1 /\ thrown' = None
  BY TopFrame DEF Return
<1>1. CASE Rest = <<>>
  BY <1>0, <1>1 DEF Return, Stacked
<1>2. CASE Rest # <<>>
  <2>1. /\ Rest \in Seq(Frames(C, V, E)) /\ Len(Rest) = Len(stack) - 1
        /\ \A i \in 1 .. Len(Rest) : Rest[i] = stack[i]
    <3>1. Rest = [i \in 1 .. Len(stack) - 1 |-> stack[i]]
      BY <1>0 DEF Stacked, Rest
    <3>2. \A i \in 1 .. Len(stack) - 1 : stack[i] \in Frames(C, V, E)
      BY <1>0 DEF Stacked
    <3> QED BY <1>0, <3>1, <3>2
  <2> DEFINE n == Len(Rest)
             fr == [Rest[n] EXCEPT !.vals = Append(@, v)]
  <2>2. n \in Nat /\ n >= 1 /\ n < Len(stack)
    BY <1>0, <1>2, <2>1
  <2>3. Rest[n] \in Frames(C, V, E) /\ Rest[n].vals \in Seq(V) /\ Len(Rest[n].vals) \in Nat
        /\ Ready(Rest[n], Len(Rest[n].vals) + 1)
    <3>1. Rest[n] \in Frames(C, V, E) /\ Rest[n] = stack[n] /\ n \in 1 .. Len(stack)
      BY <2>1, <2>2
    <3> QED BY <2>2, <3>1 DEF Stacked, Frames
  <2>4. fr \in Frames(C, V, E) /\ Len(fr.vals) = Len(Rest[n].vals) + 1
    <3>1. \A old \in Frames(C, V, E), vals \in Seq(V) :
             /\ [old EXCEPT !.vals = vals] \in Frames(C, V, E)
             /\ [old EXCEPT !.vals = vals].vals = vals
      BY DEF Frames
    <3>2. Append(Rest[n].vals, v) \in Seq(V)
          /\ Len(Append(Rest[n].vals, v)) = Len(Rest[n].vals) + 1
      BY <2>3
    <3>3. fr = [Rest[n] EXCEPT !.vals = Append(Rest[n].vals, v)]
      OBVIOUS
    <3> HIDE DEF fr, n
    <3> QED BY <2>3, <3>1, <3>2, <3>3
  <2>5. Ready(fr, Len(fr.vals))
    <3>1. fr.at = Rest[n].at /\ fr.e = Rest[n].e /\ fr.local = Rest[n].local
          /\ fr.vals = Append(Rest[n].vals, v)
      BY <2>3 DEF Frames
    <3>2. Rest[n].at = "force" => fr.vals[2] = Rest[n].vals[2]
      BY <2>3, <3>1 DEF Ready
    <3> HIDE DEF fr
    <3> QED BY <2>3, <2>4, <3>1, <3>2 DEF Ready
  <2>6. stack' = [Rest EXCEPT ![n] = fr]
    BY <1>2 DEF Return
  <2> HIDE DEF n, fr
  <2>7. /\ stack' \in Seq(Frames(C, V, E)) /\ Len(stack') = n
        /\ stack'[n] = fr
        /\ \A i \in 1 .. n : i < n => stack'[i] = stack[i]
    BY <2>1, <2>2, <2>4, <2>6 DEF n
  <2>8. \A i \in 1 .. n : i < n => Ready(stack'[i], Len(stack'[i].vals) + 1)
    BY <2>2, <2>7 DEF Stacked
  <2> QED BY <1>0, <2>5, <2>7, <2>8 DEF Stacked
<1> QED BY <1>1, <1>2

LEMMA Becoming ==
  ASSUME NEW C, NEW V, NEW E \in Nat, Stacked(stack, thrown, C, V, E), stack # <<>>,
         thrown = None, NEW fr \in Frames(C, V, E), Ready(fr, Len(fr.vals)), Becomes(fr)
  PROVE  Stacked(stack', thrown', C, V, E)
BY Replaces DEF Becomes

LEMMA Applies ==
  ASSUME NEW C, NEW V, NEW E \in Nat, Stacked(stack, thrown, C, V, E), stack # <<>>,
         thrown = None, NEW f \in V, NEW args \in Seq(V), Applying(f, args)
  PROVE  Stacked(stack', thrown', C, V, E)
<1> DEFINE fr == [Top EXCEPT !.at = "apply", !.vals = <<f>> \o args]
<1>1. <<f>> \o args \in Seq(V) /\ Len(<<f>> \o args) >= 1
  OBVIOUS
<1>2. fr \in Frames(C, V, E) /\ fr.at = "apply" /\ fr.vals = <<f>> \o args
  BY <1>1, TopFrame DEF Frames
<1>3. Ready(fr, Len(fr.vals))
  BY <1>1, <1>2 DEF Ready
<1> QED BY <1>2, <1>3, Becoming DEF Applying

LEMMA LeastElement ==
  ASSUME NEW T, T \subseteq Nat, T # {} PROVE \E n \in T : \A m \in T : n <= m
<1> DEFINE Below == {1 .. n : n \in T}
<1>1. Below \subseteq FiniteSubsetsOf(Nat) /\ Below # {}
  <2>1. \A n \in T : 1 .. n \in SUBSET Nat /\ IsFiniteSet(1 .. n)
    BY FS_Interval
  <2> QED BY <2>1 DEF FiniteSubsetsOf
<1>2. IsWellFoundedOn(StrictSubsetOrdering(Nat), FiniteSubsetsOf(Nat))
  BY FS_StrictSubsetOrderingWellFounded
<1>3. PICK B \in Below : \A A \in Below : <<A, B>> \notin StrictSubsetOrdering(Nat)
  <2> HIDE DEF Below
  <2> QED BY <1>1, <1>2, WFMin
<1>4. PICK n \in T : B = 1 .. n
  BY <1>3
<1>5. ASSUME NEW m \in T, m < n PROVE FALSE
  <2>1. 1 .. m \in Below
    OBVIOUS
  <2>2. 1 .. m \subseteq 1 .. n /\ n \in 1 .. n /\ n \notin 1 .. m
    BY <1>5
  <2>3. <<1 .. m, B>> \in StrictSubsetOrdering(Nat)
    BY <2>2, <1>4 DEF StrictSubsetOrdering
  <2> QED BY <2>1, <2>3, <1>3
<1> QED BY <1>5

LEMMA Induction ==
  ASSUME NEW T, 0 \in T, \A n \in Nat : n \in T => n + 1 \in T PROVE Nat \subseteq T
<1>1. SUFFICES ASSUME Nat \ T # {} PROVE FALSE
  OBVIOUS
<1>2. PICK n \in Nat \ T : \A m \in Nat \ T : n <= m
  BY <1>1, LeastElement
<1>3. n # 0 /\ n - 1 \in Nat /\ n - 1 \in T
  BY <1>2
<1> QED BY <1>2, <1>3

(***************************************************************************)
(* Environments.                                                           *)
(***************************************************************************)
Parents(es) == Len(es) \in Nat /\ \A i \in 1 .. Len(es) : es[i].parent \in 0 .. i - 1
Lookup(es, x, n, h) ==
  h = [i \in 0 .. n |-> IF i = 0 \/ x \in DOMAIN es[i].bindings THEN i ELSE h[es[i].parent]]

LEMMA LookupExists ==
  ASSUME NEW es, Parents(es), NEW x PROVE \E h : Lookup(es, x, Len(es), h)
<1> DEFINE T == {n \in Nat : n <= Len(es) => \E h : Lookup(es, x, n, h)}
<1>1. 0 \in T
  <2>1. Lookup(es, x, 0, [i \in 0 .. 0 |-> 0])
    BY DEF Lookup
  <2> QED BY <2>1
<1>2. ASSUME NEW n \in Nat, n \in T, n + 1 <= Len(es)
      PROVE  \E h : Lookup(es, x, n + 1, h)
  <2>1. PICK h : Lookup(es, x, n, h)
    BY <1>2 DEF Parents
  <2>2. es[n + 1].parent \in 0 .. n /\ \A i \in 1 .. n : es[i].parent \in 0 .. i - 1
    BY <1>2 DEF Parents
  <2> DEFINE g == [i \in 0 .. n + 1 |->
                     IF i <= n THEN h[i]
                     ELSE IF x \in DOMAIN es[n + 1].bindings THEN n + 1 ELSE h[es[n + 1].parent]]
  <2>3. \A i \in 0 .. n : g[i] = h[i]
    OBVIOUS
  <2>4. ASSUME NEW i \in 0 .. n + 1
        PROVE  g[i] = IF i = 0 \/ x \in DOMAIN es[i].bindings THEN i ELSE g[es[i].parent]
    <3>1. CASE i = n + 1
      <4>1. g[i] = IF x \in DOMAIN es[i].bindings THEN i ELSE h[es[i].parent]
        BY <3>1
      <4>2. g[es[i].parent] = h[es[i].parent]
        BY <2>2, <2>3, <3>1
      <4> QED BY <3>1, <4>1, <4>2
    <3>2. CASE i <= n
      <4>1. h[i] = IF i = 0 \/ x \in DOMAIN es[i].bindings THEN i ELSE h[es[i].parent]
        BY <2>1, <3>2 DEF Lookup
      <4>2. i # 0 => g[es[i].parent] = h[es[i].parent]
        BY <2>2, <2>3, <3>2
      <4> QED BY <2>3, <3>2, <4>1, <4>2
    <3> QED BY <3>1, <3>2
  <2>5. Lookup(es, x, n + 1, g)
    <3>1. g = [i \in 0 .. n + 1 |-> g[i]]
      OBVIOUS
    <3> HIDE DEF g
    <3> QED BY <2>4, <3>1 DEF Lookup
  <2> QED BY <2>5
<1>3. Nat \subseteq T
  <2>1. \A n \in Nat : n \in T => n + 1 \in T
    BY <1>2
  <2> HIDE DEF T
  <2> QED BY <1>1, <2>1, Induction
<1> QED BY <1>3 DEF Parents

\* Env::lookup and Env::set look in the environment, then in its parent.
LEMMA LookupLaw ==
  ASSUME NEW es, Parents(es), NEW x, NEW e \in 0 .. Len(es)
  PROVE  Holder(es, e, x) = IF e = 0 \/ x \in DOMAIN es[e].bindings
                            THEN e ELSE Holder(es, es[e].parent, x)
<1> DEFINE H == CHOOSE h : h = [i \in 0 .. Len(es) |->
                     IF i = 0 \/ x \in DOMAIN es[i].bindings THEN i ELSE h[es[i].parent]]
<1>1. Lookup(es, x, Len(es), H)
  <2>1. \E h : h = [i \in 0 .. Len(es) |->
                     IF i = 0 \/ x \in DOMAIN es[i].bindings THEN i ELSE h[es[i].parent]]
    <3>1. PICK h : Lookup(es, x, Len(es), h)
      BY LookupExists
    <3> QED BY <3>1 DEF Lookup
  <2>2. H = [i \in 0 .. Len(es) |->
               IF i = 0 \/ x \in DOMAIN es[i].bindings THEN i ELSE H[es[i].parent]]
    BY <2>1
  <2> HIDE DEF H
  <2> QED BY <2>2 DEF Lookup
<1>2. \A i : Holder(es, i, x) = H[i]
  BY DEF Holder
<1> HIDE DEF H
<1> QED BY <1>1, <1>2 DEF Lookup

\* What is found is an environment that binds the name.
LEMMA FoundBinds ==
  ASSUME NEW es, Parents(es), NEW x, NEW e \in 0 .. Len(es), Holder(es, e, x) # 0
  PROVE  Holder(es, e, x) \in 1 .. Len(es) /\ x \in DOMAIN es[Holder(es, e, x)].bindings
<1> DEFINE Binds(h) == h # 0 => h \in 1 .. Len(es) /\ x \in DOMAIN es[h].bindings
           T == {i \in 0 .. Len(es) : ~Binds(Holder(es, i, x))}
<1>1. ASSUME T # {} PROVE FALSE
  <2>1. T \subseteq Nat
    BY DEF Parents
  <2>2. PICK i \in T : \A j \in T : i <= j
    <3> HIDE DEF T
    <3> QED BY <1>1, <2>1, LeastElement
  <2>3. i \in 0 .. Len(es)
    OBVIOUS
  <2>4. Holder(es, i, x) = IF i = 0 \/ x \in DOMAIN es[i].bindings
                           THEN i ELSE Holder(es, es[i].parent, x)
    BY <2>3, LookupLaw
  <2>5. i # 0 /\ x \notin DOMAIN es[i].bindings
    BY <2>2, <2>3, <2>4
  <2>6. es[i].parent \in 0 .. Len(es) /\ es[i].parent < i
    BY <2>3, <2>5 DEF Parents
  <2>7. es[i].parent \notin T
    BY <2>1, <2>2, <2>6
  <2> QED BY <2>2, <2>4, <2>5, <2>6, <2>7
<1> QED BY <1>1

(***************************************************************************)
(* The store.                                                              *)
(***************************************************************************)
IsEnv(s, V, p) == /\ s = Env(s.bindings, s.parent) /\ s.parent \in 0 .. p
                  /\ \A x \in DOMAIN s.bindings : s.bindings[x] \in V
Thunks(C, E) == [is : {"thunk"}, body : C, env : 1 .. E]
Stored(es, ps, C, V) ==
  /\ Len(es) \in Nat /\ Len(es) >= 1 /\ es = [i \in 1 .. Len(es) |-> es[i]]
  /\ \A i \in 1 .. Len(es) : IsEnv(es[i], V, i - 1)
  /\ ps \in Seq(V \cup Thunks(C, Len(es)))

LEMMA StoredParents == ASSUME NEW es, NEW ps, NEW C, NEW V, Stored(es, ps, C, V) PROVE Parents(es)
BY DEF Stored, Parents, IsEnv

LEMMA WiderStore ==
  ASSUME NEW es, NEW ps, NEW C, NEW V, NEW W, V \subseteq W, Stored(es, ps, C, V)
  PROVE  Stored(es, ps, C, W)
BY DEF Stored, IsEnv

LEMMA DefinedStore ==
  ASSUME NEW es, NEW ps, NEW C, NEW V, Stored(es, ps, C, V), NEW e, NEW x, NEW v \in V
  PROVE  /\ Stored(Defined(es, e, x, v), ps, C, V) /\ Len(Defined(es, e, x, v)) = Len(es)
         /\ \A i \in 1 .. Len(es) : /\ Defined(es, e, x, v)[i].parent = es[i].parent
                                    /\ DOMAIN es[i].bindings \subseteq
                                         DOMAIN Defined(es, e, x, v)[i].bindings
<1> DEFINE b(old) == [y \in DOMAIN old \cup {x} |-> IF y = x THEN v ELSE old[y]]
           new == Defined(es, e, x, v)
<1>1. new = [es EXCEPT ![e].bindings = b(@)]
  BY DEF Defined
<1>2. \A i \in 1 .. Len(es) :
         new[i] = IF i = e THEN [es[i] EXCEPT !.bindings = b(es[i].bindings)] ELSE es[i]
  BY <1>1 DEF Stored
<1>3. DOMAIN new = 1 .. Len(es) /\ new = [i \in 1 .. Len(es) |-> new[i]]
  BY <1>1 DEF Stored
<1>4. Len(new) = Len(es)
  BY <1>3 DEF Stored
<1> HIDE DEF new
<1>5. ASSUME NEW i \in 1 .. Len(es)
      PROVE  IsEnv(new[i], V, i - 1) /\ new[i].parent = es[i].parent
             /\ DOMAIN es[i].bindings \subseteq DOMAIN new[i].bindings
  <2>1. IsEnv(es[i], V, i - 1)
    BY DEF Stored
  <2>2. CASE i # e
    BY <1>2, <2>1, <2>2
  <2>3. CASE i = e
    <3>1. new[i] = Env(b(es[i].bindings), es[i].parent)
      BY <1>2, <2>1, <2>3 DEF IsEnv, Env
    <3>2. \A y \in DOMAIN b(es[i].bindings) : b(es[i].bindings)[y] \in V
      BY <2>1 DEF IsEnv
    <3>3. DOMAIN es[i].bindings \subseteq DOMAIN b(es[i].bindings)
      OBVIOUS
    <3> HIDE DEF b
    <3> QED BY <2>1, <3>1, <3>2, <3>3 DEF IsEnv, Env
  <2> QED BY <2>2, <2>3
<1> QED BY <1>3, <1>4, <1>5 DEF Stored, new

LEMMA NewStore ==
  ASSUME NEW es, NEW ps, NEW C, NEW V, Stored(es, ps, C, V), NEW b, NEW p \in 0 .. Len(es),
         \A x \in DOMAIN b : b[x] \in V
  PROVE  /\ Stored(Append(es, Env(b, p)), ps, C, V) /\ Len(Append(es, Env(b, p))) = Len(es) + 1
         /\ \A i \in 1 .. Len(es) : Append(es, Env(b, p))[i] = es[i]
<1> DEFINE new == Append(es, Env(b, p))
           n == Len(es)
           S == {es[i] : i \in 1 .. n} \cup {Env(b, p)}
<1>1. es \in Seq(S)
  <2>1. n \in Nat /\ es = [i \in 1 .. n |-> es[i]]
    BY DEF Stored
  <2>2. es \in [1 .. n -> S]
    BY <2>1
  <2> QED BY <2>1, <2>2, SeqDef
<1>2. /\ Len(new) = n + 1 /\ new = [i \in 1 .. n + 1 |-> new[i]]
      /\ \A i \in 1 .. n : new[i] = es[i]
      /\ new[n + 1] = Env(b, p)
  <2>1. Env(b, p) \in S
    OBVIOUS
  <2> DEFINE env == Env(b, p)
  <2> HIDE DEF S, env
  <2>2. Append(es, env) \in Seq(S) /\ Len(Append(es, env)) = Len(es) + 1 /\ Len(es) \in Nat
    BY <1>1, <2>1 DEF env
  <2>3. /\ \A i \in 1 .. Len(es) : Append(es, env)[i] = es[i]
        /\ Append(es, env)[Len(es) + 1] = env
    BY <1>1, <2>1 DEF env
  <2>4. Append(es, env) = [i \in 1 .. Len(es) + 1 |-> Append(es, env)[i]]
    <3>1. \A q \in Seq(S) : q = [i \in 1 .. Len(q) |-> q[i]]
      BY SeqDef
    <3> QED BY <2>2, <3>1
  <2> QED BY <2>2, <2>3, <2>4 DEF env
<1>3. IsEnv(Env(b, p), V, n)
  BY DEF IsEnv, Env
<1>4. n \in Nat /\ n >= 1 /\ \A i \in 1 .. n : IsEnv(es[i], V, i - 1)
  BY DEF Stored
<1>5. ps \in Seq(V \cup Thunks(C, n + 1))
  <2>1. Thunks(C, n) \subseteq Thunks(C, n + 1)
    BY <1>4 DEF Thunks
  <2> QED BY <2>1 DEF Stored
<1> HIDE DEF new, n
<1>6. \A i \in 1 .. n + 1 : IsEnv(new[i], V, i - 1)
  <2>1. SUFFICES ASSUME NEW i \in 1 .. n + 1 PROVE IsEnv(new[i], V, i - 1)
    OBVIOUS
  <2>2. CASE i = n + 1
    BY <1>2, <1>3, <1>4, <2>2
  <2>3. CASE i # n + 1
    <3>1. i \in 1 .. n
      BY <1>4, <2>3
    <3> QED BY <1>2, <1>4, <3>1
  <2> QED BY <2>2, <2>3
<1>7. Stored(new, ps, C, V)
  BY <1>2, <1>4, <1>5, <1>6 DEF Stored
<1> QED BY <1>2, <1>7 DEF new, n

(***************************************************************************)
(* The invariant.                                                          *)
(***************************************************************************)
Typed(C, D, V) ==
  /\ Code(C, D) /\ D \subseteq V /\ left \in Seq(C)
  /\ Values(V, C, Len(envs), Len(promises))
  /\ Stored(envs, promises, C, V)
  /\ Stacked(stack, thrown, C, V, Len(envs))

LEMMA Sizes == ASSUME NEW C, NEW D, NEW V, Typed(C, D, V)
               PROVE  Len(envs) \in Nat /\ Len(envs) >= 1 /\ Len(promises) \in Nat
BY DEF Typed, Stored

LEMMA Parts ==
  ASSUME NEW C, NEW D, Code(C, D), NEW e \in C
  PROVE  /\ e.op = "lit" => e.value \in D
         /\ e.op = "if" => e.test \in C /\ e.then \in C /\ e.else \in C
         /\ e.op = "begin" => e.body \in Seq(C)
         /\ e.op = "lambda" => /\ e.body \in C /\ Len(e.fixed) \in Nat
                               /\ DOMAIN e.fixed = 1 .. Len(e.fixed)
         /\ e.op \in {"define", "set"} => e.init \in C
         /\ e.op = "call" => e.proc \in C /\ e.args \in Seq(C)
         /\ e.op \in {"let", "letrec"} => e.inits \in Seq(C) /\ e.body \in C
         /\ e.op = "logical" => e.operands \in Seq(C)
         /\ e.op \in {"cond", "guard", "case"} =>
              /\ Len(e.clauses) \in Nat /\ DOMAIN e.clauses = 1 .. Len(e.clauses)
              /\ \A i \in 1 .. Len(e.clauses) : e.clauses[i].body \in C
         /\ e.op \in {"cond", "guard"} => \A i \in 1 .. Len(e.clauses) : e.clauses[i].test \in C
         /\ e.op = "guard" => e.body \in C
         /\ e.op = "case" => e.key \in C
         /\ e.op = "delay" => e.body \in C
         /\ e.op = "cons-stream" => e.head \in C /\ e.tail \in C
<1>1. Node(e, C, D)
  BY DEF Code
<1>2. e.op = "lit" => e.value \in D
  BY <1>1 DEF Node
<1>3. e.op = "if" => e.test \in C /\ e.then \in C /\ e.else \in C
  BY <1>1 DEF Node
<1>4. e.op = "begin" => e.body \in Seq(C)
  BY <1>1 DEF Node
<1>5. e.op = "lambda" => /\ e.body \in C /\ Len(e.fixed) \in Nat
                         /\ DOMAIN e.fixed = 1 .. Len(e.fixed)
  BY <1>1 DEF Node
<1>6. e.op \in {"define", "set"} => e.init \in C
  BY <1>1 DEF Node
<1>7. e.op = "call" => e.proc \in C /\ e.args \in Seq(C)
  BY <1>1 DEF Node
<1>8. e.op \in {"let", "letrec"} => e.inits \in Seq(C) /\ e.body \in C
  BY <1>1 DEF Node
<1>9. e.op = "logical" => e.operands \in Seq(C)
  BY <1>1 DEF Node
<1>10. e.op \in {"cond", "guard", "case"} =>
         /\ Len(e.clauses) \in Nat /\ DOMAIN e.clauses = 1 .. Len(e.clauses)
         /\ \A i \in 1 .. Len(e.clauses) : e.clauses[i].body \in C
  BY <1>1 DEF Node
<1>11. e.op \in {"cond", "guard"} => \A i \in 1 .. Len(e.clauses) : e.clauses[i].test \in C
  BY <1>1 DEF Node
<1>12. /\ e.op = "guard" => e.body \in C
       /\ e.op = "case" => e.key \in C
       /\ e.op = "delay" => e.body \in C
       /\ e.op = "cons-stream" => e.head \in C /\ e.tail \in C
  BY <1>1 DEF Node
<1> QED BY <1>2, <1>3, <1>4, <1>5, <1>6, <1>7, <1>8, <1>9, <1>10, <1>11, <1>12

\* Steps that leave the environments and the promises as they are.
LEMMA SameStore ==
  ASSUME NEW C, NEW D, NEW V, Typed(C, D, V), UNCHANGED <<store, left>>,
         Stacked(stack', thrown', C, V, Len(envs))
  PROVE  \E W : Typed(C, D, W)'
<1>1. Typed(C, D, V)'
  BY DEF Typed, store
<1> QED BY <1>1

LEMMA EvalTyped ==
  ASSUME NEW C, NEW D, NEW V, Typed(C, D, V), Running,
         Ready(Top, got + 1), NEW e \in C, Eval(e)
  PROVE  Stacked(stack', thrown', C, V, Len(envs))
<1>1. Top \in Frames(C, V, Len(envs)) /\ Top.env \in 1 .. Len(envs) /\ TooDeep \in V
  BY Sizes, TopFrame, AtomValues DEF Typed, Running
<1> QED BY <1>1, Sizes, Calls DEF Typed, Running, Eval, got

LEMMA TailTyped ==
  ASSUME NEW C, NEW D, NEW V, Typed(C, D, V), Running, NEW e \in C, TailCall(e, Top.env)
  PROVE  Stacked(stack', thrown', C, V, Len(envs))
<1>1. Top.env \in 1 .. Len(envs)
  BY Sizes, TopFrame DEF Typed, Running
<1> QED BY <1>1, Sizes, TailCalls DEF Typed, Running

LEMMA ReturnTyped ==
  ASSUME NEW C, NEW D, NEW V, Typed(C, D, V), Running, NEW v \in V, Return(v)
  PROVE  Stacked(stack', thrown', C, V, Len(envs))
BY Sizes, Returns DEF Typed, Running

LEMMA ThrowTyped ==
  ASSUME NEW C, NEW D, NEW V, Typed(C, D, V), Running, NEW v \in V \cup {None}, Throw(v)
  PROVE  Stacked(stack', thrown', C, V, Len(envs))
BY Sizes, Throws DEF Typed, Running

LEMMA ErrorTyped ==
  ASSUME NEW C, NEW D, NEW V, Typed(C, D, V), Running, NEW m \in Messages, Throw(Error(m))
  PROVE  Stacked(stack', thrown', C, V, Len(envs))
<1>1. Error(m) \in V
  BY Sizes, AtomValues DEF Typed
<1> QED BY <1>1, ThrowTyped

\* The top frame of a step, by the node it evaluates.
LEMMA OnTyped ==
  ASSUME NEW C, NEW D, NEW V, Typed(C, D, V), NEW op, On(op)
  PROVE  /\ Running /\ N \in C /\ N.op = op /\ Top.at = "eval" /\ got \in Nat
         /\ Top.vals \in Seq(V) /\ \A i \in 1 .. got : Top.vals[i] \in V
         /\ Top.env \in 1 .. Len(envs) /\ Top.local \in 0 .. Len(envs)
         /\ op \notin {"begin", "logical"} => Ready(Top, got + 1)
         /\ op = "begin" => N.body \in Seq(C) /\ got < Len(N.body)
         /\ op = "logical" => N.operands \in Seq(C) /\ got < Len(N.operands)
<1>1. Running /\ N.op = op /\ Top.at = "eval" /\ stack # <<>> /\ thrown = None
  BY DEF On, Running
<1>2. /\ N \in C /\ Top.vals \in Seq(V) /\ got \in Nat /\ Ready(Top, got)
      /\ Top.env \in 1 .. Len(envs) /\ Top.local \in 0 .. Len(envs)
  BY <1>1, Sizes, TopFrame DEF Typed
<1>3. \A i \in 1 .. got : Top.vals[i] \in V
  BY <1>2 DEF got
<1>4. op \notin {"begin", "logical"} => Ready(Top, got + 1)
  BY <1>1 DEF Ready, N
<1>5. op = "begin" => N.body \in Seq(C) /\ got < Len(N.body)
  <2>1. op = "begin" => N.body \in Seq(C)
    BY <1>1, <1>2, Parts DEF Typed
  <2> QED BY <1>1, <1>2, <2>1 DEF Ready, N
<1>6. op = "logical" => N.operands \in Seq(C) /\ got < Len(N.operands)
  <2>1. op = "logical" => N.operands \in Seq(C)
    BY <1>1, <1>2, Parts DEF Typed
  <2> QED BY <1>1, <1>2, <2>1 DEF Ready, N
<1> QED BY <1>1, <1>2, <1>3, <1>4, <1>5, <1>6

LEMMA LiteralTyped ==
  ASSUME NEW C, NEW D, NEW V, Typed(C, D, V), UNCHANGED left, Literal
  PROVE  \E W : Typed(C, D, W)'
<1>1. Running /\ N \in C /\ N.op = "lit"
  BY OnTyped DEF Literal
<1>2. N.value \in V
  BY <1>1, Parts DEF Typed
<1>3. Return(N.value) /\ UNCHANGED store
  BY DEF Literal
<1> QED BY <1>1, <1>2, <1>3, ReturnTyped, SameStore

LEMMA ReferenceTyped ==
  ASSUME NEW C, NEW D, NEW V, Typed(C, D, V), UNCHANGED left, Reference
  PROVE  \E W : Typed(C, D, W)'
<1> DEFINE h == Holder(envs, Top.env, N.name)
<1>1. Running /\ Top.env \in 1 .. Len(envs) /\ UNCHANGED store
  BY OnTyped DEF Reference
<1>2. CASE h = 0
  <2>1. Throw(Error("undefined variable"))
    BY <1>2 DEF Reference
  <2>2. "undefined variable" \in Messages
    BY DEF Messages
  <2> QED BY <1>1, <2>1, <2>2, ErrorTyped, SameStore
<1>3. CASE h # 0
  <2>1. h \in 1 .. Len(envs) /\ N.name \in DOMAIN envs[h].bindings
    BY <1>1, <1>3, Sizes, StoredParents, FoundBinds DEF Typed
  <2>2. envs[h].bindings[N.name] \in V
    <3> HIDE DEF h
    <3> QED BY <2>1 DEF Typed, Stored, IsEnv
  <2>3. Return(envs[h].bindings[N.name])
    BY <1>3 DEF Reference
  <2> QED BY <1>1, <2>2, <2>3, ReturnTyped, SameStore
<1> QED BY <1>2, <1>3

LEMMA IfTyped ==
  ASSUME NEW C, NEW D, NEW V, Typed(C, D, V), UNCHANGED left, If
  PROVE  \E W : Typed(C, D, W)'
<1>1. Running /\ N \in C /\ N.op = "if" /\ Ready(Top, got + 1) /\ UNCHANGED store
  BY OnTyped DEF If
<1>2. N.test \in C /\ N.then \in C /\ N.else \in C
  BY <1>1, Parts DEF Typed
<1>3. CASE got = 0
  BY <1>1, <1>2, <1>3, EvalTyped, SameStore DEF If
<1>4. CASE got # 0
  <2> DEFINE e == IF is_true(Top.vals[1]) THEN N.then ELSE N.else
  <2>1. TailCall(e, Top.env) /\ e \in C
    BY <1>2, <1>4 DEF If
  <2> QED BY <1>1, <2>1, TailTyped, SameStore
<1> QED BY <1>3, <1>4

LEMMA BeginTyped ==
  ASSUME NEW C, NEW D, NEW V, Typed(C, D, V), UNCHANGED left, Begin
  PROVE  \E W : Typed(C, D, W)'
<1> DEFINE e == N.body[got + 1]
<1>1. /\ Running /\ N.op = "begin" /\ got \in Nat /\ Top.at = "eval"
      /\ N.body \in Seq(C) /\ got < Len(N.body) /\ UNCHANGED store
  BY OnTyped DEF Begin
<1>2. e \in C
  BY <1>1
<1>3. CASE got + 1 < Len(N.body)
  <2>1. Ready(Top, got + 1)
    BY <1>1, <1>3 DEF Ready, N
  <2>2. Eval(e)
    BY <1>3 DEF Begin
  <2> HIDE DEF e
  <2> QED BY <1>1, <1>2, <2>1, <2>2, EvalTyped, SameStore
<1>4. CASE ~(got + 1 < Len(N.body))
  <2>1. TailCall(e, Top.env)
    BY <1>4 DEF Begin
  <2> HIDE DEF e
  <2> QED BY <1>1, <1>2, <2>1, TailTyped, SameStore
<1> QED BY <1>3, <1>4

LEMMA LambdaTyped ==
  ASSUME NEW C, NEW D, NEW V, Typed(C, D, V), UNCHANGED left, Lambda
  PROVE  \E W : Typed(C, D, W)'
<1>1. Running /\ N \in C /\ N.op = "lambda" /\ Top.env \in 1 .. Len(envs)
  BY OnTyped DEF Lambda
<1>2. Procedure(N, Top.env) \in V
  BY <1>1, Sizes, AtomValues DEF Typed
<1>3. Return(Procedure(N, Top.env)) /\ UNCHANGED store
  BY DEF Lambda
<1> QED BY <1>1, <1>2, <1>3, ReturnTyped, SameStore

\* Steps that change what a name is bound to.
LEMMA DefinedTyped ==
  ASSUME NEW C, NEW D, NEW V, Typed(C, D, V), UNCHANGED <<promises, left>>,
         NEW e, NEW x, NEW v \in V, envs' = Defined(envs, e, x, v),
         Stacked(stack', thrown', C, V, Len(envs))
  PROVE  \E W : Typed(C, D, W)'
<1>1. Stored(envs', promises, C, V) /\ Len(envs') = Len(envs)
  BY DefinedStore DEF Typed
<1>2. Typed(C, D, V)'
  BY <1>1 DEF Typed
<1> QED BY <1>2

LEMMA DefineTyped ==
  ASSUME NEW C, NEW D, NEW V, Typed(C, D, V), UNCHANGED left, Define
  PROVE  \E W : Typed(C, D, W)'
<1>1. /\ Running /\ N \in C /\ N.op = "define" /\ Ready(Top, got + 1) /\ UNCHANGED promises
      /\ \A i \in 1 .. got : Top.vals[i] \in V
  BY OnTyped DEF Define
<1>2. CASE got = 0 /\ Eval(N.init) /\ UNCHANGED envs
  <2>1. N.init \in C
    BY <1>1, Parts DEF Typed
  <2> QED BY <1>1, <1>2, <2>1, EvalTyped, SameStore DEF store
<1>3. CASE got = 1 /\ Return(Void) /\ envs' = Defined(envs, Top.env, N.name, Top.vals[1])
  <2>1. Void \in V
    BY Sizes, AtomValues DEF Typed
  <2>2. Stacked(stack', thrown', C, V, Len(envs)) /\ Top.vals[1] \in V
    BY <1>1, <1>3, <2>1, ReturnTyped
  <2> QED BY <1>1, <1>3, <2>2, DefinedTyped
<1> QED BY <1>2, <1>3 DEF Define

LEMMA SetTyped ==
  ASSUME NEW C, NEW D, NEW V, Typed(C, D, V), UNCHANGED left, Set
  PROVE  \E W : Typed(C, D, W)'
<1> DEFINE h == Holder(envs, Top.env, N.name)
<1>1. /\ Running /\ N \in C /\ N.op = "set" /\ Ready(Top, got + 1) /\ UNCHANGED promises
      /\ \A i \in 1 .. got : Top.vals[i] \in V
  <2>1. On("set") /\ UNCHANGED promises
    BY DEF Set
  <2> QED BY <2>1, OnTyped
<1>2. CASE got = 0 /\ Eval(N.init) /\ UNCHANGED envs
  <2>1. N.init \in C
    BY <1>1, Parts DEF Typed
  <2> QED BY <1>1, <1>2, <2>1, EvalTyped, SameStore DEF store
<1>3. CASE Throw(Error("undefined variable")) /\ UNCHANGED envs
  <2>1. "undefined variable" \in Messages
    BY DEF Messages
  <2> QED BY <1>1, <1>3, <2>1, ErrorTyped, SameStore DEF store
<1>4. CASE got = 1 /\ Return(Void) /\ envs' = Defined(envs, h, N.name, Top.vals[1])
  <2>1. Void \in V
    BY Sizes, AtomValues DEF Typed
  <2>2. Stacked(stack', thrown', C, V, Len(envs)) /\ Top.vals[1] \in V
    BY <1>1, <1>4, <2>1, ReturnTyped
  <2> HIDE DEF h
  <2> QED BY <1>1, <1>4, <2>2, DefinedTyped
<1> QED BY <1>2, <1>3, <1>4 DEF Set

LEMMA CallTyped ==
  ASSUME NEW C, NEW D, NEW V, Typed(C, D, V), UNCHANGED left, Call
  PROVE  \E W : Typed(C, D, W)'
<1>1. /\ Running /\ N \in C /\ N.op = "call" /\ Ready(Top, got + 1) /\ UNCHANGED store
      /\ got \in Nat
  <2>1. On("call") /\ UNCHANGED store
    BY DEF Call
  <2> QED BY <2>1, OnTyped
<1>2. N.proc \in C /\ N.args \in Seq(C)
  BY <1>1, Parts DEF Typed
<1>3. CASE got <= Len(N.args)
  <2> DEFINE e == (<<N.proc>> \o N.args)[got + 1]
  <2>1. Eval(e)
    BY <1>3 DEF Call
  <2>2. e \in C
    <3>1. <<N.proc>> \o N.args \in Seq(C) /\ Len(<<N.proc>> \o N.args) = Len(N.args) + 1
      BY <1>2
    <3> QED BY <1>1, <1>2, <1>3, <3>1
  <2> HIDE DEF e
  <2> QED BY <1>1, <2>1, <2>2, EvalTyped, SameStore
<1>4. CASE ~(got <= Len(N.args))
  <2> DEFINE fr == [Top EXCEPT !.at = "apply"]
  <2>1. Becomes(fr)
    BY <1>4 DEF Call
  <2>2. fr \in Frames(C, V, Len(envs)) /\ fr.at = "apply" /\ fr.vals = Top.vals
    <3>1. Top \in Frames(C, V, Len(envs))
      BY <1>1, Sizes, TopFrame DEF Typed, Running
    <3> QED BY <3>1 DEF Frames
  <2>3. Len(fr.vals) >= 1
    BY <1>1, <1>2, <1>4, <2>2 DEF got
  <2>4. Ready(fr, Len(fr.vals))
    BY <2>2, <2>3 DEF Ready
  <2> HIDE DEF fr
  <2>5. Stacked(stack', thrown', C, V, Len(envs))
    BY <1>1, <2>1, <2>2, <2>4, Sizes, Becoming DEF Typed, Running
  <2> QED BY <1>1, <2>5, SameStore
<1> QED BY <1>3, <1>4

LEMMA LogicalTyped ==
  ASSUME NEW C, NEW D, NEW V, Typed(C, D, V), UNCHANGED left, Logical
  PROVE  \E W : Typed(C, D, W)'
<1> DEFINE e == N.operands[got + 1]
<1>1. /\ Running /\ N.op = "logical" /\ got \in Nat /\ Top.at = "eval"
      /\ N.operands \in Seq(C) /\ got < Len(N.operands) /\ UNCHANGED store
      /\ \A i \in 1 .. got : Top.vals[i] \in V
  BY OnTyped DEF Logical
<1>2. e \in C
  BY <1>1
<1>3. CASE got > 0 /\ Return(Top.vals[got])
  <2>1. Top.vals[got] \in V
    BY <1>1, <1>3
  <2> QED BY <1>1, <1>3, <2>1, ReturnTyped, SameStore
<1>4. CASE got + 1 < Len(N.operands) /\ Eval(e)
  <2>1. Ready(Top, got + 1)
    BY <1>1, <1>4 DEF Ready, N
  <2> HIDE DEF e
  <2> QED BY <1>1, <1>2, <1>4, <2>1, EvalTyped, SameStore
<1>5. CASE TailCall(e, Top.env)
  <2> HIDE DEF e
  <2> QED BY <1>1, <1>2, <1>5, TailTyped, SameStore
<1> QED BY <1>3, <1>4, <1>5 DEF Logical

LEMMA CaseTyped ==
  ASSUME NEW C, NEW D, NEW V, Typed(C, D, V), UNCHANGED left, Case
  PROVE  \E W : Typed(C, D, W)'
<1> DEFINE matching == {i \in DOMAIN N.clauses : \/ N.clauses[i].kind = "else"
                                                 \/ Top.vals[1] \in N.clauses[i].datums}
           first == CHOOSE i \in matching : \A j \in matching : i <= j
<1>1. /\ Running /\ N \in C /\ N.op = "case" /\ Ready(Top, got + 1) /\ UNCHANGED store
  BY OnTyped DEF Case
<1>2. /\ N.key \in C /\ Len(N.clauses) \in Nat /\ DOMAIN N.clauses = 1 .. Len(N.clauses)
      /\ \A i \in 1 .. Len(N.clauses) : N.clauses[i].body \in C
  BY <1>1, Parts DEF Typed
<1>3. CASE Eval(N.key)
  BY <1>1, <1>2, <1>3, EvalTyped, SameStore
<1>4. CASE matching # {} /\ TailCall(N.clauses[first].body, Top.env)
  <2>1. matching \subseteq 1 .. Len(N.clauses) /\ matching \subseteq Nat
    BY <1>2
  <2>2. first \in matching
    <3> HIDE DEF matching
    <3>1. \E i \in matching : \A j \in matching : i <= j
      BY <1>4, <2>1, LeastElement
    <3> QED BY <3>1
  <2> HIDE DEF matching, first
  <2>3. N.clauses[first].body \in C
    BY <1>2, <2>1, <2>2
  <2> QED BY <1>1, <1>4, <2>3, TailTyped, SameStore
<1>5. CASE Return(Void)
  <2>1. Void \in V
    BY Sizes, AtomValues DEF Typed
  <2> QED BY <1>1, <1>5, <2>1, ReturnTyped, SameStore
<1> QED BY <1>3, <1>4, <1>5 DEF Case

LEMMA GuardTyped ==
  ASSUME NEW C, NEW D, NEW V, Typed(C, D, V), UNCHANGED left, Guard
  PROVE  \E W : Typed(C, D, W)'
<1>1. /\ Running /\ N \in C /\ N.op = "guard" /\ Ready(Top, got + 1) /\ UNCHANGED store
      /\ got \in Nat /\ \A i \in 1 .. got : Top.vals[i] \in V
  BY OnTyped DEF Guard
<1>2. CASE got = 0
  <2>1. N.body \in C
    BY <1>1, Parts DEF Typed
  <2> QED BY <1>1, <1>2, <2>1, EvalTyped, SameStore DEF Guard
<1>3. CASE got # 0
  <2>1. Top.vals[1] \in V /\ Return(Top.vals[1])
    BY <1>1, <1>3 DEF Guard
  <2> QED BY <1>1, <2>1, ReturnTyped, SameStore
<1> QED BY <1>2, <1>3

(***************************************************************************)
(* The clauses of a cond and of a handler.                                 *)
(***************************************************************************)
LEMMA ClausesTyped ==
  ASSUME NEW C, NEW D, NEW V, Typed(C, D, V), Running,
         \/ Top.at = "eval" /\ N.op = "cond"
         \/ Top.at = "handler",
         Clauses(Return(Void)) \/ Clauses(Throw(Top.caught))
  PROVE  Stacked(stack', thrown', C, V, Len(envs))
<1> DEFINE hit == got > 0 /\ is_true(Top.vals[got])
           i == IF hit THEN got ELSE got + 1
           c == N.clauses[i]
           fr == [Top EXCEPT !.at = "receiver"]
<1>1. /\ Top \in Frames(C, V, Len(envs)) /\ N \in C /\ got \in Nat /\ Top.vals \in Seq(V)
      /\ Top.env \in 1 .. Len(envs) /\ Top.local \in 0 .. Len(envs)
      /\ Top.caught \in V \cup {None} /\ Ready(Top, got)
      /\ stack # <<>> /\ thrown = None /\ Stacked(stack, thrown, C, V, Len(envs))
  BY Sizes, TopFrame DEF Typed, Running
<1>2. N.op \in {"cond", "guard"} /\ ClauseEnv \in 1 .. Len(envs) /\ Ready(Top, got + 1)
  BY <1>1 DEF Ready, N, ClauseEnv
<1>3. /\ Len(N.clauses) \in Nat
      /\ \A k \in 1 .. Len(N.clauses) : N.clauses[k].body \in C /\ N.clauses[k].test \in C
  BY <1>1, <1>2, Parts DEF Typed
<1>4. Void \in V /\ TooDeep \in V /\ Len(envs) \in Nat /\ Code(C, D)
  BY Sizes, AtomValues DEF Typed
<1>5. CASE Return(Void)
  BY <1>4, <1>5, ReturnTyped
<1>6. CASE Throw(Top.caught)
  BY <1>1, <1>6, ThrowTyped
<1>7. CASE ~(i > Len(N.clauses))
  <2>1. i \in 1 .. Len(N.clauses)
    BY <1>1, <1>3, <1>7
  <2>2. c.body \in C /\ c.test \in C
    BY <1>3, <2>1
  <2>3. hit => Top.vals[got] \in V
    BY <1>1 DEF got
  <2>4. hit => fr \in Frames(C, V, Len(envs)) /\ Ready(fr, Len(fr.vals) + 1)
    <3>1. fr \in Frames(C, V, Len(envs)) /\ fr.vals = Top.vals /\ fr.at = "receiver"
      BY <1>1 DEF Frames
    <3> QED BY <1>1, <3>1 DEF Ready, got
  <2>5. \/ TailCall(c.body, ClauseEnv)
        \/ CallEval(Top, c.test, ClauseEnv)
        \/ hit /\ Return(Top.vals[got])
        \/ hit /\ CallEval(fr, c.body, ClauseEnv)
    BY <1>7 DEF Clauses
  <2> HIDE DEF hit, c, fr
  <2>6. CASE TailCall(c.body, ClauseEnv)
    BY <1>1, <1>2, <1>4, <2>2, <2>6, TailCalls
  <2>7. CASE CallEval(Top, c.test, ClauseEnv)
    BY <1>1, <1>2, <1>4, <2>2, <2>7, Calls DEF got
  <2>8. CASE hit /\ Return(Top.vals[got])
    BY <2>3, <2>8, ReturnTyped
  <2>9. CASE hit /\ CallEval(fr, c.body, ClauseEnv)
    BY <1>1, <1>2, <1>4, <2>2, <2>4, <2>9, Calls
  <2> QED BY <2>5, <2>6, <2>7, <2>8, <2>9
<1> QED BY <1>5, <1>6, <1>7 DEF Clauses

LEMMA CondTyped ==
  ASSUME NEW C, NEW D, NEW V, Typed(C, D, V), UNCHANGED left, Cond
  PROVE  \E W : Typed(C, D, W)'
<1>1. Running /\ Top.at = "eval" /\ N.op = "cond" /\ Clauses(Return(Void)) /\ UNCHANGED store
  BY DEF Cond, On
<1> QED BY <1>1, ClausesTyped, SameStore

LEMMA HandlerTyped ==
  ASSUME NEW C, NEW D, NEW V, Typed(C, D, V), UNCHANGED left, Handler
  PROVE  \E W : Typed(C, D, W)'
<1>1. Running /\ Top.at = "handler" /\ Clauses(Throw(Top.caught)) /\ UNCHANGED store
  BY DEF Handler
<1> QED BY <1>1, ClausesTyped, SameStore

LEMMA ApplyingTyped ==
  ASSUME NEW C, NEW D, NEW V, Typed(C, D, V), UNCHANGED <<store, left>>, Running,
         NEW f \in V, NEW args \in Seq(V), Applying(f, args)
  PROVE  \E W : Typed(C, D, W)'
<1>1. Stacked(stack', thrown', C, V, Len(envs))
  BY Sizes, Applies DEF Typed, Running
<1> QED BY <1>1, SameStore

LEMMA ReceiverTyped ==
  ASSUME NEW C, NEW D, NEW V, Typed(C, D, V), UNCHANGED left, Receiver
  PROVE  \E W : Typed(C, D, W)'
<1>1. Running /\ Top.at = "receiver" /\ UNCHANGED store
      /\ Applying(Top.vals[got], <<Top.vals[got - 1]>>)
  BY DEF Receiver
<1>2. Top.vals \in Seq(V) /\ got \in Nat /\ Ready(Top, got)
  BY <1>1, Sizes, TopFrame DEF Typed, Running
<1>3. got >= 2
  BY <1>1, <1>2 DEF Ready
<1>4. Top.vals[got] \in V /\ Top.vals[got - 1] \in V
  BY <1>2, <1>3 DEF got
<1>5. <<Top.vals[got - 1]>> \in Seq(V)
  BY <1>4
<1> QED BY <1>1, <1>4, <1>5, ApplyingTyped DEF store

(***************************************************************************)
(* Steps that allocate an environment.                                     *)
(***************************************************************************)
LEMMA Allocated ==
  ASSUME NEW C, NEW D, NEW V, Typed(C, D, V), NEW b, NEW p \in 0 .. Len(envs),
         \A x \in DOMAIN b : b[x] \in V
  PROVE  \E W : /\ V \subseteq W /\ D \subseteq W
                /\ Values(W, C, Len(envs) + 1, Len(promises))
                /\ Stored(Append(envs, Env(b, p)), promises, C, W)
                /\ Len(Append(envs, Env(b, p))) = Len(envs) + 1
                /\ Stacked(stack, thrown, C, W, Len(envs) + 1)
<1>0. Len(envs) \in Nat /\ Len(envs) + 1 \in Nat /\ Len(promises) \in Nat
  BY Sizes
<1>1. PICK W : V \subseteq W /\ Values(W, C, Len(envs) + 1, Len(promises))
  <2>1. Values(V, C, Len(envs), Len(promises))
    BY DEF Typed
  <2>2. Len(envs) <= Len(envs) + 1 /\ Len(promises) <= Len(promises)
    BY <1>0
  <2> QED BY <1>0, <2>1, <2>2, GrownValues
<1>2. Stored(envs, promises, C, W)
  BY <1>1, WiderStore DEF Typed
<1>3. \A x \in DOMAIN b : b[x] \in W
  BY <1>1
<1>4. /\ Stored(Append(envs, Env(b, p)), promises, C, W)
      /\ Len(Append(envs, Env(b, p))) = Len(envs) + 1
  BY <1>2, <1>3, NewStore
<1>5. Stacked(stack, thrown, C, W, Len(envs) + 1)
  <2>1. Stacked(stack, thrown, C, V, Len(envs)) /\ Len(envs) <= Len(envs) + 1
    BY <1>0 DEF Typed
  <2> QED BY <1>0, <1>1, <2>1, WiderStack
<1>6. D \subseteq W
  BY <1>1 DEF Typed
<1> QED BY <1>1, <1>4, <1>5, <1>6

LEMMA AllocatedTyped ==
  ASSUME NEW C, NEW D, NEW V, Typed(C, D, V), UNCHANGED <<promises, left>>,
         NEW b, NEW p, envs' = Append(envs, Env(b, p)), NEW W, D \subseteq W,
         Values(W, C, Len(envs) + 1, Len(promises)),
         Stored(Append(envs, Env(b, p)), promises, C, W),
         Len(Append(envs, Env(b, p))) = Len(envs) + 1,
         Stacked(stack', thrown', C, W, Len(envs) + 1)
  PROVE  Typed(C, D, W)'
BY DEF Typed

LEMMA NewLocalTyped ==
  ASSUME NEW C, NEW D, NEW V, Typed(C, D, V), UNCHANGED <<promises, left>>, Running,
         Top.at = "eval", N.op \in {"let", "letrec"},
         NEW b, \A x \in DOMAIN b : b[x] \in V, NewLocal(b)
  PROVE  \E W : Typed(C, D, W)'
<1>1. Top.env \in 0 .. Len(envs)
  BY Sizes, TopFrame DEF Typed, Running
<1>2. PICK W : /\ V \subseteq W /\ D \subseteq W
               /\ Values(W, C, Len(envs) + 1, Len(promises))
               /\ Stored(Append(envs, Env(b, Top.env)), promises, C, W)
               /\ Len(Append(envs, Env(b, Top.env))) = Len(envs) + 1
               /\ Stacked(stack, thrown, C, W, Len(envs) + 1)
  BY <1>1, Allocated
<1> DEFINE fr == [Top EXCEPT !.local = Len(envs')]
           E == Len(envs) + 1
<1>3. envs' = Append(envs, Env(b, Top.env)) /\ Becomes(fr) /\ E \in Nat
  BY Sizes DEF NewLocal
<1>4. Top \in Frames(C, W, E)
  BY <1>2, <1>3, TopFrame DEF Running
<1>5. fr \in Frames(C, W, E) /\ fr.at = "eval" /\ fr.e.op = N.op
  BY <1>2, <1>3, <1>4 DEF Frames, N
<1>6. Ready(fr, Len(fr.vals))
  BY <1>5 DEF Ready
<1> HIDE DEF fr
<1>7. Stacked(stack', thrown', C, W, E)
  BY <1>2, <1>3, <1>5, <1>6, Becoming DEF Running
<1> QED BY <1>2, <1>3, <1>7, AllocatedTyped

LEMMA BindingsTyped ==
  ASSUME NEW C, NEW D, NEW V, Typed(C, D, V), UNCHANGED <<promises, left>>, Running,
         Top.at = "eval", N.op \in {"let", "letrec"}, Top.local # 0,
         NEW env \in 1 .. Len(envs), Bindings(env)
  PROVE  \E W : Typed(C, D, W)'
<1>1. /\ Top \in Frames(C, V, Len(envs)) /\ N \in C /\ Top.local \in 1 .. Len(envs)
      /\ got \in Nat /\ Top.vals \in Seq(V) /\ TooDeep \in V /\ Len(envs) \in Nat
      /\ stack # <<>> /\ thrown = None /\ Code(C, D)
      /\ Stacked(stack, thrown, C, V, Len(envs))
  <2>1. /\ Len(envs) \in Nat /\ Len(promises) \in Nat /\ stack # <<>> /\ thrown = None
        /\ Code(C, D) /\ Stacked(stack, thrown, C, V, Len(envs))
        /\ Values(V, C, Len(envs), Len(promises))
    BY Sizes DEF Typed, Running
  <2>2. TooDeep \in V
    BY <2>1, AtomValues
  <2> QED BY <2>1, <2>2, TopFrame
<1>2. N.inits \in Seq(C) /\ N.body \in C
  BY <1>1, Parts
<1>3. Ready(Top, got + 1)
  BY DEF Ready, N
<1>4. Stacked(stack', thrown', C, V, Len(envs))
  <2>1. CASE got < Len(N.inits)
    <3>1. N.inits[got + 1] \in C /\ CallEval(Top, N.inits[got + 1], env)
      BY <1>1, <1>2, <2>1 DEF Bindings
    <3> QED BY <1>1, <1>3, <3>1, Calls DEF got
  <2>2. CASE ~(got < Len(N.inits))
    <3>1. TailCall(N.body, Top.local)
      BY <2>2 DEF Bindings
    <3> QED BY <1>1, <1>2, <3>1, TailCalls
  <2> QED BY <2>1, <2>2
<1>5. CASE got = 0
  <2>1. UNCHANGED <<store, left>>
    BY <1>5 DEF Bindings, store
  <2> QED BY <1>4, <2>1, SameStore
<1>6. CASE got # 0
  <2>1. envs' = Defined(envs, Top.local, N.names[got], Top.vals[got]) /\ Top.vals[got] \in V
    BY <1>1, <1>6 DEF Bindings, got
  <2> QED BY <1>4, <2>1, DefinedTyped
<1> QED BY <1>5, <1>6

LEMMA LetTyped ==
  ASSUME NEW C, NEW D, NEW V, Typed(C, D, V), UNCHANGED left, Let
  PROVE  \E W : Typed(C, D, W)'
<1>1. On("let") /\ UNCHANGED promises
  BY DEF Let
<1>2. Running /\ Top.at = "eval" /\ N.op = "let" /\ Top.env \in 1 .. Len(envs)
  BY <1>1, OnTyped
<1>3. CASE Top.local = 0
  <2>1. NewLocal(<<>>) /\ \A x \in DOMAIN <<>> : <<>>[x] \in V
    BY <1>3 DEF Let
  <2> QED BY <1>1, <1>2, <2>1, NewLocalTyped
<1>4. CASE Top.local # 0
  <2>1. Bindings(Top.env)
    BY <1>4 DEF Let
  <2> QED BY <1>1, <1>2, <1>4, <2>1, BindingsTyped
<1> QED BY <1>3, <1>4

LEMMA LetRecTyped ==
  ASSUME NEW C, NEW D, NEW V, Typed(C, D, V), UNCHANGED left, LetRec
  PROVE  \E W : Typed(C, D, W)'
<1>1. On("letrec") /\ UNCHANGED promises
  BY DEF LetRec
<1>2. Running /\ Top.at = "eval" /\ N.op = "letrec" /\ Top.local \in 0 .. Len(envs)
  BY <1>1, OnTyped
<1>3. CASE Top.local = 0
  <2> DEFINE b == [x \in {N.names[i] : i \in DOMAIN N.names} |-> Void]
  <2>1. NewLocal(b)
    BY <1>3 DEF LetRec
  <2>2. \A x \in DOMAIN b : b[x] \in V
    BY Sizes, AtomValues DEF Typed
  <2> HIDE DEF b
  <2> QED BY <1>1, <1>2, <2>1, <2>2, NewLocalTyped
<1>4. CASE Top.local # 0
  <2>1. Bindings(Top.local) /\ Top.local \in 1 .. Len(envs)
    BY <1>2, <1>4, Sizes DEF LetRec
  <2> QED BY <1>1, <1>2, <1>4, <2>1, BindingsTyped
<1> QED BY <1>3, <1>4

\* Catch, of the exception that its guard is to handle.
LEMMA CatchTyped ==
  ASSUME NEW C, NEW D, NEW V, Typed(C, D, V), Catch
  PROVE  \E W : Typed(C, D, W)'
<1> DEFINE b == [x \in {N.name} |-> thrown]
           E == Len(envs) + 1
           fr == [Top EXCEPT !.at = "handler", !.local = Len(envs'), !.caught = thrown]
<1>1. /\ stack # <<>> /\ thrown # None /\ Top.e.op = "guard"
      /\ envs' = Append(envs, Env(b, Top.env)) /\ stack' = WithTop(fr) /\ thrown' = None
      /\ UNCHANGED <<promises, left>>
  BY DEF Catch, Catches
<1>2. Top.env \in 0 .. Len(envs) /\ thrown \in V /\ E \in Nat
  BY <1>1, Sizes, TopFrame DEF Typed, Stacked
<1>3. \A x \in DOMAIN b : b[x] \in V
  BY <1>2
<1> HIDE DEF b
<1>4. PICK W : /\ V \subseteq W /\ D \subseteq W
               /\ Values(W, C, Len(envs) + 1, Len(promises))
               /\ Stored(Append(envs, Env(b, Top.env)), promises, C, W)
               /\ Len(Append(envs, Env(b, Top.env))) = Len(envs) + 1
               /\ Stacked(stack, thrown, C, W, Len(envs) + 1)
  BY <1>2, <1>3, Allocated
<1>5. Top \in Frames(C, W, E)
  BY <1>1, <1>2, <1>4, TopFrame
<1>6. /\ fr \in Frames(C, W, E) /\ fr.at = "handler" /\ fr.e.op = "guard" /\ fr.local = E
  <2>1. thrown \in W /\ Len(envs') \in 0 .. E /\ Len(envs') = E
    BY <1>1, <1>2, <1>4
  <2> QED BY <1>1, <1>5, <2>1 DEF Frames
<1>7. Ready(fr, Len(fr.vals))
  BY <1>2, <1>6, Sizes DEF Ready
<1> HIDE DEF fr
<1>8. Stacked(stack', thrown', C, W, E)
  BY <1>1, <1>2, <1>4, <1>6, <1>7, Replaces
<1> QED BY <1>1, <1>4, <1>8, AllocatedTyped

(***************************************************************************)
(* Steps that allocate a promise.                                          *)
(***************************************************************************)
LEMMA Promised ==
  ASSUME NEW C, NEW D, NEW V, Typed(C, D, V), NEW body \in C, NEW env \in 1 .. Len(envs)
  PROVE  \E W : /\ V \subseteq W /\ D \subseteq W
                /\ Values(W, C, Len(envs), Len(promises) + 1)
                /\ Promise(Len(promises) + 1) \in W
                /\ Stored(envs, Append(promises, Thunk(body, env)), C, W)
                /\ Len(Append(promises, Thunk(body, env))) = Len(promises) + 1
                /\ Stacked(stack, thrown, C, W, Len(envs))
<1>0. Len(envs) \in Nat /\ Len(promises) + 1 \in Nat /\ Len(promises) \in Nat
  BY Sizes
<1>1. PICK W : V \subseteq W /\ Values(W, C, Len(envs), Len(promises) + 1)
  <2>1. Values(V, C, Len(envs), Len(promises))
    BY DEF Typed
  <2>2. Len(envs) <= Len(envs) /\ Len(promises) <= Len(promises) + 1
    BY <1>0
  <2> QED BY <1>0, <2>1, <2>2, GrownValues
<1>2. Promise(Len(promises) + 1) \in W
  <2>1. Len(promises) + 1 \in 1 .. Len(promises) + 1
    BY <1>0
  <2> QED BY <1>0, <1>1, <2>1, AtomValues
<1>3. Stored(envs, promises, C, W) /\ Stacked(stack, thrown, C, W, Len(envs)) /\ D \subseteq W
  <2>1. Len(envs) <= Len(envs)
    BY <1>0
  <2> QED BY <1>0, <1>1, <2>1, WiderStore, WiderStack DEF Typed
<1>4. Thunk(body, env) \in Thunks(C, Len(envs))
  BY DEF Thunk, Thunks
<1>5. /\ Stored(envs, Append(promises, Thunk(body, env)), C, W)
      /\ Len(Append(promises, Thunk(body, env))) = Len(promises) + 1
  BY <1>3, <1>4 DEF Stored
<1> QED BY <1>1, <1>2, <1>3, <1>5

LEMMA PromisedTyped ==
  ASSUME NEW C, NEW D, NEW V, Typed(C, D, V), UNCHANGED <<envs, left>>,
         NEW t, promises' = Append(promises, t), NEW W, D \subseteq W,
         Values(W, C, Len(envs), Len(promises) + 1),
         Stored(envs, Append(promises, t), C, W),
         Len(Append(promises, t)) = Len(promises) + 1,
         Stacked(stack', thrown', C, W, Len(envs))
  PROVE  Typed(C, D, W)'
BY DEF Typed

LEMMA DelayTyped ==
  ASSUME NEW C, NEW D, NEW V, Typed(C, D, V), UNCHANGED left, Delay
  PROVE  \E W : Typed(C, D, W)'
<1>1. /\ On("delay") /\ UNCHANGED envs /\ promises' = Append(promises, Thunk(N.body, Top.env))
      /\ Return(Promise(Len(promises')))
  BY DEF Delay
<1>2. Running /\ N \in C /\ N.op = "delay" /\ Top.env \in 1 .. Len(envs)
  BY <1>1, OnTyped
<1>3. N.body \in C
  BY <1>2, Parts DEF Typed
<1>4. PICK W : /\ V \subseteq W /\ D \subseteq W
               /\ Values(W, C, Len(envs), Len(promises) + 1)
               /\ Promise(Len(promises) + 1) \in W
               /\ Stored(envs, Append(promises, Thunk(N.body, Top.env)), C, W)
               /\ Len(Append(promises, Thunk(N.body, Top.env))) = Len(promises) + 1
               /\ Stacked(stack, thrown, C, W, Len(envs))
  BY <1>2, <1>3, Promised
<1>5. Stacked(stack', thrown', C, W, Len(envs))
  BY <1>1, <1>2, <1>4, Sizes, Returns DEF Running
<1> QED BY <1>1, <1>4, <1>5, PromisedTyped

LEMMA ConsStreamTyped ==
  ASSUME NEW C, NEW D, NEW V, Typed(C, D, V), UNCHANGED left, ConsStream
  PROVE  \E W : Typed(C, D, W)'
<1>1. On("cons-stream") /\ UNCHANGED envs
  BY DEF ConsStream
<1>2. /\ Running /\ N \in C /\ N.op = "cons-stream" /\ Top.env \in 1 .. Len(envs)
      /\ Ready(Top, got + 1) /\ \A i \in 1 .. got : Top.vals[i] \in V
  BY <1>1, OnTyped
<1>3. N.head \in C /\ N.tail \in C
  BY <1>2, Parts DEF Typed
<1>4. CASE Eval(N.head) /\ UNCHANGED promises
  BY <1>1, <1>2, <1>3, <1>4, EvalTyped, SameStore DEF store
<1>5. CASE /\ got = 1 /\ promises' = Append(promises, Thunk(N.tail, Top.env))
           /\ Return(Cons(Top.vals[1], Promise(Len(promises'))))
  <2>1. PICK W : /\ V \subseteq W /\ D \subseteq W
                 /\ Values(W, C, Len(envs), Len(promises) + 1)
                 /\ Promise(Len(promises) + 1) \in W
                 /\ Stored(envs, Append(promises, Thunk(N.tail, Top.env)), C, W)
                 /\ Len(Append(promises, Thunk(N.tail, Top.env))) = Len(promises) + 1
                 /\ Stacked(stack, thrown, C, W, Len(envs))
    BY <1>2, <1>3, Promised
  <2>2. <<Top.vals[1]>> \in Seq(W)
    BY <1>2, <1>5, <2>1
  <2>3. PICK X : /\ W \subseteq X /\ Values(X, C, Len(envs), Len(promises) + 1)
                 /\ List(<<Top.vals[1]>>, Promise(Len(promises) + 1)) \in X
    <3>1. Len(envs) \in Nat /\ Len(promises) + 1 \in Nat
      BY Sizes
    <3>2. \A P \in Nat : Values(W, C, Len(envs), P) =>
             \A s \in Seq(W), t \in W :
               \E X : W \subseteq X /\ Values(X, C, Len(envs), P) /\ List(s, t) \in X
      BY <3>1, ListValue
    <3> QED BY <2>1, <2>2, <3>1, <3>2
  <2>4. Stored(envs, Append(promises, Thunk(N.tail, Top.env)), C, X) /\ D \subseteq X
    BY <2>1, <2>3, WiderStore
  <2>5. Stacked(stack, thrown, C, X, Len(envs))
    <3>1. Len(envs) \in Nat /\ Len(envs) <= Len(envs)
      BY Sizes
    <3> QED BY <2>1, <2>3, <3>1, WiderStack
  <2>6. Return(List(<<Top.vals[1]>>, Promise(Len(promises) + 1)))
    BY <1>5, <2>1 DEF Cons
  <2>7. Stacked(stack', thrown', C, X, Len(envs))
    BY <1>2, <2>3, <2>5, <2>6, Sizes, Returns DEF Running
  <2> QED BY <1>1, <1>5, <2>1, <2>3, <2>4, <2>7, PromisedTyped
<1> QED BY <1>4, <1>5 DEF ConsStream

(***************************************************************************)
(* Procedure application.                                                  *)
(***************************************************************************)
LEMMA ApplyFrame ==
  ASSUME NEW C, NEW D, NEW V, Typed(C, D, V), Running, Top.at = "apply"
  PROVE  /\ Callee \in V /\ Args \in Seq(V) /\ Len(Args) = got - 1 /\ got \in Nat
         /\ \A i \in 1 .. Len(Args) : Args[i] = Top.vals[i + 1]
<1>1. Top.vals \in Seq(V) /\ got \in Nat /\ got >= 1
  <2>1. Top.vals \in Seq(V) /\ got \in Nat /\ Ready(Top, got)
    BY Sizes, TopFrame DEF Typed, Running
  <2> QED BY <2>1 DEF Ready
<1>2. Top.vals # <<>> /\ Len(Top.vals) = got
  BY <1>1 DEF got
<1> QED BY <1>1, <1>2 DEF Callee, Args

LEMMA NoThunk ==
  ASSUME NEW C, NEW E \in Nat, NEW P \in Nat, NEW V, Values(V, C, E, P)
  PROVE  \A v \in V : v.is # "thunk"
<1>1. ASSUME NEW v \in Atoms(C, E, P) PROVE v.is # "thunk"
  BY DEF Atoms
<1>2. ASSUME NEW v \in Pairs(V) PROVE v.is # "thunk"
  BY DEF Pairs
<1> QED BY <1>1, <1>2 DEF Values

LEMMA BoundValues ==
  ASSUME NEW V, NEW f, Len(f.fixed) \in Nat, NEW args \in Seq(V), Accepts(f, args),
         List(SubSeq(args, Len(f.fixed) + 1, Len(args)), Null) \in V
  PROVE  \A x \in DOMAIN Bind(f, args) : Bind(f, args)[x] \in V
<1> DEFINE n == Len(f.fixed)
<1>1. n <= Len(args)
  <2>1. Len(args) = n \/ Len(args) >= n
    BY DEF Accepts
  <2> QED BY <2>1
<1>2. ASSUME NEW x \in DOMAIN Bind(f, args) PROVE Bind(f, args)[x] \in V
  <2>1. /\ x \in {f.fixed[i] : i \in 1 .. n} \cup ({f.rest} \ {""})
        /\ Bind(f, args)[x] = IF x = f.rest THEN List(SubSeq(args, n + 1, Len(args)), Null)
                              ELSE args[CHOOSE i \in 1 .. n : f.fixed[i] = x]
    BY <1>2 DEF Bind
  <2>2. CASE x = f.rest
    BY <2>1, <2>2
  <2>3. CASE x # f.rest
    <3>1. \E i \in 1 .. n : f.fixed[i] = x
      BY <2>1, <2>3
    <3>2. (CHOOSE i \in 1 .. n : f.fixed[i] = x) \in 1 .. n
      BY <3>1
    <3>3. \A i \in 1 .. n : args[i] \in V
      BY <1>1
    <3> QED BY <2>1, <2>3, <3>2, <3>3
  <2> QED BY <2>2, <2>3
<1> QED BY <1>2

LEMMA ApplyProcedureTyped ==
  ASSUME NEW C, NEW D, NEW V, Typed(C, D, V), UNCHANGED left, ApplyProcedure
  PROVE  \E W : Typed(C, D, W)'
<1> DEFINE f == Callee.code
           r == List(SubSeq(Args, Len(f.fixed) + 1, Len(Args)), Null)
           b == IF Accepts(f, Args) THEN Bind(f, Args) ELSE <<>>
           E == Len(envs) + 1
<1>0. /\ Len(envs) \in Nat /\ Len(promises) \in Nat /\ Code(C, D)
      /\ Values(V, C, Len(envs), Len(promises))
  BY Sizes DEF Typed
<1>1. /\ Running /\ Top.at = "apply" /\ Callee.is = "procedure" /\ UNCHANGED promises
      /\ envs' = Append(envs, Env(b, Callee.env))
      /\ Accepts(f, Args) => TailCall(f.body, Len(envs'))
      /\ ~Accepts(f, Args) => Throw(Error("arity"))
  BY DEF ApplyProcedure, OnApply
<1>2. Callee \in V /\ Args \in Seq(V)
  BY <1>1, ApplyFrame
<1>3. f \in C /\ f.op = "lambda" /\ Callee.env \in 1 .. Len(envs)
  BY <1>0, <1>1, <1>2, OfValue
<1>4. f.body \in C /\ Len(f.fixed) \in Nat
  BY <1>0, <1>3, Parts
<1>5. PICK X : V \subseteq X /\ Values(X, C, Len(envs), Len(promises)) /\ r \in X
  <2>1. Null \in V
    BY <1>0, AtomValues
  <2>2. SubSeq(Args, Len(f.fixed) + 1, Len(Args)) \in Seq(V)
    BY <1>2, <1>4
  <2> QED BY <1>0, <2>1, <2>2, ListValue
<1>6. Typed(C, D, X)
  <2>1. Stored(envs, promises, C, X)
    BY <1>5, WiderStore DEF Typed
  <2>2. Stacked(stack, thrown, C, X, Len(envs))
    <3>1. Len(envs) <= Len(envs)
      BY <1>0
    <3> QED BY <1>0, <1>5, <3>1, WiderStack DEF Typed
  <2> QED BY <1>5, <2>1, <2>2 DEF Typed
<1>7. \A x \in DOMAIN b : b[x] \in X
  <2>1. CASE Accepts(f, Args)
    <3>1. Args \in Seq(X)
      BY <1>2, <1>5
    <3> HIDE DEF f
    <3> QED BY <1>4, <1>5, <2>1, <3>1, BoundValues
  <2>2. CASE ~Accepts(f, Args)
    BY <2>2
  <2> QED BY <2>1, <2>2
<1> HIDE DEF b, r, f
<1>8. PICK W : /\ X \subseteq W /\ D \subseteq W
               /\ Values(W, C, Len(envs) + 1, Len(promises))
               /\ Stored(Append(envs, Env(b, Callee.env)), promises, C, W)
               /\ Len(Append(envs, Env(b, Callee.env))) = Len(envs) + 1
               /\ Stacked(stack, thrown, C, W, Len(envs) + 1)
  <2>1. Callee.env \in 0 .. Len(envs)
    BY <1>3
  <2> QED BY <1>6, <1>7, <2>1, Allocated
<1>9. E \in Nat /\ E \in 1 .. E
  BY <1>0
<1>10. Stacked(stack', thrown', C, W, E)
  <2>1. CASE Accepts(f, Args)
    <3>1. TailCall(f.body, E)
      BY <1>1, <1>8, <2>1
    <3> QED BY <1>0, <1>1, <1>4, <1>8, <1>9, <3>1, TailCalls DEF Running
  <2>2. CASE ~Accepts(f, Args)
    <3>1. Error("arity") \in W
      <4>1. "arity" \in Messages
        BY DEF Messages
      <4> QED BY <1>0, <1>8, <1>9, <4>1, AtomValues
    <3> QED BY <1>1, <1>8, <1>9, <2>2, <3>1, Throws DEF Running
  <2> QED BY <2>1, <2>2
<1> QED BY <1>1, <1>6, <1>8, <1>10, AllocatedTyped

LEMMA ApplyApplyTyped ==
  ASSUME NEW C, NEW D, NEW V, Typed(C, D, V), UNCHANGED left, ApplyApply
  PROVE  \E W : Typed(C, D, W)'
<1> DEFINE last == Args[Len(Args)]
           args == SubSeq(Args, 2, Len(Args) - 1) \o Elements(last)
<1>1. /\ Running /\ Top.at = "apply" /\ UNCHANGED store
      /\ \/ Len(Args) >= 2 /\ Applying(Args[1], args)
         \/ Throw(Error("apply"))
  BY DEF ApplyApply, OnBuiltin, OnApply
<1>2. Args \in Seq(V)
  BY <1>1, ApplyFrame
<1>3. CASE Len(Args) >= 2 /\ Applying(Args[1], args)
  <2>1. Args[1] \in V /\ last \in V /\ SubSeq(Args, 2, Len(Args) - 1) \in Seq(V)
    BY <1>2, <1>3
  <2>2. Elements(last) \in Seq(V)
    BY <2>1, Sizes, ElementValues DEF Typed
  <2>3. args \in Seq(V)
    BY <2>1, <2>2
  <2> HIDE DEF args
  <2> QED BY <1>1, <1>3, <2>1, <2>3, ApplyingTyped
<1>4. CASE Throw(Error("apply"))
  <2>1. "apply" \in Messages
    BY DEF Messages, BuiltinNames
  <2> QED BY <1>1, <1>4, <2>1, ErrorTyped, SameStore
<1> QED BY <1>1, <1>3, <1>4

LEMMA ApplyPrimitiveTyped ==
  ASSUME NEW C, NEW D, NEW V, Typed(C, D, V), UNCHANGED left, ApplyPrimitive
  PROVE  \E W : Typed(C, D, W)'
<1> DEFINE v == Prim(Callee.name, Args)
<1>1. /\ Running /\ Top.at = "apply" /\ Callee.name \in Primitives /\ UNCHANGED store
      /\ \/ v = None /\ Throw(Error(Callee.name))
         \/ v # None /\ Return(v)
  BY DEF ApplyPrimitive, OnBuiltin, OnApply
<1>2. Args \in Seq(V)
  BY <1>1, ApplyFrame
<1>3. CASE v = None /\ Throw(Error(Callee.name))
  <2>1. Callee.name \in Messages
    BY <1>1 DEF Messages, BuiltinNames
  <2> QED BY <1>1, <1>3, <2>1, ErrorTyped, SameStore
<1>4. CASE v # None /\ Return(v)
  <2>1. PICK W : V \subseteq W /\ Values(W, C, Len(envs), Len(promises)) /\ v \in W
    BY <1>1, <1>2, <1>4, Sizes, PrimValue DEF Typed
  <2>2. Typed(C, D, W)
    <3>1. Stored(envs, promises, C, W)
      BY <2>1, WiderStore DEF Typed
    <3>2. Stacked(stack, thrown, C, W, Len(envs))
      <4>1. Len(envs) \in Nat /\ Len(envs) <= Len(envs)
        BY Sizes
      <4> QED BY <2>1, <4>1, WiderStack DEF Typed
    <3> QED BY <2>1, <3>1, <3>2 DEF Typed
  <2> HIDE DEF v
  <2> QED BY <1>1, <1>4, <2>1, <2>2, ReturnTyped, SameStore
<1> QED BY <1>1, <1>3, <1>4

LEMMA ApplyRaiseTyped ==
  ASSUME NEW C, NEW D, NEW V, Typed(C, D, V), UNCHANGED left, ApplyRaise
  PROVE  \E W : Typed(C, D, W)'
<1>1. /\ Running /\ Top.at = "apply" /\ UNCHANGED store
      /\ \/ Len(Args) = 1 /\ Throw(Args[1])
         \/ Throw(Error("raise"))
  BY DEF ApplyRaise, OnBuiltin, OnApply
<1>2. Len(Args) = 1 => Args[1] \in V \cup {None}
  BY <1>1, ApplyFrame
<1>3. "raise" \in Messages
  BY DEF Messages, BuiltinNames
<1> QED BY <1>1, <1>2, <1>3, ThrowTyped, ErrorTyped, SameStore

LEMMA ApplyOtherTyped ==
  ASSUME NEW C, NEW D, NEW V, Typed(C, D, V), UNCHANGED left, ApplyOther
  PROVE  \E W : Typed(C, D, W)'
<1>1. Running /\ Throw(Error("not a procedure")) /\ UNCHANGED store
  BY DEF ApplyOther
<1>2. "not a procedure" \in Messages
  BY DEF Messages
<1> QED BY <1>1, <1>2, ErrorTyped, SameStore

LEMMA ApplyForceTyped ==
  ASSUME NEW C, NEW D, NEW V, Typed(C, D, V), UNCHANGED left, ApplyForce
  PROVE  \E W : Typed(C, D, W)'
<1> DEFINE state == promises[Args[1].id]
           fr == [Top EXCEPT !.at = "force"]
<1>1. /\ Running /\ Top.at = "apply" /\ UNCHANGED store
      /\ \/ Throw(Error("force"))
         \/ Len(Args) = 1 /\ Return(Args[1])
         \/ /\ Len(Args) = 1 /\ Args[1].is = "promise"
            /\ \/ state.is # "thunk" /\ Return(state)
               \/ state.is = "thunk" /\ CallEval(fr, state.body, state.env)
  BY DEF ApplyForce, OnBuiltin, OnApply
<1>2. /\ Args \in Seq(V) /\ Len(Args) = got - 1 /\ got \in Nat
      /\ \A i \in 1 .. Len(Args) : Args[i] = Top.vals[i + 1]
  BY <1>1, ApplyFrame
<1>3. /\ Len(envs) \in Nat /\ Len(promises) \in Nat /\ Code(C, D)
      /\ stack # <<>> /\ thrown = None /\ Stacked(stack, thrown, C, V, Len(envs))
      /\ Values(V, C, Len(envs), Len(promises))
  BY <1>1, Sizes DEF Typed, Running
<1>4. CASE Throw(Error("force"))
  <2>1. "force" \in Messages
    BY DEF Messages, BuiltinNames
  <2> QED BY <1>1, <1>4, <2>1, ErrorTyped, SameStore
<1>5. CASE Len(Args) = 1 /\ Return(Args[1])
  <2>1. Args[1] \in V
    BY <1>2, <1>5
  <2> QED BY <1>1, <1>5, <2>1, ReturnTyped, SameStore
<1>6. ASSUME Len(Args) = 1, Args[1].is = "promise"
      PROVE  IF state.is = "thunk" THEN state.body \in C /\ state.env \in 1 .. Len(envs)
                                   ELSE state \in V
  <2>1. Args[1] \in V
    BY <1>2, <1>6
  <2>2. Args[1].id \in 1 .. Len(promises)
    <3>1. \A v \in V : v.is = "promise" => v.id \in 1 .. Len(promises)
      BY <1>3, OfValue
    <3> QED BY <1>6, <2>1, <3>1
  <2>3. state \in V \cup Thunks(C, Len(envs))
    BY <2>2 DEF Typed, Stored
  <2> HIDE DEF state
  <2>4. \A v \in V : v.is # "thunk"
    BY <1>3, NoThunk
  <2> QED BY <2>3, <2>4 DEF Thunks
<1>7. CASE Len(Args) = 1 /\ Args[1].is = "promise" /\ state.is # "thunk" /\ Return(state)
  <2>1. state \in V
    BY <1>6, <1>7
  <2> HIDE DEF state
  <2> QED BY <1>1, <1>7, <2>1, ReturnTyped, SameStore
<1>8. CASE /\ Len(Args) = 1 /\ Args[1].is = "promise"
           /\ state.is = "thunk" /\ CallEval(fr, state.body, state.env)
  <2>1. state.body \in C /\ state.env \in 1 .. Len(envs) /\ TooDeep \in V
    BY <1>3, <1>6, <1>8, AtomValues
  <2>2. got = 2 /\ Top.vals[2].is = "promise"
    <3>1. Len(Args) = got - 1 /\ \A i \in 1 .. got - 1 : Args[i] = Top.vals[i + 1]
      BY <1>2
    <3>2. got = 2 /\ 1 \in 1 .. got - 1
      BY <1>2, <1>8, <3>1
    <3>3. Args[1] = Top.vals[2]
      BY <3>1, <3>2
    <3> QED BY <1>8, <3>2, <3>3
  <2>3. fr \in Frames(C, V, Len(envs)) /\ fr.at = "force" /\ fr.vals = Top.vals
    <3>1. Top \in Frames(C, V, Len(envs))
      BY <1>3, TopFrame
    <3> QED BY <3>1 DEF Frames
  <2>4. Ready(fr, Len(fr.vals) + 1)
    BY <2>2, <2>3 DEF Ready, got
  <2> HIDE DEF state, fr
  <2>5. Stacked(stack', thrown', C, V, Len(envs))
    BY <1>3, <1>8, <2>1, <2>3, <2>4, Calls
  <2> QED BY <1>1, <2>5, SameStore
<1> QED BY <1>1, <1>4, <1>5, <1>7, <1>8

LEMMA ForcedTyped ==
  ASSUME NEW C, NEW D, NEW V, Typed(C, D, V), UNCHANGED left, Forced
  PROVE  \E W : Typed(C, D, W)'
<1>1. /\ Running /\ Top.at = "force" /\ UNCHANGED envs
      /\ promises' = [promises EXCEPT ![Args[1].id] = Top.vals[got]]
      /\ Return(promises'[Args[1].id])
  BY DEF Forced
<1>2. /\ Len(envs) \in Nat /\ Len(promises) \in Nat
      /\ Values(V, C, Len(envs), Len(promises)) /\ promises \in Seq(V \cup Thunks(C, Len(envs)))
  BY Sizes DEF Typed, Stored
<1>3. Top.vals \in Seq(V) /\ got \in Nat /\ got >= 2 /\ Top.vals[2].is = "promise"
  <2>1. Top.vals \in Seq(V) /\ got \in Nat /\ Ready(Top, got)
    BY <1>1, Sizes, TopFrame DEF Typed, Running
  <2> QED BY <1>1, <2>1 DEF Ready, got
<1>4. Args[1] = Top.vals[2] /\ Args[1] \in V /\ Top.vals[got] \in V
  BY <1>3 DEF Args, got
<1>5. Args[1].id \in 1 .. Len(promises)
  <2>1. \A v \in V : v.is = "promise" => v.id \in 1 .. Len(promises)
    BY <1>2, OfValue
  <2> QED BY <1>3, <1>4, <2>1
<1>6. /\ promises' \in Seq(V \cup Thunks(C, Len(envs))) /\ Len(promises') = Len(promises)
      /\ promises'[Args[1].id] = Top.vals[got]
  BY <1>1, <1>2, <1>4, <1>5
<1>7. Stacked(stack', thrown', C, V, Len(envs))
  BY <1>1, <1>4, <1>6, ReturnTyped
<1>8. Typed(C, D, V)'
  <2>1. Stored(envs, promises', C, V)
    BY <1>6 DEF Typed, Stored
  <2> QED BY <1>1, <1>6, <1>7, <2>1 DEF Typed
<1> QED BY <1>8

(***************************************************************************)
(* Every step.                                                             *)
(***************************************************************************)
LEMMA NextFormTyped ==
  ASSUME NEW C, NEW D, NEW V, Typed(C, D, V), NextForm PROVE \E W : Typed(C, D, W)'
<1> DEFINE fr == Frame(Head(left), 1)
<1>1. /\ left # <<>> /\ stack' = <<fr>> /\ left' = Tail(left)
      /\ stack = <<>> /\ UNCHANGED <<envs, promises, thrown>>
  BY DEF NextForm
<1>2. thrown = None /\ Head(left) \in C /\ Tail(left) \in Seq(C)
  BY <1>1 DEF Typed, Stacked
<1>3. fr \in Frames(C, V, Len(envs)) /\ Ready(fr, 0) /\ fr.vals = <<>>
  <2>1. 1 \in 1 .. Len(envs) /\ Len(envs) \in Nat
    BY Sizes
  <2> QED BY <1>2, <2>1, FreshFrame DEF Typed, Frame
<1> HIDE DEF fr
<1>4. Stacked(stack', thrown', C, V, Len(envs))
  BY <1>1, <1>2, <1>3 DEF Stacked
<1>5. Typed(C, D, V)'
  BY <1>1, <1>2, <1>4 DEF Typed
<1> QED BY <1>5

LEMMA UnwindTyped ==
  ASSUME NEW C, NEW D, NEW V, Typed(C, D, V), Unwind PROVE \E W : Typed(C, D, W)'
<1>1. /\ stack # <<>> /\ thrown # None /\ stack' = Rest /\ UNCHANGED <<envs, promises>>
      /\ Rest = <<>> => thrown' = None /\ left' = <<>>
      /\ Rest # <<>> => thrown' = thrown /\ left' = left
  BY DEF Unwind
<1>2. Len(stack) \in Nat /\ Len(stack) >= 1 /\ Stacked(stack, thrown, C, V, Len(envs))
  BY <1>1, Sizes, TopFrame DEF Typed
<1>3. /\ Rest \in Seq(Frames(C, V, Len(envs))) /\ Len(Rest) = Len(stack) - 1
      /\ \A i \in 1 .. Len(Rest) : Rest[i] = stack[i]
  <2>1. Rest = [i \in 1 .. Len(stack) - 1 |-> stack[i]]
    BY <1>2 DEF Stacked, Rest
  <2>2. \A i \in 1 .. Len(stack) - 1 : stack[i] \in Frames(C, V, Len(envs))
    BY <1>2 DEF Stacked
  <2> QED BY <1>2, <2>1, <2>2
<1>4. Stacked(stack', thrown', C, V, Len(envs))
  BY <1>1, <1>2, <1>3 DEF Stacked
<1>5. left' \in Seq(C)
  <2>1. left \in Seq(C) /\ <<>> \in Seq(C)
    BY <1>1 DEF Typed
  <2>2. CASE Rest = <<>>
    BY <1>1, <2>1, <2>2
  <2>3. CASE Rest # <<>>
    BY <1>1, <2>1, <2>3
  <2> QED BY <2>2, <2>3
<1>6. Typed(C, D, V)'
  BY <1>1, <1>4, <1>5 DEF Typed
<1> QED BY <1>6

IInv == \E C, D, V : Typed(C, D, V)

LEMMA ExprTyped ==
  ASSUME NEW C, NEW D, NEW V, Typed(C, D, V), ExprEval, UNCHANGED left
  PROVE  \E W : Typed(C, D, W)'
BY LiteralTyped, ReferenceTyped, IfTyped, BeginTyped, LambdaTyped, DefineTyped, SetTyped,
   CallTyped, LetTyped, LetRecTyped, LogicalTyped, CondTyped, ReceiverTyped, CaseTyped,
   DelayTyped, ConsStreamTyped, GuardTyped, HandlerTyped DEF ExprEval

LEMMA ApplyTyped ==
  ASSUME NEW C, NEW D, NEW V, Typed(C, D, V), Apply, UNCHANGED left
  PROVE  \E W : Typed(C, D, W)'
BY ApplyProcedureTyped, ApplyApplyTyped, ApplyPrimitiveTyped, ApplyRaiseTyped,
   ApplyOtherTyped, ApplyForceTyped, ForcedTyped DEF Apply

LEMMA NextTyped == ASSUME IInv, [Next]_vars PROVE IInv'
<1>1. PICK C, D, V : Typed(C, D, V)
  BY DEF IInv
<1>2. CASE NextForm
  BY <1>1, <1>2, NextFormTyped DEF IInv
<1>3. CASE Catch
  BY <1>1, <1>3, CatchTyped DEF IInv
<1>4. CASE Unwind
  BY <1>1, <1>4, UnwindTyped DEF IInv
<1>5. CASE ExprEval /\ UNCHANGED left
  BY <1>1, <1>5, ExprTyped DEF IInv
<1>6. CASE Apply /\ UNCHANGED left
  BY <1>1, <1>6, ApplyTyped DEF IInv
<1>7. CASE UNCHANGED vars
  <2>1. Typed(C, D, V)'
    BY <1>1, <1>7 DEF Typed, vars
  <2> QED BY <2>1 DEF IInv
<1> QED BY <1>2, <1>3, <1>4, <1>5, <1>6, <1>7 DEF Next

LEMMA InitTyped == ASSUME ProgramsParsed, Init PROVE IInv
<1>1. PICK C, D : left \in Seq(C) /\ Code(C, D)
  BY DEF Init, ProgramsParsed
<1> DEFINE V == D \cup Atoms(C, 1, 0)
<1>2. Values(V, C, 1, 0)
  <2>1. D \subseteq Data(D)
    BY <1>1 DEF Code
  <2>2. Data(D) \subseteq Atoms(C, 1, 0) \cup Pairs(V)
    BY DEF Data, Atoms, Pairs
  <2> QED BY <2>1, <2>2 DEF Values
<1>3. \A x \in DOMAIN GlobalEnv.bindings : GlobalEnv.bindings[x] \in V
  BY <1>2, AtomValues DEF GlobalEnv, Env
<1> HIDE DEF V
<1>4. Stored(<<GlobalEnv>>, <<>>, C, V)
  <2>1. IsEnv(GlobalEnv, V, 0)
    BY <1>3 DEF IsEnv, GlobalEnv, Env
  <2> HIDE DEF GlobalEnv
  <2>2. <<GlobalEnv>> = [i \in 1 .. Len(<<GlobalEnv>>) |-> <<GlobalEnv>>[i]]
        /\ Len(<<GlobalEnv>>) = 1 /\ <<GlobalEnv>>[1] = GlobalEnv
    OBVIOUS
  <2>3. <<>> \in Seq(V \cup Thunks(C, Len(<<GlobalEnv>>)))
    OBVIOUS
  <2> QED BY <2>1, <2>2, <2>3 DEF Stored
<1>5. Stacked(<<>>, None, C, V, 1)
  BY DEF Stacked
<1>6. /\ envs = <<GlobalEnv>> /\ promises = <<>> /\ stack = <<>> /\ thrown = None
      /\ Len(envs) = 1 /\ Len(promises) = 0
  BY DEF Init
<1>7. Typed(C, D, V)
  <2>1. D \subseteq V
    BY DEF V
  <2> QED BY <1>1, <1>2, <1>4, <1>5, <1>6, <2>1 DEF Typed
<1> QED BY <1>7 DEF IInv

LEMMA TypedTypes == ASSUME IInv PROVE TypeOK
<1>1. PICK C, D, V : Typed(C, D, V)
  BY DEF IInv
<1>2. /\ Len(envs) \in Nat /\ Len(promises) \in Nat /\ Values(V, C, Len(envs), Len(promises))
      /\ Stored(envs, promises, C, V) /\ Stacked(stack, thrown, C, V, Len(envs))
      /\ DOMAIN envs = 1 .. Len(envs)
  BY <1>1, Sizes DEF Typed, Stored
<1>3. \A i \in DOMAIN stack :
        /\ stack[i].env \in DOMAIN envs /\ stack[i].local \in {0} \cup DOMAIN envs
        /\ stack[i].at \in {"eval", "apply", "receiver", "force", "handler"}
  <2>1. DOMAIN stack = 1 .. Len(stack)
    BY <1>2 DEF Stacked
  <2>2. \A i \in DOMAIN stack : stack[i] \in Frames(C, V, Len(envs))
    BY <1>2, <2>1 DEF Stacked
  <2> QED BY <1>2, <2>2 DEF Frames
<1>4. \A i \in DOMAIN envs :
        /\ envs[i].parent \in 0 .. i - 1
        /\ \A x \in DOMAIN envs[i].bindings :
             LET v == envs[i].bindings[x]
             IN v.is = "procedure" => v.env \in DOMAIN envs
  <2>1. \A v \in V : v.is = "procedure" => v.env \in 1 .. Len(envs)
    BY <1>2, OfValue
  <2> QED BY <1>2, <2>1 DEF Stored, IsEnv
<1>5. \A p \in DOMAIN promises : promises[p].is = "thunk" => promises[p].env \in DOMAIN envs
  <2>1. \A v \in V : v.is # "thunk"
    BY <1>2, NoThunk
  <2>2. \A p \in DOMAIN promises : promises[p] \in V \cup Thunks(C, Len(envs))
    BY <1>2 DEF Stored
  <2> QED BY <1>2, <2>1, <2>2 DEF Thunks
<1>6. thrown # None => stack # <<>>
  BY <1>2 DEF Stacked
<1> QED BY <1>3, <1>4, <1>5, <1>6 DEF TypeOK

\* Every frame, closure, thunk and environment refers to environments that were
\* allocated, whatever the program (TypeOK of Evaluator).
THEOREM TypeCorrect == ASSUME ProgramsParsed PROVE Spec => []TypeOK
<1>1. Init => IInv
  BY InitTyped
<1>2. IInv /\ [Next]_vars => IInv'
  BY NextTyped
<1>3. IInv => TypeOK
  BY TypedTypes
<1> QED BY <1>1, <1>2, <1>3, PTL DEF Spec

(***************************************************************************)
(* What is allocated is never taken back: nothing is freed while a form is *)
(* evaluated, an environment keeps its parent and its names, and a promise *)
(* that has its value keeps having one.                                    *)
(***************************************************************************)
EnvsGrow == \A i \in DOMAIN envs :
              /\ i \in DOMAIN envs' /\ envs'[i].parent = envs[i].parent
              /\ DOMAIN envs[i].bindings \subseteq DOMAIN envs'[i].bindings
PromisesGrow == \A i \in DOMAIN promises :
                  /\ i \in DOMAIN promises'
                  /\ promises[i].is # "thunk" => promises'[i].is # "thunk"

LEMMA StoreStays == ASSUME UNCHANGED store PROVE EnvsGrow /\ PromisesGrow
BY DEF store, EnvsGrow, PromisesGrow

LEMMA DefinedGrows ==
  ASSUME NEW C, NEW V, Stored(envs, promises, C, V),
         NEW e, NEW x, NEW v, envs' = Defined(envs, e, x, v)
  PROVE  EnvsGrow
<1>1. Stored(envs, promises, C, V \cup {v}) /\ v \in V \cup {v}
  BY WiderStore
<1> DEFINE W == V \cup {v}
<1>2. Stored(envs, promises, C, W) /\ v \in W
  BY <1>1
<1> HIDE DEF W
<1>3. /\ Stored(envs', promises, C, W) /\ Len(envs') = Len(envs)
      /\ \A i \in 1 .. Len(envs) :
           /\ envs'[i].parent = envs[i].parent
           /\ DOMAIN envs[i].bindings \subseteq DOMAIN envs'[i].bindings
  BY <1>2, DefinedStore
<1>4. DOMAIN envs = 1 .. Len(envs) /\ DOMAIN envs' = 1 .. Len(envs')
  BY <1>2, <1>3 DEF Stored
<1> QED BY <1>3, <1>4 DEF EnvsGrow

LEMMA AppendKeeps ==
  ASSUME NEW T, NEW s \in Seq(T), NEW y
  PROVE  \A i \in DOMAIN s : i \in DOMAIN Append(s, y) /\ Append(s, y)[i] = s[i]
<1>1. s \in Seq(T \cup {y}) /\ y \in T \cup {y}
  OBVIOUS
<1> DEFINE U == T \cup {y}
<1>2. s \in Seq(U) /\ y \in U
  BY <1>1
<1> HIDE DEF U
<1> QED BY <1>2

LEMMA EnvAllocated ==
  ASSUME NEW C, NEW V, Stored(envs, promises, C, V), NEW s, envs' = Append(envs, s)
  PROVE  EnvsGrow
<1> DEFINE T == {envs[i] : i \in 1 .. Len(envs)}
<1>1. envs \in Seq(T)
  <2>1. Len(envs) \in Nat /\ envs = [i \in 1 .. Len(envs) |-> envs[i]]
    BY DEF Stored
  <2>2. envs \in [1 .. Len(envs) -> T]
    BY <2>1
  <2> QED BY <2>1, <2>2, SeqDef
<1> HIDE DEF T
<1>2. \A i \in DOMAIN envs : i \in DOMAIN envs' /\ envs'[i] = envs[i]
  BY <1>1, AppendKeeps
<1> QED BY <1>2 DEF EnvsGrow

LEMMA PromiseAllocated ==
  ASSUME NEW C, NEW V, Stored(envs, promises, C, V), NEW s, promises' = Append(promises, s)
  PROVE  PromisesGrow
<1>1. promises \in Seq(V \cup Thunks(C, Len(envs)))
  BY DEF Stored
<1>2. \A i \in DOMAIN promises : i \in DOMAIN promises' /\ promises'[i] = promises[i]
  BY <1>1, AppendKeeps
<1> QED BY <1>2 DEF PromisesGrow

\* A forced promise gets the value its body came to, never a thunk again.
LEMMA ForcedGrows ==
  ASSUME NEW C, NEW D, NEW V, Typed(C, D, V), Forced PROVE PromisesGrow
<1>1. promises' = [promises EXCEPT ![Args[1].id] = Top.vals[got]]
  BY DEF Forced
<1>2. Top.vals[got].is # "thunk"
  <2>1. Top.vals \in Seq(V) /\ got \in Nat /\ Ready(Top, got) /\ Top.at = "force"
    BY Sizes, TopFrame DEF Typed, Running, Forced
  <2>2. Top.vals[got] \in V
    BY <2>1 DEF Ready, got
  <2>3. \A v \in V : v.is # "thunk"
    BY Sizes, NoThunk DEF Typed
  <2> QED BY <2>2, <2>3
<1> QED BY <1>1, <1>2 DEF PromisesGrow

LEMMA BindingsGrow ==
  ASSUME NEW C, NEW V, Stored(envs, promises, C, V), NEW env, Bindings(env) PROVE EnvsGrow
<1>1. CASE envs' = envs
  BY <1>1 DEF EnvsGrow
<1>2. CASE envs' = Defined(envs, Top.local, N.names[got], Top.vals[got])
  BY <1>2, DefinedGrows
<1> QED BY <1>1, <1>2 DEF Bindings

LEMMA LocalGrows ==
  ASSUME NEW C, NEW V, Stored(envs, promises, C, V), NEW b, NewLocal(b) PROVE EnvsGrow
BY EnvAllocated DEF NewLocal

LEMMA ExprGrows ==
  ASSUME NEW C, NEW D, NEW V, Typed(C, D, V), ExprEval PROVE EnvsGrow /\ PromisesGrow
<1>1. Stored(envs, promises, C, V)
  BY DEF Typed
<1>2. UNCHANGED envs => EnvsGrow
  BY DEF EnvsGrow
<1>3. UNCHANGED promises => PromisesGrow
  BY DEF PromisesGrow
<1>4. CASE Literal \/ Reference \/ If \/ Begin \/ Lambda \/ Call
  BY <1>4, StoreStays DEF Literal, Reference, If, Begin, Lambda, Call
<1>5. CASE Logical \/ Cond \/ Receiver \/ Case \/ Guard \/ Handler
  BY <1>5, StoreStays DEF Logical, Cond, Receiver, Case, Guard, Handler
<1>6. CASE Define
  BY <1>1, <1>2, <1>3, <1>6, DefinedGrows DEF Define
<1>7. CASE Set
  BY <1>1, <1>2, <1>3, <1>7, DefinedGrows DEF Set
<1>8. CASE Let
  BY <1>1, <1>3, <1>8, BindingsGrow, LocalGrows DEF Let
<1>9. CASE LetRec
  BY <1>1, <1>3, <1>9, BindingsGrow, LocalGrows DEF LetRec
<1>10. CASE Delay
  BY <1>1, <1>2, <1>10, PromiseAllocated DEF Delay
<1>11. CASE ConsStream
  BY <1>1, <1>2, <1>3, <1>11, PromiseAllocated DEF ConsStream
<1> QED BY <1>4, <1>5, <1>6, <1>7, <1>8, <1>9, <1>10, <1>11 DEF ExprEval

LEMMA ApplyGrows ==
  ASSUME NEW C, NEW D, NEW V, Typed(C, D, V), Apply PROVE EnvsGrow /\ PromisesGrow
<1>1. Stored(envs, promises, C, V)
  BY DEF Typed
<1>2. CASE ApplyProcedure
  <2>1. UNCHANGED promises /\ \E s : envs' = Append(envs, s)
    BY <1>2 DEF ApplyProcedure
  <2> QED BY <1>1, <2>1, EnvAllocated DEF PromisesGrow
<1>3. CASE ApplyApply \/ ApplyPrimitive \/ ApplyRaise \/ ApplyOther \/ ApplyForce
  BY <1>3, StoreStays DEF ApplyApply, ApplyPrimitive, ApplyRaise, ApplyOther, ApplyForce
<1>4. CASE Forced
  <2>1. UNCHANGED envs
    BY <1>4 DEF Forced
  <2> QED BY <1>4, <2>1, ForcedGrows DEF EnvsGrow
<1> QED BY <1>2, <1>3, <1>4 DEF Apply

LEMMA NextGrows == ASSUME IInv, [Next]_vars PROVE EnvsGrow /\ PromisesGrow
<1>1. PICK C, D, V : Typed(C, D, V)
  BY DEF IInv
<1>2. CASE NextForm \/ Unwind \/ UNCHANGED vars
  BY <1>2, StoreStays DEF NextForm, Unwind, vars, store
<1>3. CASE Catch
  <2>1. UNCHANGED promises /\ \E s : envs' = Append(envs, s)
    BY <1>3 DEF Catch
  <2> QED BY <1>1, <2>1, EnvAllocated DEF PromisesGrow, Typed
<1>4. CASE ExprEval
  BY <1>1, <1>4, ExprGrows
<1>5. CASE Apply
  BY <1>1, <1>5, ApplyGrows
<1> QED BY <1>2, <1>3, <1>4, <1>5 DEF Next

\* What a closure or a thunk captured is still there when it is used: no step
\* unbinds a name, moves an environment to another parent, or turns a promise
\* that was forced back into one that was not (Env, Promise::force).
THEOREM CapturedStays == ASSUME ProgramsParsed PROVE Spec => [][EnvsGrow /\ PromisesGrow]_store
<1>1. Init => IInv
  BY InitTyped
<1>2. IInv /\ [Next]_vars => IInv'
  BY NextTyped
<1>3. IInv /\ [Next]_vars => [EnvsGrow /\ PromisesGrow]_store
  BY NextGrows
<1> QED BY <1>1, <1>2, <1>3, PTL DEF Spec
=============================================================================
