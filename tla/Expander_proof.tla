--------------------------- MODULE Expander_proof ---------------------------
(***************************************************************************)
(* Proofs about Expander, for any programs and any limits: reading a       *)
(* macro's definition, expanding, parsing and evaluating share one budget, *)
(* and every level taken from it is given back; a call returns one value   *)
(* to the frame below, and no step adds a name to a table.                 *)
(***************************************************************************)
EXTENDS Expander, TLAPS, FiniteSetTheorems, SequenceTheorems

USE ExpanderAssumption

\* Forms are of any kind, so a stack is a sequence of frames over some set.
Kinds == {"top", "seq", "parse", "eval"}
IsFrame(fr) ==
  /\ fr = [f |-> fr.f, x |-> fr.x, at |-> fr.at, i |-> fr.i, got |-> fr.got]
  /\ fr.f \in Kinds
IsStack(s) == (\E S : s \in Seq(S)) /\ (\A i \in DOMAIN s : IsFrame(s[i]))
GuardsOf(s) == {i \in DOMAIN s : s[i].f \in Guards}
Balanced(s, d) ==
  /\ IsStack(s)
  /\ d \in Nat /\ d = Cardinality(GuardsOf(s)) /\ d <= MaxDepth

IInv == Balanced(stack, depth)

Below(s) == SubSeq(s, 1, Len(s) - 1)
Level(fr, d) == IF fr.f \in Guards THEN d + 1 ELSE d

LEMMA GuardsFinite ==
  ASSUME NEW s, IsStack(s)
  PROVE  /\ IsFiniteSet(GuardsOf(s)) /\ Cardinality(GuardsOf(s)) \in Nat
         /\ Len(s) \in Nat /\ DOMAIN s = 1 .. Len(s)
<1>1. Len(s) \in Nat /\ DOMAIN s = 1 .. Len(s)
  BY DEF IsStack
<1>2. IsFiniteSet(1 .. Len(s))
  BY <1>1, FS_Interval
<1>3. GuardsOf(s) \subseteq 1 .. Len(s)
  BY <1>1 DEF GuardsOf
<1> QED BY <1>1, <1>2, <1>3, FS_Subset, FS_CardinalityType

LEMMA Push ==
  ASSUME NEW s, NEW d, Balanced(s, d), NEW fr, IsFrame(fr),
         fr.f \in Guards => d < MaxDepth
  PROVE  Balanced(Append(s, fr), Level(fr, d))
<1> DEFINE t == Append(s, fr)
<1>0. d \in Nat /\ d <= MaxDepth /\ d = Cardinality(GuardsOf(s)) /\ IsStack(s)
  BY DEF Balanced
<1>1. PICK S : s \in Seq(S)
  BY <1>0 DEF IsStack
<1>2. s \in Seq(S \cup {fr}) /\ t \in Seq(S \cup {fr})
  BY <1>1
<1>3. /\ DOMAIN t = DOMAIN s \cup {Len(s) + 1} /\ Len(s) + 1 \notin DOMAIN s
      /\ \A i \in DOMAIN s : t[i] = s[i]
      /\ t[Len(s) + 1] = fr
  BY <1>1
<1> HIDE DEF t
<1>4. IsStack(t)
  BY <1>0, <1>2, <1>3 DEF IsStack
<1>5. CASE fr.f \in Guards
  <2>1. GuardsOf(t) = GuardsOf(s) \cup {Len(s) + 1} /\ Len(s) + 1 \notin GuardsOf(s)
    BY <1>3, <1>5 DEF GuardsOf
  <2>2. Cardinality(GuardsOf(t)) = Cardinality(GuardsOf(s)) + 1
    BY <1>0, <2>1, GuardsFinite, FS_AddElement
  <2> QED BY <1>0, <1>4, <1>5, <2>2 DEF Balanced, Level, t
<1>6. CASE fr.f \notin Guards
  <2>1. GuardsOf(t) = GuardsOf(s)
    BY <1>3, <1>6 DEF GuardsOf
  <2> QED BY <1>0, <1>4, <1>6, <2>1 DEF Balanced, Level, t
<1> QED BY <1>5, <1>6

\* The level the last frame holds is given back with it.
LEMMA Pop ==
  ASSUME NEW s, NEW d, Balanced(s, d), s # <<>>
  PROVE  /\ IsFrame(s[Len(s)])
         /\ LET r == IF s[Len(s)].f \in Guards THEN d - 1 ELSE d
            IN Balanced(Below(s), r) /\ Level(s[Len(s)], r) = d
<1> DEFINE t == Below(s)
           last == s[Len(s)]
           r == IF last.f \in Guards THEN d - 1 ELSE d
<1>0. d \in Nat /\ d <= MaxDepth /\ d = Cardinality(GuardsOf(s)) /\ IsStack(s)
  BY DEF Balanced
<1>1. PICK S : s \in Seq(S)
  BY <1>0 DEF IsStack
<1>2. Len(s) \in Nat \ {0} /\ DOMAIN s = 1 .. Len(s) /\ Len(s) \in DOMAIN s
  BY <1>1
<1>3. IsFrame(last)
  BY <1>0, <1>2 DEF IsStack
<1>4. 1 \in 1 .. Len(s) + 1 /\ Len(s) - 1 \in 0 .. Len(s)
  BY <1>2
<1>5. /\ t \in Seq(S) /\ DOMAIN t = 1 .. Len(s) - 1
      /\ \A i \in 1 .. Len(s) - 1 : t[i] = s[i]
  BY <1>1, <1>2, <1>4, SubSeqProperties DEF Below
<1> HIDE DEF t, last
<1>6. IsStack(t)
  BY <1>0, <1>2, <1>5 DEF IsStack
<1>7. CASE last.f \in Guards
  <2>1. GuardsOf(t) = GuardsOf(s) \ {Len(s)} /\ Len(s) \in GuardsOf(s)
    BY <1>2, <1>5, <1>7 DEF GuardsOf, last
  <2>2. Cardinality(GuardsOf(t)) = Cardinality(GuardsOf(s)) - 1
    BY <1>0, <2>1, GuardsFinite, FS_RemoveElement
  <2>3. Cardinality(GuardsOf(t)) \in Nat
    BY <1>6, GuardsFinite
  <2>4. d - 1 \in Nat /\ d - 1 <= MaxDepth /\ d - 1 = Cardinality(GuardsOf(t))
    BY <1>0, <2>2, <2>3
  <2>5. Balanced(t, d - 1) /\ d - 1 + 1 = d
    BY <1>0, <1>6, <2>4 DEF Balanced
  <2> QED BY <1>3, <1>7, <2>5 DEF Level, t, last
<1>8. CASE last.f \notin Guards
  <2>1. GuardsOf(t) = GuardsOf(s)
    BY <1>2, <1>5, <1>8 DEF GuardsOf, last
  <2>2. Balanced(t, d)
    BY <1>0, <1>6, <2>1 DEF Balanced
  <2> QED BY <1>3, <1>8, <2>2 DEF Level, t, last
<1> QED BY <1>7, <1>8

\* A frame that goes on holds what it held.
LEMMA Replace ==
  ASSUME NEW s, NEW d, Balanced(s, d), s # <<>>, NEW fr, IsFrame(fr),
         fr.f \in Guards <=> s[Len(s)].f \in Guards
  PROVE  Balanced(Append(Below(s), fr), d)
<1> DEFINE r == IF s[Len(s)].f \in Guards THEN d - 1 ELSE d
<1>1. Balanced(Below(s), r) /\ Level(fr, r) = d
  BY Pop DEF Level
<1>2. d \in Nat /\ d <= MaxDepth
  BY DEF Balanced
<1>3. fr.f \in Guards => r < MaxDepth
  BY <1>2
<1> HIDE DEF r
<1>4. Balanced(Append(Below(s), fr), Level(fr, r))
  BY <1>1, <1>3, Push
<1> QED BY <1>1, <1>4

LEMMA NewFrame ==
  /\ \A f \in Kinds : \A x : IsFrame(Frame(f, x)) /\ Frame(f, x).f = f
  /\ "top" \in Kinds /\ "seq" \in Kinds /\ "parse" \in Kinds /\ "eval" \in Kinds
BY DEF IsFrame, Frame, Kinds

LEMMA RecordFrame ==
  \A f \in Kinds : \A x, at, i, got :
    LET fr == [f |-> f, x |-> x, at |-> at, i |-> i, got |-> got]
    IN IsFrame(fr) /\ fr.f = f
BY DEF IsFrame

\* A frame that is moved is a frame of the same kind.
LEMMA MovedAt ==
  ASSUME NEW fr, IsFrame(fr), NEW v
  PROVE  IsFrame([fr EXCEPT !.at = v]) /\ [fr EXCEPT !.at = v].f = fr.f
<1>1. [fr EXCEPT !.at = v] = [f |-> fr.f, x |-> fr.x, at |-> v, i |-> fr.i, got |-> fr.got]
  BY DEF IsFrame
<1> QED BY <1>1, RecordFrame DEF IsFrame

LEMMA MovedOn ==
  ASSUME NEW fr, IsFrame(fr), NEW v
  PROVE  IsFrame([fr EXCEPT !.i = v]) /\ [fr EXCEPT !.i = v].f = fr.f
<1>1. [fr EXCEPT !.i = v] = [f |-> fr.f, x |-> fr.x, at |-> fr.at, i |-> v, got |-> fr.got]
  BY DEF IsFrame
<1> QED BY <1>1, RecordFrame DEF IsFrame

LEMMA MovedGot ==
  ASSUME NEW fr, IsFrame(fr), NEW v
  PROVE  IsFrame([fr EXCEPT !.got = v]) /\ [fr EXCEPT !.got = v].f = fr.f
<1>1. [fr EXCEPT !.got = v] = [f |-> fr.f, x |-> fr.x, at |-> fr.at, i |-> fr.i, got |-> v]
  BY DEF IsFrame
<1> QED BY <1>1, RecordFrame DEF IsFrame

(***************************************************************************)
(* The ways a frame can move.                                              *)
(***************************************************************************)
LEMMA ThrowInv == ASSUME IInv, NEW k, Throw(k) PROVE IInv'
BY DEF IInv, Throw

LEMMA CallInv ==
  ASSUME IInv, stack # <<>>, NEW fr, IsFrame(fr), fr.f = Top.f,
         NEW callee, IsFrame(callee), CallFrom(fr, callee)
  PROVE  IInv'
<1>1. CASE \E k \in {"deep", "crashed"} : Throw(k)
  BY <1>1, ThrowInv
<1>2. CASE ~ \E k \in {"deep", "crashed"} : Throw(k)
  <2>1. /\ stack' = Append(Append(Rest, fr), callee)
        /\ depth' = Level(callee, depth)
        /\ callee.f \in Guards => ~NoLevel
    BY <1>2 DEF CallFrom, Level
  <2>2. Balanced(Append(Rest, fr), depth)
    BY Replace DEF IInv, Rest, Below, Top
  <2>3. callee.f \in Guards => depth < MaxDepth
    BY <2>1 DEF NoLevel, IInv, Balanced
  <2> QED BY <2>1, <2>2, <2>3, Push DEF IInv
<1> QED BY <1>1, <1>2

LEMMA BecomeInv ==
  ASSUME IInv, stack # <<>>, NEW fr, IsFrame(fr),
         fr.f \in Guards <=> Top.f \in Guards, Become(fr)
  PROVE  IInv'
BY Replace DEF IInv, Become, Rest, Below, Top

LEMMA ReturnInv == ASSUME IInv, stack # <<>>, NEW v, Return(v) PROVE IInv'
BY Pop DEF IInv, Return, Rest, Below, Top

LEMMA UnwindInv == ASSUME IInv, Unwind PROVE IInv'
BY Pop DEF IInv, Unwind, Rest, Below, Top

LEMMA TopIsFrame == ASSUME IInv, stack # <<>> PROVE IsFrame(Top)
BY Pop DEF IInv, Top

(***************************************************************************)
(* The actions.                                                            *)
(***************************************************************************)
LEMMA TopLevelInv == ASSUME IInv, TopLevel PROVE IInv'
<1>0. stack # <<>> /\ IsFrame(Top)
  BY TopIsFrame DEF TopLevel, ExpandHead, HeadExpanded, TooManyExpansions, Expanded,
     TopBegin, NextInBegin, EndBegin, TopDefineMacro, DefineMacro, TopAlias, TopParse,
     TopEval, TopReturn, In
<1>1. CASE ExpandHead
  <2> DEFINE callee == Frame("eval", macros[Top.x.name])
             g == [Top EXCEPT !.at = "expanding"]
  <2>1. IsFrame(callee) /\ IsFrame(g) /\ g.f = Top.f
    BY <1>0, NewFrame, MovedAt
  <2>2. CallFrom(g, callee)
    BY <1>1 DEF ExpandHead
  <2> HIDE DEF callee, g
  <2> QED BY <1>0, <2>1, <2>2, CallInv
<1>2. CASE HeadExpanded
  <2> DEFINE g == [Frame("top", ret[1]) EXCEPT !.i = Top.i + 1]
  <2>1. IsFrame(g) /\ g.f = Top.f
    <3> DEFINE b == Frame("top", ret[1])
    <3>1. IsFrame(b) /\ b.f = Top.f
      BY <1>2, NewFrame DEF HeadExpanded, In
    <3> HIDE DEF b
    <3>2. IsFrame([b EXCEPT !.i = Top.i + 1]) /\ [b EXCEPT !.i = Top.i + 1].f = b.f
      BY <3>1, MovedOn
    <3> QED BY <3>1, <3>2 DEF b
  <2>2. Become(g)
    BY <1>2 DEF HeadExpanded
  <2> HIDE DEF g
  <2> QED BY <1>0, <2>1, <2>2, BecomeInv
<1>3. CASE TooManyExpansions
  BY <1>3, ThrowInv DEF TooManyExpansions
<1>4. CASE TopBegin
  BY <1>0, <1>4, NewFrame, BecomeInv DEF TopBegin, Expanded, In, Guards
<1>5. CASE NextInBegin
  BY <1>0, <1>5, MovedOn, NewFrame, CallInv DEF NextInBegin
<1>6. CASE EndBegin
  BY <1>0, <1>6, ReturnInv DEF EndBegin
<1>7. CASE TopDefineMacro
  BY <1>0, <1>7, MovedAt, NewFrame, CallInv DEF TopDefineMacro
<1>8. CASE DefineMacro
  BY <1>0, <1>8, ReturnInv DEF DefineMacro
<1>9. CASE TopAlias
  BY <1>0, <1>9, ReturnInv, ThrowInv DEF TopAlias
<1>10. CASE TopParse
  BY <1>0, <1>10, MovedAt, NewFrame, CallInv DEF TopParse
<1>11. CASE TopEval
  BY <1>0, <1>11, MovedAt, NewFrame, CallInv DEF TopEval
<1>12. CASE TopReturn
  BY <1>0, <1>12, ReturnInv DEF TopReturn
<1> QED BY <1>1, <1>2, <1>3, <1>4, <1>5, <1>6, <1>7, <1>8, <1>9, <1>10, <1>11, <1>12
        DEF TopLevel

LEMMA ParseInv == ASSUME IInv, Parse PROVE IInv'
<1>0. stack # <<>> /\ IsFrame(Top)
  BY TopIsFrame DEF Parse, ParseMacro, ParseExpansion, ParseReturn, ParseLeaf, ParseNext,
     ParsePart, ParseNode, ParseDefineMacro, In
<1>1. CASE ParseMacro
  <2> DEFINE callee == Frame("eval", macros[Top.x.name])
             g == [Top EXCEPT !.at = "expanding"]
  <2>1. IsFrame(callee) /\ IsFrame(g) /\ g.f = Top.f
    BY <1>0, NewFrame, MovedAt
  <2>2. CallFrom(g, callee)
    BY <1>1 DEF ParseMacro
  <2> HIDE DEF callee, g
  <2> QED BY <1>0, <2>1, <2>2, CallInv
<1>2. CASE ParseExpansion
  BY <1>0, <1>2, MovedAt, NewFrame, CallInv DEF ParseExpansion
<1>3. CASE ParseReturn
  BY <1>0, <1>3, ReturnInv DEF ParseReturn
<1>4. CASE ParseLeaf
  BY <1>0, <1>4, ReturnInv, ThrowInv DEF ParseLeaf
<1>5. CASE ParseNext
  <2> DEFINE part == Frame("parse", Top.x.forms[Len(Top.got) + 1])
             g == [Top EXCEPT !.at = "part"]
  <2>1. IsFrame(part) /\ IsFrame(g) /\ g.f = Top.f
    BY <1>0, NewFrame, MovedAt
  <2>2. CallFrom(g, part)
    BY <1>5 DEF ParseNext
  <2> HIDE DEF part, g
  <2> QED BY <1>0, <2>1, <2>2, CallInv
<1>6. CASE ParsePart
  <2> DEFINE g == [Frame("parse", Top.x) EXCEPT !.got = Append(Top.got, ret[1])]
  <2>1. IsFrame(g) /\ g.f = Top.f
    <3> DEFINE b == Frame("parse", Top.x)
               more == Append(Top.got, ret[1])
    <3>1. IsFrame(b) /\ b.f = Top.f
      BY <1>6, NewFrame DEF ParsePart, In
    <3> HIDE DEF b, more
    <3>2. IsFrame([b EXCEPT !.got = more]) /\ [b EXCEPT !.got = more].f = b.f
      BY <3>1, MovedGot
    <3> QED BY <3>1, <3>2 DEF b, more
  <2>2. Become(g)
    BY <1>6 DEF ParsePart
  <2> HIDE DEF g
  <2> QED BY <1>0, <2>1, <2>2, BecomeInv
<1>7. CASE ParseNode
  BY <1>0, <1>7, ReturnInv DEF ParseNode
<1>8. CASE ParseDefineMacro
  BY <1>8, ThrowInv DEF ParseDefineMacro
<1> QED BY <1>1, <1>2, <1>3, <1>4, <1>5, <1>6, <1>7, <1>8 DEF Parse

LEMMA EvaluateInv == ASSUME IInv, Evaluate PROVE IInv'
<1>0. stack # <<>> /\ IsFrame(Top) /\ Top.f = "eval"
  BY TopIsFrame DEF Evaluate, EvalDeep, EvalLiteral, EvalShow, EvalRaise, EvalApply,
     EvalDefine, EvalSequence, EvalOperand, EvalList, EvalEval, EvalReturn, Evaluating, In
<1>1. CASE EvalDeep \/ EvalRaise
  BY <1>1, ThrowInv DEF EvalDeep, EvalRaise
<1>2. CASE EvalLiteral \/ EvalShow \/ EvalDefine \/ EvalList \/ EvalReturn
  BY <1>0, <1>2, ReturnInv DEF EvalLiteral, EvalShow, EvalDefine, EvalList, EvalReturn
<1>3. CASE EvalApply
  BY <1>0, <1>3, NewFrame, BecomeInv, ThrowInv DEF EvalApply
<1>4. CASE EvalSequence
  <2> DEFINE part == Frame("eval", Top.x.forms[Top.i + 1])
             g == [Top EXCEPT !.i = Top.i + 1]
  <2>1. IsFrame(part) /\ part.f = "eval" /\ IsFrame(g) /\ g.f = Top.f
    BY <1>0, NewFrame, MovedOn
  <2>2. Become(part) \/ CallFrom(g, part)
    BY <1>4 DEF EvalSequence
  <2> HIDE DEF part, g
  <2> QED BY <1>0, <2>1, <2>2, BecomeInv, CallInv
<1>5. CASE EvalOperand
  BY <1>0, <1>5, MovedOn, NewFrame, CallInv DEF EvalOperand
<1>6. CASE EvalEval
  BY <1>0, <1>6, MovedAt, NewFrame, CallInv DEF EvalEval
<1> QED BY <1>1, <1>2, <1>3, <1>4, <1>5, <1>6 DEF Evaluate

LEMMA EmptyStack == Balanced(<<>>, 0)
<1>1. GuardsOf(<<>>) = {}
  BY DEF GuardsOf
<1>3. IsStack(<<>>)
  <2>1. <<>> \in Seq({})
    OBVIOUS
  <2> QED BY <2>1 DEF IsStack
<1>2. Cardinality({}) = 0
  BY FS_EmptySet
<1>4. 0 <= MaxDepth /\ 0 \in Nat
  OBVIOUS
<1> QED BY <1>1, <1>2, <1>3, <1>4 DEF Balanced

LEMMA StartFormInv == ASSUME IInv, StartForm PROVE IInv'
<1> DEFINE fr == Frame("top", program[pc + 1])
<1>1. IsFrame(fr) /\ fr.f \notin Guards
  BY NewFrame DEF Guards
<1>2. stack' = Append(stack, fr) /\ depth' = Level(fr, depth)
  BY <1>1 DEF StartForm, Idle, Level
<1> HIDE DEF fr
<1> QED BY <1>1, <1>2, Push DEF IInv

LEMMA StepInv == ASSUME IInv, [Next]_vars PROVE IInv'
<1>1. CASE UNCHANGED <<stack, depth>>
  BY <1>1 DEF IInv
<1>2. CASE EndForm \/ FailForm \/ Finished \/ UNCHANGED vars
  BY <1>1, <1>2 DEF EndForm, FailForm, Finished, vars
<1> QED BY <1>2, TopLevelInv, ParseInv, EvaluateInv, StartFormInv, UnwindInv DEF Next, Step

(***************************************************************************)
(* The variables beside the stack.                                         *)
(***************************************************************************)
Progress == pc \in 0 .. Len(program) /\ program \in Programs
Tables == DOMAIN macros = Names /\ DOMAIN procs = Names
Returned == Len(ret) <= 1 /\ exc \in {"none", "error", "deep", "crashed"}
Beside == Progress /\ Tables /\ Returned

LEMMA TablesStep == ASSUME Tables, [Next]_vars PROVE Tables'
<1>1. CASE UNCHANGED tables
  BY <1>1 DEF tables, Tables
<1>2. CASE DefineMacro \/ TopAlias
  BY <1>1, <1>2 DEF Tables, DefineMacro, TopAlias, Throw
<1>3. CASE EvalDefine \/ EvalShow
  BY <1>3 DEF Tables, EvalDefine, EvalShow
<1>4. CASE ExpandHead \/ HeadExpanded \/ TooManyExpansions \/ TopBegin \/ NextInBegin
           \/ EndBegin \/ TopDefineMacro \/ TopParse \/ TopEval \/ TopReturn
  BY <1>1, <1>4 DEF ExpandHead, HeadExpanded, TooManyExpansions, TopBegin, NextInBegin,
     EndBegin, TopDefineMacro, TopParse, TopEval, TopReturn, CallFrom, Throw
<1>5. CASE Parse
  BY <1>1, <1>5 DEF Parse, ParseMacro, ParseExpansion, ParseReturn, ParseLeaf, ParseNext,
     ParsePart, ParseNode, ParseDefineMacro, CallFrom, Throw
<1>6. CASE EvalDeep \/ EvalLiteral \/ EvalRaise \/ EvalApply \/ EvalSequence \/ EvalOperand
           \/ EvalList \/ EvalEval \/ EvalReturn
  BY <1>1, <1>6 DEF EvalDeep, EvalLiteral, EvalRaise, EvalApply, EvalSequence, EvalOperand,
     EvalList, EvalEval, EvalReturn, CallFrom, Throw
<1>7. CASE StartForm \/ EndForm \/ Unwind \/ FailForm \/ Finished \/ UNCHANGED vars
  BY <1>1, <1>7 DEF StartForm, EndForm, Unwind, FailForm, Finished, vars, tables
<1> QED BY <1>2, <1>3, <1>4, <1>5, <1>6, <1>7 DEF Next, Step, TopLevel, Evaluate

\* What a step that moves a frame does to the others.
LEMMA Moved ==
  ASSUME Progress, Returned,
         \/ \E k \in {"error", "deep", "crashed"} : Throw(k)
         \/ \E fr, callee : CallFrom(fr, callee)
         \/ \E fr : Become(fr)
         \/ \E v : Return(v)
  PROVE  Progress' /\ Returned'
<1>0. Len(<<>>) = 0 /\ \A v : Len(<<v>>) = 1
  OBVIOUS
<1>1. ASSUME NEW k \in {"error", "deep", "crashed"}, Throw(k) PROVE Progress' /\ Returned'
  BY <1>1 DEF Progress, Returned, Throw, progress
<1>2. ASSUME NEW fr, NEW callee, CallFrom(fr, callee) PROVE Progress' /\ Returned'
  <2>1. CASE Throw("deep") \/ Throw("crashed")
    BY <1>1, <2>1
  <2>2. CASE ~(Throw("deep") \/ Throw("crashed"))
    <3>1. ret' = <<>> /\ UNCHANGED <<exc, progress>>
      BY <1>2, <2>2 DEF CallFrom
    <3> QED BY <1>0, <3>1 DEF Progress, Returned, progress
  <2> QED BY <2>1, <2>2
<1>3. ASSUME NEW fr, Become(fr) PROVE Progress' /\ Returned'
  BY <1>0, <1>3 DEF Progress, Returned, Become, progress
<1>4. ASSUME NEW v, Return(v) PROVE Progress' /\ Returned'
  BY <1>0, <1>4 DEF Progress, Returned, Return, progress
<1> QED BY <1>1, <1>2, <1>3, <1>4

LEMMA BesideStep == ASSUME Beside, [Next]_vars PROVE Beside'
<1> USE DEF Beside
<1>1. CASE TopLevel
  BY <1>1, TablesStep, Moved DEF TopLevel, ExpandHead, HeadExpanded, TooManyExpansions,
     TopBegin, NextInBegin, EndBegin, TopDefineMacro, DefineMacro, TopAlias, TopParse,
     TopEval, TopReturn
<1>2. CASE Parse
  BY <1>2, TablesStep, Moved DEF Parse, ParseMacro, ParseExpansion, ParseReturn, ParseLeaf,
     ParseNext, ParsePart, ParseNode, ParseDefineMacro
<1>3. CASE Evaluate
  BY <1>3, TablesStep, Moved DEF Evaluate, EvalDeep, EvalLiteral, EvalShow, EvalRaise,
     EvalApply, EvalDefine, EvalSequence, EvalOperand, EvalList, EvalEval, EvalReturn
<1>4. CASE StartForm
  <2>1. Len(program) \in Nat
    BY ExpanderAssumption DEF Progress
  <2>2. pc' \in 0 .. Len(program)
    BY <1>4, <2>1 DEF StartForm, Progress
  <2> QED BY <1>4, <2>2, TablesStep DEF StartForm, Progress, Returned
<1>5. CASE EndForm \/ FailForm \/ Unwind
  <2>1. Len(<<>>) = 0
    OBVIOUS
  <2> QED BY <1>5, <2>1, TablesStep DEF EndForm, FailForm, Unwind, Progress, Returned, progress
<1>6. CASE Finished \/ UNCHANGED vars
  BY <1>6, TablesStep DEF Finished, vars, Progress, Returned
<1> QED BY <1>1, <1>2, <1>3, <1>4, <1>5, <1>6 DEF Next, Step

(***************************************************************************)
(* Every variable keeps its type: no program is run beyond its end, no     *)
(* name leaves the tables, a call returns one value, and the depth never   *)
(* falls below zero.                                                       *)
(***************************************************************************)
THEOREM TypeCorrect == Spec => []TypeOK
<1>1. Init => IInv /\ Beside
  <2> SUFFICES ASSUME Init PROVE IInv /\ Beside
    OBVIOUS
  <2>1. IInv
    BY EmptyStack DEF Init, IInv
  <2>2. Len(program) \in Nat /\ Len(<<>>) = 0
    BY ExpanderAssumption DEF Init
  <2> QED BY <2>1, <2>2 DEF Init, Beside, Progress, Tables, Returned
<1>2. IInv /\ Beside /\ [Next]_vars => (IInv /\ Beside)'
  BY StepInv, BesideStep
<1>3. IInv /\ Beside => TypeOK
  BY DEF IInv, Balanced, IsStack, IsFrame, Kinds, Beside, Progress, Tables, Returned, TypeOK
<1> QED BY <1>1, <1>2, <1>3, PTL DEF Spec

(***************************************************************************)
(* The depth is the number of guards on the stack and within its limit, in *)
(* any mix of parsing, expansion and evaluation and after any error.       *)
(***************************************************************************)
THEOREM BudgetIsBalanced == Spec => []DepthBalanced
<1>1. Init => IInv
  BY EmptyStack DEF Init, IInv
<1>2. IInv /\ [Next]_vars => IInv'
  BY StepInv
<1>3. IInv => DepthBalanced
  BY DEF IInv, Balanced, DepthBalanced, Guarded, GuardsOf
<1> QED BY <1>1, <1>2, <1>3, PTL DEF Spec
=============================================================================
