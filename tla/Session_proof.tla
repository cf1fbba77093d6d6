--------------------------- MODULE Session_proof ----------------------------
(***************************************************************************)
(* Proofs about Session for any programs, files, callbacks and depth       *)
(* limit: the guards of Ctx (ActiveSession, EmitScope, DepthGuard) are     *)
(* balanced however a call ends.                                           *)
(***************************************************************************)
EXTENDS Session, TLAPS, FiniteSetTheorems, SequenceTheorems

USE SessionAssumption

(***************************************************************************)
(* How the frames of a kind change with a push, a pop and a replacement.   *)
(***************************************************************************)
LEMMA FramesFinite ==
  ASSUME NEW s \in Seq(Frames), NEW k
  PROVE  /\ IsFiniteSet(FramesOf(s, k))
         /\ Cardinality(FramesOf(s, k)) \in Nat
         /\ FramesOf(s, k) \subseteq 1 .. Len(s)
<1>1. Len(s) \in Nat /\ DOMAIN s = 1 .. Len(s)
  OBVIOUS
<1>2. IsFiniteSet(1 .. Len(s))
  BY <1>1, FS_Interval
<1>3. FramesOf(s, k) \subseteq 1 .. Len(s)
  BY <1>1 DEF FramesOf
<1> QED BY <1>2, <1>3, FS_Subset, FS_CardinalityType

LEMMA Push ==
  ASSUME NEW s \in Seq(Frames), NEW fr \in Frames
  PROVE  /\ Append(s, fr) \in Seq(Frames)
         /\ Len(Append(s, fr)) = Len(s) + 1
         /\ DOMAIN Append(s, fr) = 1 .. Len(s) + 1
         /\ \A i \in 1 .. Len(s) : Append(s, fr)[i] = s[i]
         /\ Append(s, fr)[Len(s) + 1] = fr
         /\ \A k : FramesOf(Append(s, fr), k) =
                     FramesOf(s, k) \cup (IF fr.f = k THEN {Len(s) + 1} ELSE {})
<1> DEFINE t == Append(s, fr)
<1>1. /\ t \in Seq(Frames) /\ Len(t) = Len(s) + 1
      /\ DOMAIN t = 1 .. Len(s) + 1 /\ DOMAIN s = 1 .. Len(s)
      /\ \A i \in 1 .. Len(s) : t[i] = s[i]
      /\ t[Len(s) + 1] = fr /\ Len(s) \in Nat
  OBVIOUS
<1> HIDE DEF t
<1>2. ASSUME NEW k
      PROVE  FramesOf(t, k) =
               FramesOf(s, k) \cup (IF fr.f = k THEN {Len(s) + 1} ELSE {})
  BY <1>1 DEF FramesOf
<1> QED BY <1>1, <1>2 DEF t

Below(s) == SubSeq(s, 1, Len(s) - 1)

LEMMA Pop ==
  ASSUME NEW s \in Seq(Frames), s # <<>>
  PROVE  /\ Below(s) \in Seq(Frames)
         /\ Len(Below(s)) = Len(s) - 1 /\ Len(s) \in Nat \ {0}
         /\ DOMAIN Below(s) = 1 .. Len(s) - 1 /\ DOMAIN s = 1 .. Len(s)
         /\ \A i \in 1 .. Len(s) - 1 : Below(s)[i] = s[i]
         /\ \A k : FramesOf(Below(s), k) = FramesOf(s, k) \ {Len(s)}
<1>1. /\ Below(s) \in Seq(Frames)
      /\ Len(Below(s)) = Len(s) - 1 /\ Len(s) \in Nat \ {0}
      /\ DOMAIN Below(s) = 1 .. Len(s) - 1 /\ DOMAIN s = 1 .. Len(s)
      /\ \A i \in 1 .. Len(s) - 1 : Below(s)[i] = s[i]
  <2>1. Len(s) \in Nat \ {0} /\ DOMAIN s = 1 .. Len(s)
    OBVIOUS
  <2>2. 1 \in 1 .. Len(s) + 1 /\ Len(s) - 1 \in 0 .. Len(s)
    BY <2>1
  <2> QED BY <2>1, <2>2, SubSeqProperties DEF Below
<1>2. ASSUME NEW k PROVE FramesOf(Below(s), k) = FramesOf(s, k) \ {Len(s)}
  BY <1>1 DEF FramesOf
<1> QED BY <1>1, <1>2

LEMMA SamePrefix ==
  ASSUME NEW r \in Seq(Frames), NEW t \in Seq(Frames), Len(r) <= Len(t),
         \A i \in 1 .. Len(r) : t[i] = r[i]
  PROVE  r = SubSeq(t, 1, Len(r))
<1>1. /\ Len(r) \in Nat /\ Len(t) \in Nat
      /\ 1 \in 1 .. Len(t) + 1 /\ Len(r) \in 0 .. Len(t)
  OBVIOUS
<1>2. /\ SubSeq(t, 1, Len(r)) \in Seq(Frames)
      /\ Len(SubSeq(t, 1, Len(r))) = Len(r)
      /\ \A i \in 1 .. Len(r) : SubSeq(t, 1, Len(r))[i] = t[i]
  BY <1>1, SubSeqProperties
<1> QED BY <1>2, SeqEqual

LEMMA Replace ==
  ASSUME NEW s \in Seq(Frames), s # <<>>, NEW fr \in Frames,
         fr.f = s[Len(s)].f
  PROVE  /\ Replaced(s, fr) \in Seq(Frames)
         /\ Len(Replaced(s, fr)) = Len(s) /\ Len(s) \in Nat \ {0}
         /\ DOMAIN Replaced(s, fr) = 1 .. Len(s) /\ DOMAIN s = 1 .. Len(s)
         /\ \A i \in 1 .. Len(s) - 1 : Replaced(s, fr)[i] = s[i]
         /\ Replaced(s, fr)[Len(s)] = fr
         /\ \A i \in 1 .. Len(s) : Replaced(s, fr)[i].f = s[i].f
         /\ \A k : FramesOf(Replaced(s, fr), k) = FramesOf(s, k)
<1> DEFINE t == Replaced(s, fr)
<1>1. /\ t \in Seq(Frames) /\ Len(t) = Len(s) /\ Len(s) \in Nat \ {0}
      /\ DOMAIN t = 1 .. Len(s) /\ DOMAIN s = 1 .. Len(s)
      /\ \A i \in 1 .. Len(s) - 1 : t[i] = s[i]
      /\ t[Len(s)] = fr
  BY DEF Replaced
<1> HIDE DEF t
<1>2. \A i \in 1 .. Len(s) : t[i].f = s[i].f
  BY <1>1
<1>3. ASSUME NEW k PROVE FramesOf(t, k) = FramesOf(s, k)
  BY <1>1, <1>2 DEF FramesOf
<1> QED BY <1>1, <1>2, <1>3 DEF t

(***************************************************************************)
(* A frame's class is what its tag says.                                   *)
(***************************************************************************)
LEMMA Tags ==
  ASSUME NEW fr \in Frames
  PROVE  /\ fr.f = "call" => fr \in CallFrames
         /\ fr.f = "run" => fr \in RunFrames
         /\ fr.f = "eval" => fr \in EvalFrames
         /\ fr.f = "emit" => fr \in EmitFrames
  BY DEF Frames, CallFrames, RunFrames, EvalFrames, EmitFrames

-----------------------------------------------------------------------------
(***************************************************************************)
(* The guards are balanced on a stack: what IInv says, of any stack s with *)
(* depth counter d, active flag a and callback slot e.                     *)
(***************************************************************************)
Last(s) == s[Len(s)]
WellPlaced(s, i, a) ==
  /\ s[i].f = "call" => i = 1
  /\ s[i].f = "run" => i = 1 \/ s[i-1].f \in {"call", "eval"}
  /\ s[i].f = "eval" => i > 1 /\ s[i-1].f \in {"run", "eval"}
  /\ s[i].f = "emit" => i > 1 /\ i = Len(s) /\ a
  /\ s[i].f = "emit" /\ s[i].event = "result" => i = 3
Balanced(s, d, a, e) ==
  /\ s \in Seq(Frames) /\ d \in Nat /\ a \in BOOLEAN /\ e \in Emitters \cup {NoOp}
  /\ d = Cardinality(FramesOf(s, "eval")) /\ d <= MaxDepth
  /\ FramesOf(s, "call") \subseteq {1}
  /\ (a <=> FramesOf(s, "call") # {})
  /\ e = (IF a THEN s[1].emitter ELSE NoOp)
  /\ (a => s[1].previous = NoOp)
  /\ \A i \in DOMAIN s : WellPlaced(s, i, a)

LEMMA BalancedReplace ==
  ASSUME NEW s, NEW d, NEW a, NEW e, Balanced(s, d, a, e), s # <<>>,
         NEW fr \in Frames, fr.f = Last(s).f, fr.f # "call",
         fr.f = "emit" => fr.event = Last(s).event
  PROVE  /\ Balanced(Replaced(s, fr), d, a, e)
         /\ Replaced(s, fr) # <<>> /\ Last(Replaced(s, fr)) = fr
         /\ Len(Replaced(s, fr)) = Len(s)
<1> DEFINE t == Replaced(s, fr)
<1>1. /\ t \in Seq(Frames) /\ Len(t) = Len(s) /\ Len(s) \in Nat \ {0}
      /\ DOMAIN t = 1 .. Len(s) /\ DOMAIN s = 1 .. Len(s)
      /\ \A i \in 1 .. Len(s) - 1 : t[i] = s[i]
      /\ \A i \in 1 .. Len(s) : t[i].f = s[i].f
      /\ t[Len(s)] = fr
      /\ \A k : FramesOf(t, k) = FramesOf(s, k)
  BY Replace DEF Balanced, Last
<1> HIDE DEF t
<1>2. a => t[1] = s[1]
  <2> SUFFICES ASSUME a PROVE t[1] = s[1]
    OBVIOUS
  <2>1. 1 \in FramesOf(s, "call")
    BY DEF Balanced
  <2>2. s[1].f = "call"
    BY <2>1 DEF FramesOf
  <2>3. Len(s) # 1
    BY <2>2 DEF Last
  <2> QED BY <1>1, <2>3
<1>3. \A i \in DOMAIN t : WellPlaced(t, i, a)
  BY <1>1 DEF Balanced, WellPlaced, Last
<1>4. Balanced(t, d, a, e)
  BY <1>1, <1>2, <1>3 DEF Balanced
<1>5. t # <<>> /\ Last(t) = fr
  BY <1>1 DEF Last
<1> QED BY <1>1, <1>4, <1>5 DEF t

LEMMA BalancedPush ==
  ASSUME NEW s, NEW d, NEW a, NEW e, Balanced(s, d, a, e), s # <<>>,
         NEW fr \in Frames, fr.f \in {"run", "eval", "emit"},
         Last(s).f \in {"run", "eval"},
         fr.f = "run" => Last(s).f = "eval",
         fr.f = "eval" => d < MaxDepth,
         fr.f = "emit" => a /\ (fr.event = "result" => Len(s) = 2)
  PROVE  Balanced(Append(s, fr), IF fr.f = "eval" THEN d + 1 ELSE d, a, e)
<1> DEFINE t == Append(s, fr)
<1>1. /\ t \in Seq(Frames) /\ Len(t) = Len(s) + 1 /\ DOMAIN t = 1 .. Len(s) + 1
      /\ \A i \in 1 .. Len(s) : t[i] = s[i]
      /\ t[Len(s) + 1] = fr
      /\ \A k : FramesOf(t, k) =
                  FramesOf(s, k) \cup (IF fr.f = k THEN {Len(s) + 1} ELSE {})
  BY Push DEF Balanced
<1>2. Len(s) \in Nat \ {0} /\ DOMAIN s = 1 .. Len(s)
  BY DEF Balanced
<1> HIDE DEF t
<1>3. FramesOf(t, "call") = FramesOf(s, "call") /\ t[1] = s[1]
  <2>1. fr.f # "call" /\ 1 \in 1 .. Len(s)
    BY <1>2
  <2>2. FramesOf(t, "call") = FramesOf(s, "call") \cup {}
    BY <1>1, <2>1
  <2> QED BY <1>1, <2>1, <2>2
<1>4. Cardinality(FramesOf(t, "eval")) = (IF fr.f = "eval" THEN d + 1 ELSE d)
  <2>1. /\ IsFiniteSet(FramesOf(s, "eval")) /\ d = Cardinality(FramesOf(s, "eval"))
        /\ Len(s) + 1 \notin FramesOf(s, "eval")
    BY <1>2, FramesFinite DEF Balanced
  <2>2. CASE fr.f = "eval"
    BY <1>1, <2>1, <2>2, FS_AddElement
  <2>3. CASE fr.f # "eval"
    <3>1. FramesOf(t, "eval") = FramesOf(s, "eval") \cup {}
      BY <1>1, <2>3
    <3> QED BY <2>1, <2>3, <3>1
  <2> QED BY <2>2, <2>3
<1>5. \A i \in DOMAIN t : WellPlaced(t, i, a)
  <2> SUFFICES ASSUME NEW i \in 1 .. Len(s) + 1 PROVE WellPlaced(t, i, a)
    BY <1>1
  <2>1. CASE i = Len(s) + 1
    BY <1>1, <1>2, <2>1 DEF WellPlaced, Last
  <2>2. CASE i \in 1 .. Len(s)
    <3>1. s[i].f # "emit"
      BY <1>2, <2>2 DEF Balanced, WellPlaced, Last
    <3>2. t[i] = s[i] /\ (i # 1 => t[i-1] = s[i-1])
      BY <1>1, <1>2, <2>2
    <3> QED BY <1>2, <2>2, <3>1, <3>2 DEF Balanced, WellPlaced
  <2> QED BY <1>2, <2>1, <2>2
<1>6. Balanced(t, IF fr.f = "eval" THEN d + 1 ELSE d, a, e)
  BY <1>1, <1>3, <1>4, <1>5 DEF Balanced
<1> QED BY <1>6 DEF t

LEMMA BalancedPop ==
  ASSUME NEW s, NEW d, NEW a, NEW e, Balanced(s, d, a, e), s # <<>>,
         Last(s).f # "call"
  PROVE  Balanced(Below(s), IF Last(s).f = "eval" THEN d - 1 ELSE d, a, e)
<1> DEFINE r == Below(s)
<1>1. /\ r \in Seq(Frames) /\ Len(r) = Len(s) - 1 /\ Len(s) \in Nat \ {0}
      /\ DOMAIN r = 1 .. Len(s) - 1 /\ DOMAIN s = 1 .. Len(s)
      /\ \A i \in 1 .. Len(s) - 1 : r[i] = s[i]
      /\ \A k : FramesOf(r, k) = FramesOf(s, k) \ {Len(s)}
  <2>1. s \in Seq(Frames)
    BY DEF Balanced
  <2> QED BY <2>1, Pop
<1> HIDE DEF r
<1>2. Len(s) \notin FramesOf(s, "call")
  BY DEF FramesOf, Last
<1>3. FramesOf(r, "call") = FramesOf(s, "call") /\ (a => r[1] = s[1])
  <2>1. FramesOf(r, "call") = FramesOf(s, "call")
    BY <1>1, <1>2
  <2>2. a => 1 \in FramesOf(s, "call")
    BY DEF Balanced
  <2> QED BY <1>1, <1>2, <2>1, <2>2
<1>4. /\ Cardinality(FramesOf(r, "eval")) = (IF Last(s).f = "eval" THEN d - 1 ELSE d)
      /\ (Last(s).f = "eval" => d - 1 \in Nat)
  <2>1. /\ IsFiniteSet(FramesOf(s, "eval")) /\ d = Cardinality(FramesOf(s, "eval"))
        /\ IsFiniteSet(FramesOf(r, "eval")) /\ Cardinality(FramesOf(r, "eval")) \in Nat
        /\ d \in Nat
    BY <1>1, FramesFinite DEF Balanced
  <2>2. CASE Last(s).f = "eval"
    <3>1. Len(s) \in FramesOf(s, "eval")
      BY <1>1, <2>2 DEF FramesOf, Last
    <3>2. Cardinality(FramesOf(r, "eval")) = d - 1
      BY <1>1, <2>1, <3>1, FS_RemoveElement
    <3> QED BY <2>1, <2>2, <3>2
  <2>3. CASE Last(s).f # "eval"
    <3>1. Len(s) \notin FramesOf(s, "eval")
      BY <2>3 DEF FramesOf, Last
    <3>2. FramesOf(r, "eval") = FramesOf(s, "eval")
      BY <1>1, <3>1
    <3> QED BY <2>1, <2>3, <3>2
  <2> QED BY <2>2, <2>3
<1>5. \A i \in DOMAIN r : WellPlaced(r, i, a)
  <2> TAKE i \in DOMAIN r
  <2>1. i \in DOMAIN s /\ i # Len(s) /\ r[i] = s[i] /\ (i # 1 => r[i-1] = s[i-1])
    BY <1>1
  <2> QED BY <2>1 DEF Balanced, WellPlaced
<1>6. Balanced(r, IF Last(s).f = "eval" THEN d - 1 ELSE d, a, e)
  BY <1>1, <1>3, <1>4, <1>5 DEF Balanced
<1> QED BY <1>6 DEF r

LEMMA BalancedLeave ==
  ASSUME NEW s, NEW d, NEW a, NEW e, Balanced(s, d, a, e), s # <<>>,
         Last(s).f = "call"
  PROVE  /\ Below(s) = <<>> /\ d = 0
         /\ Last(s).previous = NoOp
<1>1. Len(s) \in Nat \ {0} /\ DOMAIN s = 1 .. Len(s)
  BY DEF Balanced
<1>2. Len(s) = 1
  BY <1>1 DEF Balanced, WellPlaced, Last
<1>3. Below(s) = <<>>
  BY <1>2, SubSeqEmpty DEF Below
<1>4. 1 \in FramesOf(s, "call") /\ FramesOf(s, "eval") = {}
  BY <1>1, <1>2 DEF FramesOf, Last
<1>5. d = 0
  BY <1>4, FS_EmptySet DEF Balanced
<1> QED BY <1>2, <1>3, <1>4, <1>5 DEF Balanced, Last

LEMMA BalancedEmpty == Balanced(<<>>, 0, FALSE, NoOp)
<1>1. <<>> \in Seq(Frames) /\ DOMAIN <<>> = {} /\ Len(<<>>) = 0
  OBVIOUS
<1>2. \A k : FramesOf(<<>>, k) = {}
  BY <1>1 DEF FramesOf
<1>3. Cardinality({}) = 0
  BY FS_EmptySet
<1>4. 0 \in Nat /\ 0 <= MaxDepth /\ NoOp \in Emitters \cup {NoOp}
  OBVIOUS
<1> QED BY <1>1, <1>2, <1>3, <1>4, Zenon DEF Balanced

-----------------------------------------------------------------------------
IInv ==
  /\ Balanced(stack, depth, active, emit)
  /\ exc \in {"none", "scheme", "host", "exit"}
  /\ value \in {"void", "some"}
  /\ result \in RunResult
  /\ events \in Seq({"output", "result"})

\* What the invariant says of the innermost frame.
LEMMA TopFrame ==
  ASSUME IInv, stack # <<>>
  PROVE  /\ stack \in Seq(Frames) /\ Len(stack) \in Nat \ {0}
         /\ DOMAIN stack = 1 .. Len(stack)
         /\ Top \in Frames /\ Top = Last(stack)
         /\ Top.f = "call" => Top \in CallFrames
         /\ Top.f = "run" => Top \in RunFrames
         /\ Top.f = "eval" => Top \in EvalFrames
         /\ Top.f = "emit" => Top \in EmitFrames
<1>1. /\ stack \in Seq(Frames) /\ Len(stack) \in Nat \ {0}
      /\ DOMAIN stack = 1 .. Len(stack)
      /\ Top \in Frames /\ Top = Last(stack)
  BY DEF IInv, Balanced, Top, Last
<1> QED BY <1>1, Tags

LEMMA InitInv == Init => IInv
<1> SUFFICES ASSUME Init PROVE IInv
  OBVIOUS
<1> DEFINE fr == RunFrame(Preamble, TRUE)
<1>1. fr \in Frames /\ fr.f = "run"
  BY DEF RunFrame, Frames, RunFrames
<1> HIDE DEF fr
<1>2. stack = <<fr>> /\ stack \in Seq(Frames) /\ DOMAIN stack = {1} /\ stack[1] = fr
  <2>1. stack = <<fr>>
    BY DEF Init, fr
  <2> QED BY <1>1, <2>1
<1>3. FramesOf(stack, "eval") = {} /\ FramesOf(stack, "call") = {}
  BY <1>1, <1>2 DEF FramesOf
<1>4. Balanced(stack, depth, active, emit)
  <2>1. depth = 0 /\ active = FALSE /\ emit = NoOp
    BY DEF Init
  <2>2. 0 <= MaxDepth /\ MaxDepth \in Nat /\ Cardinality({}) = 0
    BY FS_EmptySet
  <2> QED BY <1>1, <1>2, <1>3, <2>1, <2>2 DEF Balanced, WellPlaced
<1> QED BY <1>4 DEF IInv, Init, RunResult, Nothing

\* The frames the actions make, and those they write back.
LEMMA NewFrames ==
  /\ \A form \in Form, role \in {"form", "guard"} :
       EvalFrame(form, role) \in Frames /\ EvalFrame(form, role).f = "eval"
  /\ \A src \in Source, strict \in BOOLEAN :
       RunFrame(src, strict) \in Frames /\ RunFrame(src, strict).f = "run"
  /\ \A event \in {"output", "result"} :
       /\ EmitFrame(event) \in Frames
       /\ EmitFrame(event).f = "emit" /\ EmitFrame(event).event = event
  BY DEF EvalFrame, RunFrame, EmitFrame, Frames, EvalFrames, RunFrames, EmitFrames

LEMMA MovedRun ==
  ASSUME NEW fr \in RunFrames
  PROVE  /\ \A at \in {"loop", "eval", "echo"} :
              /\ [fr EXCEPT !.at = at] \in Frames
              /\ [fr EXCEPT !.at = at].f = "run"
         /\ [fr EXCEPT !.at = "loop", !.pos = @ + 1] \in Frames
         /\ [fr EXCEPT !.at = "loop", !.pos = @ + 1].f = "run"
         /\ fr.f = "run" /\ fr.source.forms \in Seq(Form) /\ fr.pos \in Nat
<1>1. fr.f = "run" /\ fr.source \in Source /\ fr.pos \in Nat
  BY DEF RunFrames
<1>2. fr.source.forms \in Seq(Form)
  BY <1>1 DEF Source
<1>3. \A at \in {"loop", "eval", "echo"} :
        [fr EXCEPT !.at = at] \in RunFrames /\ [fr EXCEPT !.at = at].f = "run"
  BY DEF RunFrames
<1>4. /\ [fr EXCEPT !.at = "loop", !.pos = @ + 1] \in RunFrames
      /\ [fr EXCEPT !.at = "loop", !.pos = @ + 1].f = "run"
  <2> DEFINE n == fr.pos + 1
             at == "loop"
  <2>1. n \in Nat /\ at \in {"loop", "eval", "echo"}
    BY <1>1
  <2> HIDE DEF n, at
  <2>2. /\ [fr EXCEPT !.at = at, !.pos = n] \in RunFrames
        /\ [fr EXCEPT !.at = at, !.pos = n].f = "run"
    BY <2>1 DEF RunFrames
  <2> QED BY <2>2 DEF n, at
<1> QED BY <1>1, <1>2, <1>3, <1>4 DEF Frames

LEMMA MovedEval ==
  ASSUME NEW fr \in EvalFrames
  PROVE  /\ [fr EXCEPT !.ip = 1] \in Frames /\ [fr EXCEPT !.ip = 1].f = "eval"
         /\ [fr EXCEPT !.ip = @ + 1] \in Frames
         /\ [fr EXCEPT !.ip = @ + 1].f = "eval"
         /\ fr.f = "eval" /\ fr.form \in Form
  BY DEF EvalFrames, Frames

-----------------------------------------------------------------------------
(***************************************************************************)
(* Each action keeps the invariant.                                        *)
(***************************************************************************)
\* Throwing changes nothing but the exception in flight.
LEMMA ThrowInv ==
  ASSUME IInv, NEW k \in {"scheme", "host", "exit"}, Throw(k)
  PROVE  IInv'
  BY DEF IInv, Throw, Balanced

LEMMA StartFormInv == IInv /\ StartForm => IInv'
<1> SUFFICES ASSUME IInv, StartForm PROVE IInv'
  OBVIOUS
<1>1. CASE Throw("scheme")
  BY <1>1, ThrowInv
<1>2. CASE ~(depth >= MaxDepth)
  <2>1. stack # <<>> /\ Top.f = "run" /\ Top \in RunFrames /\ Top = Last(stack)
    BY TopFrame DEF StartForm, Going
  <2> DEFINE fr == [Top EXCEPT !.at = "eval"]
             new == EvalFrame(NextForm, IF NextForm.guard = "none"
                                        THEN "form" ELSE "guard")
             s == Replaced(stack, fr)
  <2>2. fr \in Frames /\ fr.f = "run"
    BY <2>1, MovedRun
  <2>3. new \in Frames /\ new.f = "eval"
    <3>1. NextForm \in Form
      <4>1. /\ Top.source.forms \in Seq(Form) /\ Top.pos \in Nat
            /\ Top.pos < Len(Top.source.forms)
        BY <2>1, MovedRun DEF More, StartForm
      <4> QED BY <4>1 DEF NextForm
    <3> QED BY <3>1, NewFrames
  <2>4. /\ stack' = Append(s, new) /\ depth' = depth + 1
        /\ UNCHANGED <<active, emit, exc, value, result, events>>
    BY <1>2 DEF StartForm, WithTop
  <2>5. depth < MaxDepth
    BY <1>2 DEF IInv, Balanced
  <2> HIDE DEF fr, new
  <2>6. Balanced(s, depth, active, emit) /\ s # <<>> /\ Last(s) = fr
    BY <2>1, <2>2, BalancedReplace DEF IInv
  <2> HIDE DEF s
  <2>7. Balanced(Append(s, new), depth + 1, active, emit)
    BY <2>2, <2>3, <2>5, <2>6, BalancedPush
  <2> QED BY <2>4, <2>7 DEF IInv
<1> QED BY <1>1, <1>2 DEF StartForm

\* Handing an event to the slot puts a callback on top of s, or nothing.
LEMMA DeliverInv ==
  ASSUME NEW s, Balanced(s, depth, active, emit), s # <<>>,
         Last(s).f \in {"run", "eval"}, NEW event \in {"output", "result"},
         emit = NoOp \/ event = "output" \/ Len(s) = 2,
         events \in Seq({"output", "result"}), Deliver(event, s)
  PROVE  Balanced(stack', depth, active, emit) /\ events' \in Seq({"output", "result"})
<1>1. CASE emit = NoOp
  BY <1>1 DEF Deliver
<1>2. CASE emit # NoOp
  <2> DEFINE fr == EmitFrame(event)
  <2>1. stack' = Append(s, fr) /\ events' = Append(events, event)
    BY <1>2 DEF Deliver
  <2>2. fr \in Frames /\ fr.f = "emit" /\ fr.event = event
    BY NewFrames
  <2>3. active
    BY <1>2 DEF Balanced
  <2> HIDE DEF fr
  <2>4. Balanced(Append(s, fr), depth, active, emit)
    BY <1>2, <2>2, <2>3, BalancedPush
  <2> QED BY <2>1, <2>4
<1> QED BY <1>1, <1>2

LEMMA FinishRunInv == IInv /\ FinishRun => IInv'
<1> SUFFICES ASSUME IInv, FinishRun PROVE IInv'
  OBVIOUS
<1>1. CASE Throw("scheme")
  BY <1>1, ThrowInv
<1>2. CASE ~Throw("scheme")
  <2> DEFINE r == Below(stack)
             fr == [Last(r) EXCEPT !.ip = @ + 1]
  <2>1. stack # <<>> /\ Top.f = "run" /\ Top \in RunFrames /\ Top = Last(stack)
    BY TopFrame DEF FinishRun, Going
  <2>2. /\ stack' = IF Len(r) > 0 /\ Last(r).f = "eval" THEN Replaced(r, fr) ELSE r
        /\ result' = [consumed |-> Top.pos, incomplete |-> Top.source.tail = "open"]
        /\ UNCHANGED <<active, emit, depth, exc, value, events>>
    BY <1>2 DEF FinishRun, Rest, Below, Last, Advanced
  <2>3. Balanced(r, depth, active, emit)
    BY <2>1, BalancedPop DEF IInv
  <2>4. result' \in RunResult
    BY <2>1, <2>2, MovedRun DEF RunResult
  <2> HIDE DEF r
  <2>5. ASSUME Len(r) > 0, Last(r).f = "eval"
        PROVE  Balanced(Replaced(r, fr), depth, active, emit)
    <3>1. r # <<>> /\ Last(r) \in Frames
      BY <2>3, <2>5 DEF Balanced, Last
    <3>2. Last(r) \in EvalFrames
      BY <2>5, <3>1, Tags
    <3>3. fr \in Frames /\ fr.f = "eval"
      BY <3>2, MovedEval
    <3> HIDE DEF fr
    <3> QED BY <2>3, <2>5, <3>1, <3>3, BalancedReplace
  <2> HIDE DEF fr
  <2>6. Balanced(stack', depth', active', emit')
    BY <2>2, <2>3, <2>5
  <2> QED BY <2>2, <2>4, <2>6 DEF IInv
<1> QED BY <1>1, <1>2

LEMMA EchoInv == IInv /\ Echo => IInv'
<1> SUFFICES ASSUME IInv, Echo PROVE IInv'
  OBVIOUS
<1> DEFINE fr == [Top EXCEPT !.at = "loop", !.pos = @ + 1]
           s == Replaced(stack, fr)
<1>1. stack # <<>> /\ Top.f = "run" /\ Top \in RunFrames /\ Top = Last(stack)
  BY TopFrame DEF Echo, Going
<1>2. fr \in Frames /\ fr.f = "run"
  BY <1>1, MovedRun
<1>3. /\ \/ depth = 0 /\ Deliver("result", s)
         \/ stack' = s /\ UNCHANGED events
      /\ UNCHANGED <<active, emit, depth, exc, value, result>>
  BY DEF Echo, WithTop
<1> HIDE DEF fr
<1>4. /\ Balanced(s, depth, active, emit) /\ s # <<>>
      /\ Last(s) = fr /\ Len(s) = Len(stack)
  BY <1>1, <1>2, BalancedReplace DEF IInv
\* No evaluation below means that the run is the one the call started.
<1>5. depth = 0 => emit = NoOp \/ Len(stack) = 2
  <2> SUFFICES ASSUME depth = 0, emit # NoOp PROVE Len(stack) = 2
    OBVIOUS
  <2>1. /\ stack \in Seq(Frames) /\ Len(stack) \in Nat \ {0}
        /\ DOMAIN stack = 1 .. Len(stack) /\ stack[Len(stack)].f = "run"
    BY <1>1, TopFrame DEF Top
  <2>2. FramesOf(stack, "eval") = {}
    <3>1. /\ IsFiniteSet(FramesOf(stack, "eval"))
          /\ Cardinality(FramesOf(stack, "eval")) = 0
      BY <2>1, FramesFinite DEF IInv, Balanced
    <3> QED BY <3>1, FS_EmptySet
  <2>3. 1 \in FramesOf(stack, "call")
    BY DEF IInv, Balanced
  <2>4. stack[1].f = "call" /\ Len(stack) # 1
    BY <2>1, <2>3 DEF FramesOf
  <2>5. WellPlaced(stack, Len(stack), active) /\ WellPlaced(stack, Len(stack) - 1, active)
    BY <2>1, <2>4 DEF IInv, Balanced
  <2>6. stack[Len(stack) - 1].f # "eval"
    BY <2>1, <2>2, <2>4 DEF FramesOf
  <2>7. stack[Len(stack) - 1].f = "call"
    BY <2>1, <2>4, <2>5, <2>6 DEF WellPlaced
  <2>8. Len(stack) - 1 = 1
    BY <2>5, <2>7 DEF WellPlaced
  <2>9. \A n \in Nat : n - 1 = 1 => n = 2
    OBVIOUS
  <2> QED BY <2>1, <2>8, <2>9, Zenon
<1> HIDE DEF s
<1>6. /\ Balanced(stack', depth, active, emit)
      /\ events' \in Seq({"output", "result"})
  <2>1. CASE depth = 0 /\ Deliver("result", s)
    BY <1>2, <1>4, <1>5, <2>1, DeliverInv DEF IInv
  <2>2. CASE stack' = s /\ UNCHANGED events
    BY <1>4, <2>2 DEF IInv
  <2> QED BY <1>3, <2>1, <2>2
<1> QED BY <1>3, <1>6 DEF IInv

LEMMA EnterBodyInv == IInv /\ EnterBody => IInv'
<1> SUFFICES ASSUME IInv, EnterBody PROVE IInv'
  OBVIOUS
<1>1. CASE Throw("scheme")
  BY <1>1, ThrowInv
<1>2. CASE ~(depth >= MaxDepth)
  <2> DEFINE new == EvalFrame(Top.form, "form")
  <2>1. stack # <<>> /\ Top.f = "eval" /\ Top \in EvalFrames /\ Top = Last(stack)
    BY TopFrame DEF EnterBody, Going
  <2>2. new \in Frames /\ new.f = "eval"
    BY <2>1, MovedEval, NewFrames
  <2>3. /\ stack' = Append(stack, new) /\ depth' = depth + 1
        /\ UNCHANGED <<active, emit, exc, value, result, events>>
    BY <1>2 DEF EnterBody
  <2>4. depth < MaxDepth
    BY <1>2 DEF IInv, Balanced
  <2> HIDE DEF new
  <2>5. Balanced(Append(stack, new), depth + 1, active, emit)
    BY <2>1, <2>2, <2>4, BalancedPush DEF IInv
  <2> QED BY <2>3, <2>5 DEF IInv
<1> QED BY <1>1, <1>2 DEF EnterBody

LEMMA DisplayInv == IInv /\ Display => IInv'
<1> SUFFICES ASSUME IInv, Display PROVE IInv'
  OBVIOUS
<1> DEFINE fr == [Top EXCEPT !.ip = @ + 1]
           s == Replaced(stack, fr)
<1>1. stack # <<>> /\ Top.f = "eval" /\ Top \in EvalFrames /\ Top = Last(stack)
  BY TopFrame DEF Display, Calling, Going
<1>2. fr \in Frames /\ fr.f = "eval"
  BY <1>1, MovedEval
<1>3. /\ Deliver("output", s)
      /\ UNCHANGED <<active, emit, depth, exc, value, result>>
  BY DEF Display, Advanced, Top
<1> HIDE DEF fr
<1>4. Balanced(s, depth, active, emit) /\ s # <<>> /\ Last(s) = fr
  BY <1>1, <1>2, BalancedReplace DEF IInv
<1> HIDE DEF s
<1>5. /\ Balanced(stack', depth, active, emit)
      /\ events' \in Seq({"output", "result"})
  BY <1>2, <1>3, <1>4, DeliverInv DEF IInv
<1> QED BY <1>3, <1>5 DEF IInv

LEMMA LoadInv == IInv /\ Load => IInv'
<1> SUFFICES ASSUME IInv, Load PROVE IInv'
  OBVIOUS
<1> DEFINE src == Files[Top.form.ops[Top.ip + 1].file]
           new == RunFrame(src, TRUE)
<1>1. stack # <<>> /\ Top.f = "eval" /\ Top \in EvalFrames /\ Top = Last(stack)
  BY TopFrame DEF Load, Calling, Going
<1>2. CASE src = Absent
  BY <1>2, ThrowInv DEF Load
<1>3. CASE src # Absent
  <2>1. Top.form.ops[Top.ip + 1].file \in FileNames
    <3>1. /\ Top.form.ops \in Seq(Op) /\ Top.ip \in Nat
          /\ Top.ip < Len(Top.form.ops)
      BY <1>1 DEF EvalFrames, Form, Load, Calling
    <3>2. Top.form.ops[Top.ip + 1] \in Op /\ Top.form.ops[Top.ip + 1].op = "load"
      BY <3>1 DEF Load, Calling
    <3> QED BY <3>2 DEF Op
  <2>2. src \in Source
    BY <1>3, <2>1
  <2>3. new \in Frames /\ new.f = "run"
    BY <2>2, NewFrames
  <2>4. /\ stack' = Append(stack, new)
        /\ UNCHANGED <<active, emit, depth, exc, value, result, events>>
    BY <1>3 DEF Load
  <2> HIDE DEF new
  <2>5. Balanced(Append(stack, new), depth, active, emit)
    BY <1>1, <2>3, BalancedPush DEF IInv
  <2> QED BY <2>4, <2>5 DEF IInv
<1> QED BY <1>2, <1>3

LEMMA ReturnInv == IInv /\ Return => IInv'
<1> SUFFICES ASSUME IInv, Return PROVE IInv'
  OBVIOUS
<1> DEFINE r == Below(stack)
           fr == IF Last(r).f = "run" THEN [Last(r) EXCEPT !.at = "echo"]
                                      ELSE [Last(r) EXCEPT !.ip = 1]
<1>1. stack # <<>> /\ Top.f = "eval" /\ Top \in EvalFrames /\ Top = Last(stack)
  BY TopFrame DEF Return, Going
<1>2. /\ stack' = Replaced(r, fr) /\ depth' = depth - 1
      /\ UNCHANGED <<active, emit, exc, result, events>>
  BY DEF Return, Rest, Below, Last
<1>3. value' \in {"void", "some"}
  BY <1>1 DEF Return, IInv, EvalFrames, Form
<1>4. Balanced(r, depth - 1, active, emit)
  BY <1>1, BalancedPop DEF IInv
<1>5. r # <<>> /\ Last(r) \in Frames /\ Last(r).f \in {"run", "eval"}
  <2>1. /\ stack \in Seq(Frames) /\ Len(stack) \in Nat \ {0}
        /\ DOMAIN stack = 1 .. Len(stack) /\ stack[Len(stack)].f = "eval"
    BY <1>1, TopFrame DEF Top
  <2>2. WellPlaced(stack, Len(stack), active)
    BY <2>1 DEF IInv, Balanced
  <2>3. Len(stack) > 1 /\ stack[Len(stack) - 1].f \in {"run", "eval"}
    BY <2>1, <2>2 DEF WellPlaced
  <2>4. /\ r \in Seq(Frames) /\ Len(r) = Len(stack) - 1
        /\ \A i \in 1 .. Len(stack) - 1 : r[i] = stack[i]
    BY <1>1, <2>1, Pop
  <2> HIDE DEF r
  <2> QED BY <2>1, <2>3, <2>4 DEF Last
<1> HIDE DEF r
<1>6. fr \in Frames /\ fr.f = Last(r).f
  <2>1. CASE Last(r).f = "run"
    BY <1>5, <2>1, Tags, MovedRun
  <2>2. CASE Last(r).f = "eval"
    BY <1>5, <2>2, Tags, MovedEval
  <2> QED BY <1>5, <2>1, <2>2
<1> HIDE DEF fr
<1>7. Balanced(Replaced(r, fr), depth - 1, active, emit)
  BY <1>4, <1>5, <1>6, BalancedReplace
<1> QED BY <1>2, <1>3, <1>7 DEF IInv

LEMMA RefuseInv == IInv /\ Refuse => IInv'
<1> SUFFICES ASSUME IInv, Refuse PROVE IInv'
  OBVIOUS
<1> DEFINE fr == [Top EXCEPT !.refused = TRUE]
<1>1. stack # <<>> /\ Top.f = "emit" /\ Top \in EmitFrames /\ Top = Last(stack)
  BY TopFrame DEF Refuse, Going
<1>2. fr \in Frames /\ fr.f = "emit" /\ fr.event = Top.event
  BY <1>1 DEF EmitFrames, Frames
<1>3. /\ stack' = Replaced(stack, fr) /\ exc' \in {"host", "none"}
      /\ UNCHANGED <<active, emit, depth, value, result, events>>
  BY DEF Refuse, WithTop
<1> HIDE DEF fr
<1>4. Balanced(Replaced(stack, fr), depth, active, emit)
  BY <1>1, <1>2, BalancedReplace DEF IInv
<1> QED BY <1>3, <1>4 DEF IInv

LEMMA CallbackReturnInv == IInv /\ CallbackReturn => IInv'
<1> SUFFICES ASSUME IInv, CallbackReturn PROVE IInv'
  OBVIOUS
<1>1. stack # <<>> /\ Top.f = "emit" /\ Top = Last(stack)
  BY TopFrame DEF CallbackReturn, Going
<1>2. /\ stack' = Below(stack)
      /\ UNCHANGED <<active, emit, depth, exc, value, result, events>>
  BY DEF CallbackReturn, Rest, Below
<1>3. Balanced(Below(stack), depth, active, emit)
  BY <1>1, BalancedPop DEF IInv
<1> QED BY <1>2, <1>3 DEF IInv

LEMMA HandleInv == IInv /\ Handle => IInv'
<1> SUFFICES ASSUME IInv, Handle PROVE IInv'
  OBVIOUS
<1> DEFINE fr == [Top EXCEPT !.ip = 1]
<1>1. stack # <<>> /\ Top.f = "eval" /\ Top \in EvalFrames /\ Top = Last(stack)
  BY TopFrame DEF Handle, Caught
<1>2. fr \in Frames /\ fr.f = "eval"
  BY <1>1, MovedEval
<1>3. /\ stack' = Replaced(stack, fr) /\ exc' = "none" /\ value' = "void"
      /\ UNCHANGED <<active, emit, depth, result, events>>
  BY DEF Handle, WithTop
<1> HIDE DEF fr
<1>4. Balanced(Replaced(stack, fr), depth, active, emit)
  BY <1>1, <1>2, BalancedReplace DEF IInv
<1> QED BY <1>3, <1>4 DEF IInv

LEMMA UnwindInv == IInv /\ Unwind => IInv'
<1> SUFFICES ASSUME IInv, Unwind PROVE IInv'
  OBVIOUS
<1>1. stack # <<>> /\ Top.f # "call" /\ Top = Last(stack)
  BY TopFrame DEF Unwind
<1>2. /\ stack' = Below(stack) /\ depth' = IF Last(stack).f = "eval" THEN depth - 1 ELSE depth
      /\ UNCHANGED <<active, emit, exc, value, result, events>>
  BY <1>1 DEF Unwind, Rest, Below
<1>3. Balanced(Below(stack), IF Last(stack).f = "eval" THEN depth - 1 ELSE depth,
               active, emit)
  BY <1>1, BalancedPop DEF IInv
<1>4. Balanced(stack', depth', active', emit')
  BY <1>2, <1>3
<1> QED BY <1>2, <1>4 DEF IInv

\* Leaving a call empties the stack and gives the slot back.
LEMMA LeaveInv ==
  ASSUME IInv, stack # <<>>, Top.f = "call", NEW thrown, Leave(thrown),
         exc' \in {"none", "scheme", "host", "exit"}
  PROVE  IInv'
<1>1. Below(stack) = <<>> /\ depth = 0 /\ Top.previous = NoOp
  BY TopFrame, BalancedLeave DEF IInv
<1>2. /\ active' = FALSE /\ emit' = NoOp /\ stack' = <<>> /\ depth' = 0
      /\ UNCHANGED <<value, result, events>>
  BY <1>1 DEF Leave, Rest, Below
<1>3. Balanced(stack', depth', active', emit')
  BY <1>2, BalancedEmpty
<1> QED BY <1>2, <1>3 DEF IInv

\* A call can start only on an empty stack: a callback runs inside a call.
LEMMA HostCallInv ==
  ASSUME IInv, NEW op \in {"run", "execute"}, NEW src \in Sources,
         NEW e \in Emitters, HostCall(op, src, e)
  PROVE  IInv'
<1> DEFINE call == CallFrame(op, src, e)
           run == RunFrame(src, op = "execute")
<1>1. stack = <<>>
  <2> SUFFICES ASSUME stack # <<>> PROVE FALSE
    OBVIOUS
  <2>1. Top.f = "emit" /\ ~active
    BY DEF HostCall, Going
  <2>2. Len(stack) \in DOMAIN stack
    BY TopFrame
  <2>3. WellPlaced(stack, Len(stack), active)
    BY <2>2 DEF IInv, Balanced
  <2> QED BY <2>1, <2>3 DEF WellPlaced, Top
<1>2. depth = 0 /\ emit = NoOp
  <2>1. ~active
    BY DEF HostCall
  <2>2. FramesOf(stack, "eval") = {}
    BY <1>1 DEF FramesOf
  <2> QED BY <2>1, <2>2, FS_EmptySet DEF IInv, Balanced
<1>3. call \in Frames /\ call.f = "call" /\ call.emitter = e /\ call.previous = NoOp
  BY <1>2 DEF CallFrame, CallFrames, Frames
<1>4. run \in Frames /\ run.f = "run"
  BY NewFrames
<1>5. /\ active' = TRUE /\ emit' = e /\ events' = <<>>
      /\ stack' = Append(Append(stack, call), run)
      /\ UNCHANGED <<depth, exc, value, result>>
  BY DEF HostCall
<1> HIDE DEF call, run
<1>6. /\ stack' \in Seq(Frames) /\ DOMAIN stack' = {1, 2} /\ Len(stack') = 2
      /\ stack'[1] = call /\ stack'[2] = run
  BY <1>1, <1>3, <1>4, <1>5
<1>7. FramesOf(stack', "call") = {1} /\ FramesOf(stack', "eval") = {}
  BY <1>3, <1>4, <1>6 DEF FramesOf
<1>8. \A i \in DOMAIN stack' : WellPlaced(stack', i, TRUE)
  BY <1>3, <1>4, <1>6 DEF WellPlaced
<1>9. Balanced(stack', 0, TRUE, e)
  <2>1. Cardinality({}) = 0 /\ 0 \in Nat /\ 0 <= MaxDepth
    BY FS_EmptySet
  <2>2. {1} # {} /\ {1} \subseteq {1} /\ e \in Emitters \cup {NoOp} /\ TRUE \in BOOLEAN
    OBVIOUS
  <2>3. stack'[1].emitter = e /\ stack'[1].previous = NoOp
    BY <1>3, <1>6
  <2> QED BY <1>6, <1>7, <1>8, <2>1, <2>2, <2>3 DEF Balanced
<1>10. Balanced(stack', depth', active', emit')
  BY <1>2, <1>5, <1>9
<1>11. events' \in Seq({"output", "result"}) /\ UNCHANGED <<exc, value, result>>
  BY <1>5
<1> QED BY <1>10, <1>11 DEF IInv

LEMMA StepInv == IInv /\ [Next]_vars => IInv'
<1> SUFFICES ASSUME IInv, [Next]_vars PROVE IInv'
  OBVIOUS
<1>1. CASE StartForm
  BY <1>1, StartFormInv
<1>2. CASE FinishRun
  BY <1>2, FinishRunInv
<1>3. CASE Echo
  BY <1>3, EchoInv
<1>4. CASE EnterBody
  BY <1>4, EnterBodyInv
<1>5. CASE Display
  BY <1>5, DisplayInv
<1>6. CASE Load
  BY <1>6, LoadInv
<1>7. CASE Raise \/ Exit
  BY <1>7, ThrowInv DEF Raise, Exit
<1>8. CASE Return
  BY <1>8, ReturnInv
<1>9. CASE Handle
  BY <1>9, HandleInv
<1>10. CASE Unwind
  BY <1>10, UnwindInv
<1>11. CASE Escape \/ FinishCall
  BY <1>11, LeaveInv DEF Escape, FinishCall, Going, IInv
<1>12. CASE Refuse
  BY <1>12, RefuseInv
<1>13. CASE CallbackReturn
  BY <1>13, CallbackReturnInv
<1>14. CASE CallbackThrow
  BY <1>14, ThrowInv DEF CallbackThrow
<1>15. CASE Host
  BY <1>15, HostCallInv DEF Host
<1>16. CASE UNCHANGED vars
  BY <1>16 DEF vars, IInv, Balanced
<1> QED BY <1>1, <1>2, <1>3, <1>4, <1>5, <1>6, <1>7, <1>8, <1>9, <1>10, <1>11,
           <1>12, <1>13, <1>14, <1>15, <1>16 DEF Next, Step, Callback

LEMMA InvariantHolds == Spec => []IInv
<1>1. Init => IInv
  BY InitInv
<1>2. IInv /\ [Next]_vars => IInv'
  BY StepInv
<1> QED BY <1>1, <1>2, PTL DEF Spec

-----------------------------------------------------------------------------
(***************************************************************************)
(* Types, for any programs and any depth limit.                            *)
(***************************************************************************)
THEOREM TypeCorrect == Spec => []TypeOK
<1>1. IInv => TypeOK
  BY DEF IInv, Balanced, TypeOK
<1> QED BY <1>1, InvariantHolds, PTL

(***************************************************************************)
(* Ctx::depth is the number of live DepthGuards and within its limit,      *)
(* however evaluations end: value, error, exit or the host's exception.    *)
(***************************************************************************)
THEOREM DepthIsBalanced == Spec => []DepthBalanced
<1>1. IInv => DepthBalanced
  BY DEF IInv, Balanced, DepthBalanced
<1> QED BY <1>1, InvariantHolds, PTL

(***************************************************************************)
(* ActiveSession and EmitScope: active and the slot follow the one host    *)
(* call on the stack.                                                      *)
(***************************************************************************)
THEOREM ActiveIsBalanced == Spec => []ActiveBalanced
<1>1. IInv => ActiveBalanced
  BY DEF IInv, Balanced, ActiveBalanced
<1> QED BY <1>1, InvariantHolds, PTL

(***************************************************************************)
(* A callback runs only inside a call, and hears of the values of that     *)
(* call's own forms, never of those of a file it loads.                    *)
(***************************************************************************)
THEOREM CallbacksBelongToCalls == Spec => []CallbackInCall
<1>1. IInv => CallbackInCall
  <2> SUFFICES ASSUME IInv, NEW i \in FramesOf(stack, "emit")
               PROVE  /\ i = Len(stack) /\ active
                      /\ stack[i].event = "result" => i = 3
    BY DEF CallbackInCall
  <2>1. i \in DOMAIN stack /\ stack[i].f = "emit"
    BY DEF FramesOf
  <2>2. WellPlaced(stack, i, active)
    BY <2>1 DEF IInv, Balanced
  <2> QED BY <2>1, <2>2 DEF WellPlaced
<1> QED BY <1>1, InvariantHolds, PTL

(***************************************************************************)
(* A call made from a callback is refused and disturbs nothing: as long as *)
(* the callback runs, the call below it keeps its flag, its slot, its      *)
(* depth, its events and every frame.                                      *)
(***************************************************************************)
THEOREM RefusalIsHarmless == Spec => CallInProgressUndisturbed
<1> DEFINE Undisturbed ==
      /\ UNCHANGED <<active, emit, depth, events, history>>
      /\ Rest = SubSeq(stack', 1, Len(Rest))
<1>1. ASSUME IInv, [Next]_vars, stack # <<>>, Top.f = "emit"
      PROVE  Undisturbed
  <2> DEFINE r == Below(stack)
  <2>1. /\ stack \in Seq(Frames) /\ Len(stack) \in Nat \ {0}
        /\ DOMAIN stack = 1 .. Len(stack)
        /\ Rest = r /\ r \in Seq(Frames) /\ Len(r) = Len(stack) - 1
        /\ \A i \in 1 .. Len(stack) - 1 : r[i] = stack[i]
    BY <1>1, TopFrame, Pop DEF Rest, Below
  <2>2. active
    <3>1. WellPlaced(stack, Len(stack), active)
      BY <1>1, <2>1 DEF IInv, Balanced
    <3> QED BY <1>1, <3>1 DEF WellPlaced, Top
  <2> HIDE DEF r
  \* The frames below the callback are still there.
  <2>3. ASSUME stack' \in Seq(Frames), Len(r) <= Len(stack'),
               \A i \in 1 .. Len(r) : stack'[i] = r[i]
        PROVE  r = SubSeq(stack', 1, Len(r))
    BY <2>1, <2>3, SamePrefix
  <2>4. CASE Refuse
    <3> DEFINE fr == [Top EXCEPT !.refused = TRUE]
    <3>1. stack' = Replaced(stack, fr)
      BY <2>4 DEF Refuse, WithTop
    <3>2. fr \in Frames /\ fr.f = Top.f
      BY <1>1, TopFrame DEF EmitFrames, Frames
    <3> HIDE DEF fr
    <3>3. /\ stack' \in Seq(Frames) /\ Len(stack') = Len(stack)
          /\ \A i \in 1 .. Len(stack) - 1 : stack'[i] = stack[i]
      BY <1>1, <2>1, <3>1, <3>2, Replace DEF Top
    <3>4. r = SubSeq(stack', 1, Len(r))
      BY <2>1, <2>3, <3>3
    <3> QED BY <2>1, <2>4, <3>4 DEF Refuse
  <2>5. CASE CallbackReturn
    BY <2>1, <2>3, <2>5 DEF CallbackReturn
  <2>6. CASE CallbackThrow \/ UNCHANGED vars
    BY <2>1, <2>3, <2>6 DEF CallbackThrow, Throw, vars
  <2>7. CASE Unwind
    BY <1>1, <2>1, <2>3, <2>7 DEF Unwind
  <2>8. ~Host
    BY <2>2 DEF Host, HostCall
  <2>9. /\ ~StartForm /\ ~FinishRun /\ ~Echo /\ ~EnterBody /\ ~Display /\ ~Load
        /\ ~Raise /\ ~Exit /\ ~Return /\ ~Handle /\ ~Escape /\ ~FinishCall
    BY <1>1 DEF StartForm, FinishRun, Echo, EnterBody, Display, Load, Raise, Exit,
                Return, Handle, Escape, FinishCall, Going, Calling, Caught
  <2> QED BY <1>1, <2>4, <2>5, <2>6, <2>7, <2>8, <2>9 DEF Next, Step, Callback
<1>2. IInv /\ [Next]_vars => [stack # <<>> /\ Top.f = "emit" => Undisturbed]_vars
  BY <1>1
<1> QED BY <1>2, InvariantHolds, PTL DEF Spec, CallInProgressUndisturbed
=============================================================================
