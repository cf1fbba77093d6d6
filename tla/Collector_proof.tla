-------------------------- MODULE Collector_proof ---------------------------
(***************************************************************************)
(* Proofs about Collector, for any set of addresses, any class mix, any    *)
(* stack bound and any initial threshold.                                  *)
(***************************************************************************)
EXTENDS Collector, TLAPS, FiniteSetTheorems, SequenceTheorems

USE HeapAssumption, ThresholdAssumption

(***************************************************************************)
(* Every trace method reports all the pointers its class declares          *)
(* (src/types.cpp, src/expression.cpp): a field left out of a trace method *)
(* would make this lemma false.                                            *)
(***************************************************************************)
LEMMA TraceIsComplete ==
  ASSUME NEW n \in Node
  PROVE  Trace(n) = Refs(n)
<1>1. CASE n \in [kind : {"Leaf"}]
  BY <1>1 DEF Trace, Refs
<1>2. CASE n \in [kind : {"Env"}, binding : Value, parent : Value]
  BY <1>2 DEF Trace, Refs, Child
<1>3. CASE n \in [kind : {"Cons"}, car : Value, cdr : Value]
  BY <1>3 DEF Trace, Refs, Child
<1>4. CASE n \in [kind : {"Vector"}, data : Value]
  BY <1>4 DEF Trace, Refs, Child
<1>5. CASE n \in [kind : {"Error"}, irritants : Value]
  BY <1>5 DEF Trace, Refs, Child
<1>6. CASE n \in [kind : {"Expr"}, literal : Value, child : Value]
  BY <1>6 DEF Trace, Refs, Child
<1>7. CASE n \in [kind : {"Procedure"}, code : Value, env : Value]
  BY <1>7 DEF Trace, Refs, Child
<1>8. CASE n \in [kind : {"Thunk"}, body : Value, env : Value]
  BY <1>8 DEF Trace, Refs, Child
<1>9. CASE n \in [kind : {"Forced"}, value : Value]
  BY <1>9 DEF Trace, Refs, Child
<1> QED BY <1>1, <1>2, <1>3, <1>4, <1>5, <1>6, <1>7, <1>8, <1>9 DEF Node

(***************************************************************************)
(* Reach(R) is the least closed set around R.                              *)
(***************************************************************************)
LEMMA ReachIsLeast ==
  ASSUME NEW R, R \subseteq Entity
  PROVE  /\ R \subseteq Reach(R)
         /\ Reach(R) \subseteq Entity
         /\ Closed(Reach(R))
         /\ \A S \in SUBSET Entity :
              (R \subseteq S /\ Closed(S)) => Reach(R) \subseteq S
<1>1. \A x : Refs(node[x]) \subseteq Entity
  BY DEF Refs
<1>2. R \subseteq Reach(R) /\ Reach(R) \subseteq Entity
  BY DEF Reach
<1>3. Closed(Reach(R))
  BY <1>1 DEF Reach, Closed
<1> QED BY <1>2, <1>3 DEF Reach

(***************************************************************************)
(* A constructor is only given pointers its caller holds.                  *)
(***************************************************************************)
LEMMA NewNodeRefs ==
  ASSUME NEW S, S \subseteq Entity, NEW n \in NewNodes(S)
  PROVE  n \in Node /\ Refs(n) \subseteq S
<1> DEFINE any == (S \ {Global}) \cup {Atom}
           env == OfKind("Env", S)
           code == OfKind("Expr", S)
<1>0. /\ any \subseteq Value /\ any \cap Entity \subseteq S
      /\ env \subseteq S /\ code \subseteq S /\ S \subseteq Value
      /\ Atom \in Value /\ Atom \notin Entity
  BY DEF OfKind, Value, Entity
<1> HIDE DEF any, env, code
<1>1. CASE n = Leaf
  BY <1>1 DEF Leaf, Node, Refs
<1>2. CASE n \in [kind : {"Env"}, binding : {Atom}, parent : env]
  BY <1>0, <1>2 DEF Node, Refs
<1>3. CASE n \in [kind : {"Cons"}, car : any, cdr : any]
  BY <1>0, <1>3 DEF Node, Refs
<1>4. CASE n \in [kind : {"Vector"}, data : any]
  BY <1>0, <1>4 DEF Node, Refs
<1>5. CASE n \in [kind : {"Error"}, irritants : any]
  BY <1>0, <1>5 DEF Node, Refs
<1>6. CASE n \in [kind : {"Expr"}, literal : any, child : code \cup {Atom}]
  BY <1>0, <1>6 DEF Node, Refs
<1>7. CASE n \in [kind : {"Procedure"}, code : code, env : env]
  BY <1>0, <1>7 DEF Node, Refs
<1>8. CASE n \in [kind : {"Thunk"}, body : code, env : env]
  BY <1>0, <1>8 DEF Node, Refs
<1> QED BY <1>1, <1>2, <1>3, <1>4, <1>5, <1>6, <1>7, <1>8
        DEF NewNodes, any, env, code

(***************************************************************************)
(* An assignment adds at most the assigned pointer to an object's fields.  *)
(***************************************************************************)
LEMMA UpdatedRefs ==
  ASSUME NEW n \in Node, NEW v \in Value, NEW u \in Updated(n, v)
  PROVE  u \in Node /\ Refs(u) \subseteq Refs(n) \cup ({v} \cap Entity)
<1>1. CASE n \in [kind : {"Env"}, binding : Value, parent : Value]
  <2>1. u = [n EXCEPT !.binding = v]
    BY <1>1 DEF Updated
  <2> QED BY <1>1, <2>1 DEF Node, Refs
<1>2. CASE n \in [kind : {"Cons"}, car : Value, cdr : Value]
  <2>1. u = [n EXCEPT !.car = v] \/ u = [n EXCEPT !.cdr = v]
    BY <1>2 DEF Updated
  <2> QED BY <1>2, <2>1 DEF Node, Refs
<1>3. CASE n \in [kind : {"Vector"}, data : Value]
  <2>1. u = [n EXCEPT !.data = v]
    BY <1>3 DEF Updated
  <2> QED BY <1>3, <2>1 DEF Node, Refs
<1>4. CASE n \in [kind : {"Thunk"}, body : Value, env : Value]
  <2>1. u = [kind |-> "Forced", value |-> v]
    BY <1>4 DEF Updated
  <2> QED BY <1>4, <2>1 DEF Node, Refs
<1>5. CASE n.kind \notin {"Env", "Cons", "Vector", "Thunk"}
  BY <1>5 DEF Updated
<1> QED BY <1>1, <1>2, <1>3, <1>4, <1>5 DEF Node
-----------------------------------------------------------------------------
\* The part of the invariant that speaks of the program's own steps.
HeapInv == HeapTypeOK /\ NoDangling /\ FrameShape
IInv == TypeOK /\ NoDangling /\ FrameShape /\ MarkInv

LEMMA TopFrame ==
  ASSUME HeapInv, Running
  PROVE  /\ Len(frames) \in Nat \ {0} /\ DOMAIN frames = 1 .. Len(frames)
         /\ Top \in Frame
         /\ Top.held \subseteq heap \cup {Global}
         /\ Usable \subseteq heap \cup {Global}
         /\ \A i \in DOMAIN frames :
              frames[i] \in Frame /\ frames[i].held \subseteq heap \cup {Global}
<1>1. Len(frames) \in Nat \ {0} /\ DOMAIN frames = 1 .. Len(frames)
  BY DEF HeapInv, HeapTypeOK, Running
<1>2. \A i \in DOMAIN frames :
        frames[i] \in Frame /\ frames[i].held \subseteq heap \cup {Global}
  BY <1>1 DEF HeapInv, HeapTypeOK, NoDangling, FrameRoots
<1> QED BY <1>1, <1>2 DEF Top, Usable

(***************************************************************************)
(* Replacing what the top frame holds by other owned objects keeps the     *)
(* stack well formed.                                                      *)
(***************************************************************************)
LEMMA HoldKeepsFrames ==
  ASSUME HeapInv, Running, NEW x \in Value, Hold(x), Top.at # "next"
  PROVE  /\ frames' \in Seq(Frame) /\ FrameShape'
         /\ FrameRoots' \subseteq FrameRoots \cup ({x} \cap Entity)
<1>1. Len(frames) \in Nat \ {0} /\ DOMAIN frames = 1 .. Len(frames)
      /\ Top \in Frame /\ frames \in Seq(Frame)
  BY TopFrame DEF HeapInv, HeapTypeOK
<1>2. /\ frames' \in Seq(Frame) /\ Len(frames') = Len(frames)
      /\ \A i \in DOMAIN frames :
           /\ frames'[i].at = frames[i].at
           /\ i # Len(frames) => frames'[i] = frames[i]
      /\ frames'[Len(frames)].held = Top.held \cup ({x} \cap Entity)
  BY <1>1 DEF Hold, Frame, Top
<1>3. FrameShape'
  BY <1>1, <1>2 DEF FrameShape, HeapInv, Top
<1>4. ASSUME NEW i \in DOMAIN frames'
      PROVE  frames'[i].held \subseteq FrameRoots \cup ({x} \cap Entity)
  <2>1. i \in DOMAIN frames
    BY <1>1, <1>2
  <2>2. CASE i = Len(frames)
    BY <1>1, <1>2, <2>1, <2>2 DEF FrameRoots, Top
  <2>3. CASE i # Len(frames)
    BY <1>2, <2>1, <2>3 DEF FrameRoots
  <2> QED BY <2>2, <2>3
<1>5. FrameRoots' \subseteq FrameRoots \cup ({x} \cap Entity)
  BY <1>4 DEF FrameRoots
<1> QED BY <1>2, <1>3, <1>5

LEMMA AllocInv == ASSUME HeapInv, Alloc PROVE HeapInv'
<1>1. PICK o \in Obj \ heap, n \in NewNodes(Usable) :
        /\ heap' = heap \cup {o}
        /\ node' = [node EXCEPT ![o] = n]
        /\ Hold(o)
  BY DEF Alloc
<1>2. /\ Running /\ Top.at # "next" /\ macros' = macros /\ o \in Value
      /\ o \in Entity
  BY DEF Alloc, Value, Entity
<1>3. Usable \subseteq heap \cup {Global} /\ Usable \subseteq Entity
  BY <1>2, TopFrame DEF HeapInv, HeapTypeOK, Entity
<1>4. n \in Node /\ Refs(n) \subseteq heap \cup {Global}
  BY <1>3, NewNodeRefs
<1>5. /\ frames' \in Seq(Frame) /\ FrameShape'
      /\ FrameRoots' \subseteq FrameRoots \cup {o}
  BY <1>1, <1>2, HoldKeepsFrames
<1>6. HeapTypeOK'
  <2>1. IsFiniteSet(heap')
    BY <1>1, FS_AddElement DEF HeapInv, HeapTypeOK
  <2> QED BY <1>1, <1>2, <1>4, <1>5, <2>1 DEF HeapInv, HeapTypeOK
<1>7. NoDangling'
  <2>1. /\ node'[o] = n
        /\ \A x \in heap \cup {Global} : node'[x] = node[x]
    BY <1>1, <1>2 DEF HeapInv, HeapTypeOK, Entity
  <2>2. \A x \in heap' \cup {Global} : Refs(node'[x]) \subseteq heap' \cup {Global}
    BY <1>1, <1>4, <2>1 DEF HeapInv, NoDangling
  <2>3. MacroRoots' \subseteq heap' /\ FrameRoots' \subseteq heap' \cup {Global}
    BY <1>1, <1>2, <1>5 DEF HeapInv, NoDangling, MacroRoots
  <2> QED BY <2>2, <2>3 DEF NoDangling
<1> QED BY <1>5, <1>6, <1>7 DEF HeapInv

LEMMA LoadInv == ASSUME HeapInv, Load PROVE HeapInv'
<1>1. PICK r \in MacroRoots \cup (UNION {Refs(node[x]) : x \in Usable}) :
        Hold(r)
  BY DEF Load
<1>2. Running /\ Top.at # "next" /\ UNCHANGED <<heap, node, macros>>
  BY DEF Load
<1>3. r \in heap \cup {Global} /\ r \in Value
  <2>1. CASE r \in MacroRoots
    BY <2>1 DEF HeapInv, HeapTypeOK, NoDangling, Value, Entity
  <2>2. CASE r \notin MacroRoots
    <3>1. PICK x \in Usable : r \in Refs(node[x])
      BY <1>1, <2>2 DEF MacroRoots
    <3>2. x \in heap \cup {Global}
      BY <1>2, TopFrame
    <3> QED BY <3>1, <3>2 DEF HeapInv, NoDangling, Refs, Value
  <2> QED BY <2>1, <2>2
<1>4. /\ frames' \in Seq(Frame) /\ FrameShape'
      /\ FrameRoots' \subseteq FrameRoots \cup ({r} \cap Entity)
  BY <1>1, <1>2, <1>3, HoldKeepsFrames
<1>5. HeapTypeOK'
  BY <1>2, <1>4 DEF HeapInv, HeapTypeOK
<1>6. NoDangling'
  BY <1>2, <1>3, <1>4 DEF HeapInv, NoDangling, MacroRoots
<1> QED BY <1>4, <1>5, <1>6 DEF HeapInv

LEMMA StoreInv == ASSUME HeapInv, Store PROVE HeapInv'
<1>1. PICK x \in Usable, v \in (Usable \ {Global}) \cup {Atom} :
        \E n \in Updated(node[x], v) : node' = [node EXCEPT ![x] = n]
  BY DEF Store
<1>2. PICK n \in Updated(node[x], v) : node' = [node EXCEPT ![x] = n]
  BY <1>1
<1>3. Running /\ UNCHANGED <<heap, macros, frames>>
  BY DEF Store
<1>4. /\ x \in heap \cup {Global} /\ x \in Entity
      /\ v \in Value /\ {v} \cap Entity \subseteq heap \cup {Global}
  BY <1>3, TopFrame DEF HeapInv, HeapTypeOK, Value, Entity
<1>5. node[x] \in Node
  BY <1>4 DEF HeapInv, HeapTypeOK
<1>6. n \in Node /\ Refs(n) \subseteq heap \cup {Global}
  BY <1>2, <1>4, <1>5, UpdatedRefs DEF HeapInv, NoDangling
<1>7. HeapTypeOK' /\ FrameShape'
  BY <1>2, <1>3, <1>6 DEF HeapInv, HeapTypeOK, FrameShape
<1>8. NoDangling'
  <2>1. \A y \in heap \cup {Global} :
          node'[y] = IF y = x THEN n ELSE node[y]
    BY <1>2 DEF HeapInv, HeapTypeOK, Entity
  <2>2. MacroRoots' = MacroRoots /\ FrameRoots' = FrameRoots
    BY <1>3 DEF MacroRoots, FrameRoots
  <2> QED BY <1>3, <1>6, <2>1, <2>2 DEF HeapInv, NoDangling
<1> QED BY <1>7, <1>8 DEF HeapInv

LEMMA DefineMacroInv == ASSUME HeapInv, DefineMacro PROVE HeapInv'
<1>1. PICK m \in MacroNames, p \in OfKind("Procedure", Usable \ {Global}) :
        macros' = [macros EXCEPT ![m] = p]
  BY DEF DefineMacro
<1>2. Running /\ UNCHANGED <<heap, node, frames>>
  BY DEF DefineMacro
<1>3. p \in heap /\ p \in Obj
  BY <1>1, <1>2, TopFrame DEF OfKind, HeapInv, HeapTypeOK
<1>4. HeapTypeOK' /\ FrameShape'
  BY <1>1, <1>2, <1>3 DEF HeapInv, HeapTypeOK, FrameShape
<1>5. MacroRoots' \subseteq MacroRoots \cup {p} /\ FrameRoots' = FrameRoots
  BY <1>1, <1>2, <1>3 DEF HeapInv, HeapTypeOK, MacroRoots, FrameRoots
<1>6. NoDangling'
  BY <1>2, <1>3, <1>5 DEF HeapInv, NoDangling
<1> QED BY <1>4, <1>6 DEF HeapInv

(***************************************************************************)
(* Pushing a frame that holds no more than owned objects.                  *)
(***************************************************************************)
LEMMA PushInv ==
  ASSUME HeapInv, UNCHANGED <<heap, node, macros>>,
         NEW f \in Frame, frames' = Append(frames, f),
         f.held \subseteq heap \cup {Global},
         f.at = "next" => f.held = {},
         f.at # "eval" => frames = <<>> \/ Top.at = "eval",
         f.at = "eval" => frames # <<>>,
         frames # <<>> => Top.at # "next"
  PROVE  HeapInv'
<1>1. /\ Len(frames) \in Nat /\ DOMAIN frames = 1 .. Len(frames)
      /\ frames \in Seq(Frame)
  BY DEF HeapInv, HeapTypeOK
<1>2. /\ frames' \in Seq(Frame) /\ DOMAIN frames' = 1 .. Len(frames) + 1
      /\ \A i \in DOMAIN frames : frames'[i] = frames[i]
      /\ frames'[Len(frames) + 1] = f
  BY <1>1
<1>3. FrameShape'
  BY <1>1, <1>2 DEF FrameShape, HeapInv, Top
<1>4. FrameRoots' \subseteq FrameRoots \cup f.held
  <2>1. \A i \in DOMAIN frames' : frames'[i].held \subseteq FrameRoots \cup f.held
    BY <1>1, <1>2 DEF FrameRoots
  <2> QED BY <2>1 DEF FrameRoots
<1>5. HeapTypeOK' /\ MacroRoots' = MacroRoots
  BY <1>2 DEF HeapInv, HeapTypeOK, MacroRoots
<1>6. NoDangling'
  BY <1>4, <1>5 DEF HeapInv, NoDangling
<1> QED BY <1>3, <1>5, <1>6 DEF HeapInv

(***************************************************************************)
(* Popping frames down to the k-th, which may receive one pointer that the *)
(* top frame held.                                                         *)
(***************************************************************************)
LEMMA PopInv ==
  ASSUME HeapInv, Running, UNCHANGED <<heap, node, macros>>,
         NEW k \in 0 .. Len(frames) - 1, NEW v \in Top.held \cup {Atom},
         PopTo(k, v)
  PROVE  HeapInv'
<1>1. /\ Len(frames) \in Nat \ {0} /\ DOMAIN frames = 1 .. Len(frames)
      /\ {v} \cap Entity \subseteq heap \cup {Global}
      /\ k \in Nat /\ k < Len(frames)
  BY TopFrame DEF Entity
<1>2. \A i \in 1 .. k : /\ frames[i] \in Frame
                       /\ frames[i].held \subseteq heap \cup {Global}
                       /\ frames[i].at # "next"
  BY <1>1, TopFrame DEF HeapInv, FrameShape
<1>3. frames' \in [1 .. k -> Frame]
  BY <1>1, <1>2 DEF PopTo, Frame
<1>4. frames' \in Seq(Frame) /\ DOMAIN frames' = 1 .. k
  BY <1>1, <1>3, SeqDef
<1>5. \A i \in 1 .. k : /\ frames'[i].at = frames[i].at
                       /\ frames'[i].held \subseteq heap \cup {Global}
  BY <1>1, <1>2 DEF PopTo
<1>6. FrameShape'
  BY <1>1, <1>2, <1>4, <1>5 DEF FrameShape, HeapInv
<1>7. FrameRoots' \subseteq heap \cup {Global}
  BY <1>4, <1>5 DEF FrameRoots
<1>8. HeapTypeOK' /\ MacroRoots' = MacroRoots
  BY <1>4 DEF HeapInv, HeapTypeOK, MacroRoots
<1>9. NoDangling'
  BY <1>7, <1>8 DEF HeapInv, NoDangling
<1> QED BY <1>6, <1>8, <1>9 DEF HeapInv

(***************************************************************************)
(* Putting another frame in the place of the top one, with the kind of a   *)
(* run and no new pointer.                                                 *)
(***************************************************************************)
LEMMA ReplaceTopInv ==
  ASSUME HeapTypeOK, FrameShape, Running, FrameRoots \subseteq heap \cup {Global},
         Top.at # "eval", NEW f \in Frame, f.at # "eval",
         f.held \subseteq Top.held, f.at = "next" => f.held = {},
         frames' = [frames EXCEPT ![Len(frames)] = f]
  PROVE  frames' \in Seq(Frame) /\ FrameShape' /\ FrameRoots' \subseteq FrameRoots
<1>1. Len(frames) \in Nat \ {0} /\ DOMAIN frames = 1 .. Len(frames)
  BY DEF HeapTypeOK, Running
<1>2. /\ frames' \in Seq(Frame) /\ Len(frames') = Len(frames)
      /\ DOMAIN frames' = DOMAIN frames
      /\ \A i \in DOMAIN frames :
           frames'[i] = IF i = Len(frames) THEN f ELSE frames[i]
  BY <1>1 DEF HeapTypeOK
<1>3. FrameShape'
  BY <1>1, <1>2 DEF FrameShape, Top
<1>4. \A i \in DOMAIN frames' : frames'[i].held \subseteq frames[i].held
  BY <1>1, <1>2 DEF Top
<1>5. FrameRoots' \subseteq FrameRoots
  BY <1>2, <1>4 DEF FrameRoots
<1> QED BY <1>2, <1>3, <1>5

(***************************************************************************)
(* No step of the program makes a pointer dangle or a run misplaced.       *)
(***************************************************************************)
LEMMA MutateInv == ASSUME HeapInv, Mutate PROVE HeapInv'
<1>1. CASE Alloc BY <1>1, AllocInv
<1>2. CASE Load BY <1>2, LoadInv
<1>3. CASE Store BY <1>3, StoreInv
<1>4. CASE DefineMacro BY <1>4, DefineMacroInv
<1>5. CASE Enter
  <2> DEFINE f == [at |-> "eval", held |-> Top.held]
  <2>1. /\ f \in Frame /\ f.at = "eval" /\ f.held \subseteq heap \cup {Global}
    BY <1>5, TopFrame DEF Enter, Frame
  <2>2. /\ frames' = Append(frames, f) /\ UNCHANGED <<heap, node, macros>>
        /\ frames # <<>> /\ Top.at # "next"
    BY <1>5 DEF Enter, Running
  <2> HIDE DEF f
  <2> QED BY <2>1, <2>2, PushInv
<1>6. CASE Return
  <2>1. PICK v \in Top.held \cup {Atom} : PopTo(Len(frames) - 1, v)
    BY <1>6 DEF Return
  <2>2. Running /\ UNCHANGED <<heap, node, macros>>
    BY <1>6 DEF Return
  <2>3. Len(frames) - 1 \in 0 .. Len(frames) - 1
    BY <2>2, TopFrame
  <2> QED BY <2>1, <2>2, <2>3, PopInv
<1>7. CASE BeginRun
  <2> DEFINE f == [at |-> "next", held |-> {}]
  <2>1. /\ f \in Frame /\ f.at = "next" /\ f.held = {}
    BY DEF Frame
  <2>2. /\ frames' = Append(frames, f) /\ UNCHANGED <<heap, node, macros>>
        /\ frames = <<>> \/ Top.at = "eval"
    BY <1>7 DEF BeginRun, Running
  <2> HIDE DEF f
  <2> QED BY <2>1, <2>2, PushInv
<1>8. CASE EndForm
  <2> DEFINE f == [at |-> "next", held |-> {}]
  <2>1. f \in Frame /\ f.at = "next" /\ f.held = {}
    BY DEF Frame
  <2>2. /\ frames' = [frames EXCEPT ![Len(frames)] = f]
        /\ UNCHANGED <<heap, node, macros>>
        /\ Running /\ Top.at = "form"
    BY <1>8 DEF EndForm
  <2>3. HeapTypeOK /\ FrameShape /\ FrameRoots \subseteq heap \cup {Global}
    BY DEF HeapInv, NoDangling
  <2> HIDE DEF f
  <2>4. frames' \in Seq(Frame) /\ FrameShape' /\ FrameRoots' \subseteq FrameRoots
    BY <2>1, <2>2, <2>3, ReplaceTopInv
  <2> QED BY <2>2, <2>4 DEF HeapInv, HeapTypeOK, NoDangling, MacroRoots
<1>9. CASE EndRun
  <2>1. /\ PopTo(Len(frames) - 1, Atom) /\ Running
        /\ UNCHANGED <<heap, node, macros>>
    BY <1>9 DEF EndRun
  <2>2. Len(frames) - 1 \in 0 .. Len(frames) - 1
    BY <2>1, TopFrame
  <2> QED BY <2>1, <2>2, PopInv
<1>10. CASE Throw
  <2>1. PICK k \in 0 .. Len(frames) - 1, v \in Top.held \cup {Atom} : PopTo(k, v)
    BY <1>10 DEF Throw
  <2>2. Running /\ UNCHANGED <<heap, node, macros>>
    BY <1>10 DEF Throw
  <2> QED BY <2>1, <2>2, PopInv
<1> QED BY <1>1, <1>2, <1>3, <1>4, <1>5, <1>6, <1>7, <1>8, <1>9, <1>10
        DEF Mutate
-----------------------------------------------------------------------------
(***************************************************************************)
(* A session starts with the invariant.                                    *)
(***************************************************************************)
LEMMA InitInv == Init => IInv
<1> SUFFICES ASSUME Init PROVE IInv
  OBVIOUS
<1>1. PICK b \in Obj :
        /\ heap = {b}
        /\ node = [x \in Entity |->
                     IF x = Global
                     THEN [kind |-> "Env", binding |-> b, parent |-> Atom]
                     ELSE Leaf]
  BY DEF Init, HeapInit
<1>2. /\ macros = [m \in MacroNames |-> Atom] /\ frames = <<>>
      /\ gcThreshold = InitThreshold /\ gc = "idle"
      /\ worklist = {} /\ marked = {}
  BY DEF Init, HeapInit
<1>3. /\ [kind |-> "Env", binding |-> b, parent |-> Atom] \in Node
      /\ Leaf \in Node /\ Refs(Leaf) = {}
      /\ Refs([kind |-> "Env", binding |-> b, parent |-> Atom]) = {b}
  BY DEF Node, Leaf, Refs, Value, Entity
<1>4. IsFiniteSet(heap)
  BY <1>1, FS_Singleton
<1>5. frames \in Seq(Frame) /\ DOMAIN frames = {} /\ FrameRoots = {}
  BY <1>2, EmptySeq DEF FrameRoots
<1>6. HeapTypeOK
  BY <1>1, <1>2, <1>3, <1>4, <1>5 DEF HeapTypeOK
<1>7. NoDangling
  <2>1. MacroRoots = {}
    BY <1>2 DEF MacroRoots
  <2>2. b \in Entity /\ Global \in Entity /\ b # Global
    BY DEF Entity
  <2>3. node[Global] = [kind |-> "Env", binding |-> b, parent |-> Atom]
        /\ node[b] = Leaf
    BY <1>1, <2>2
  <2>4. Refs(node[Global]) = {b} /\ Refs(node[b]) = {}
    BY <1>3, <2>3
  <2> QED BY <1>1, <1>5, <2>1, <2>4 DEF NoDangling
<1> QED BY <1>2, <1>5, <1>6, <1>7 DEF IInv, TypeOK, FrameShape, MarkInv

(***************************************************************************)
(* When the collector may run, only the global environment and the macros  *)
(* hold pointers: with no live DepthGuard there is one frame, it is a run  *)
(* between two forms, and its locals are empty.                            *)
(***************************************************************************)
LEMMA OutermostHoldsNothing ==
  ASSUME HeapInv, Running, Top.at = "next", outermost
  PROVE  Len(frames) = 1 /\ FrameRoots = {}
<1>1. /\ Len(frames) \in Nat \ {0} /\ DOMAIN frames = 1 .. Len(frames)
  BY TopFrame
<1>2. Len(frames) = 1
  <2>1. Len(frames) = 1 \/ frames[Len(frames) - 1].at = "eval"
    BY <1>1 DEF HeapInv, FrameShape, Top
  <2>2. Len(frames) # 1 => Len(frames) - 1 \in DOMAIN frames
    BY <1>1
  <2> QED BY <2>1, <2>2 DEF outermost
<1>3. \A i \in DOMAIN frames : frames[i].held = {}
  BY <1>1, <1>2 DEF HeapInv, FrameShape, Top
<1> QED BY <1>2, <1>3 DEF FrameRoots

\* The frames are untouched by StartForm but for where the top one is.
LEMMA StartFormInv ==
  ASSUME HeapTypeOK, FrameShape, Running, Top.at = "next",
         FrameRoots \subseteq heap \cup {Global}, StartForm
  PROVE  frames' \in Seq(Frame) /\ FrameShape' /\ FrameRoots' \subseteq FrameRoots
<1>1. Len(frames) \in Nat \ {0} /\ DOMAIN frames = 1 .. Len(frames)
      /\ Top \in Frame
  BY DEF HeapTypeOK, Running, Top
<1> DEFINE f == [at |-> "form", held |-> Top.held]
<1>2. f \in Frame /\ f.at = "form" /\ f.held = Top.held
  BY <1>1 DEF Frame
<1>3. frames' = [frames EXCEPT ![Len(frames)] = f]
  BY DEF StartForm
<1> HIDE DEF f
<1> QED BY <1>2, <1>3, ReplaceTopInv

(***************************************************************************)
(* Every step of the specification keeps the invariant.                    *)
(***************************************************************************)
LEMMA StepInv == ASSUME IInv, [Next]_vars PROVE IInv'
<1> USE DEF IInv, TypeOK
<1>0. HeapInv
  BY DEF HeapInv
<1>1. CASE Program
  <2>1. HeapInv'
    BY <1>0, <1>1, MutateInv DEF Program
  <2> QED BY <1>1, <2>1 DEF Program, HeapInv, gcVars, MarkInv
<1>2. CASE SkipCollect
  <2>1. frames' \in Seq(Frame) /\ FrameShape' /\ FrameRoots' \subseteq FrameRoots
    BY <1>0, <1>2, StartFormInv DEF SkipCollect, AtNext, HeapInv, NoDangling
  <2>2. HeapTypeOK' /\ NoDangling'
    BY <1>2, <2>1 DEF SkipCollect, HeapTypeOK, NoDangling, MacroRoots
  <2> QED BY <1>2, <2>1, <2>2 DEF SkipCollect, AtNext, gcVars, MarkInv
<1>3. CASE StartCollect
  <2>1. Len(frames) = 1 /\ Top.at = "next" /\ UNCHANGED <<heapVars, gcThreshold>>
    BY <1>0, <1>3, OutermostHoldsNothing DEF StartCollect, AtNext, CollectNow
  <2>2. HeapTypeOK' /\ NoDangling' /\ FrameShape'
    BY <2>1 DEF heapVars, HeapTypeOK, NoDangling, FrameShape, MacroRoots, FrameRoots
  <2>3. Roots \subseteq Entity
    BY DEF Roots, MacroRoots, NoDangling, HeapTypeOK, Entity
  <2>4. /\ gc' = "marking" /\ worklist' = Roots /\ marked' = {}
        /\ Roots' = Roots /\ Reach(Roots)' = Reach(Roots) /\ Top' = Top
    BY <1>3 DEF StartCollect, heapVars, Roots, MacroRoots, Reach, Closed, Top
  <2>5. MarkInv'
    BY <2>1, <2>3, <2>4, ReachIsLeast DEF MarkInv, heapVars
  <2> QED BY <2>1, <2>2, <2>3, <2>4, <2>5
<1>4. CASE Mark
  <2>1. PICK x \in worklist :
          /\ worklist' = (worklist \ {x})
                         \cup (IF x \in marked THEN {} ELSE Trace(node[x]))
          /\ marked' = marked \cup {x}
    BY <1>4 DEF Mark
  <2>2. gc = "marking" /\ gc' = gc /\ UNCHANGED <<heapVars, gcThreshold>>
    BY <1>4 DEF Mark
  <2>3. x \in Entity /\ node[x] \in Node /\ Trace(node[x]) = Refs(node[x])
        /\ Refs(node[x]) \subseteq Entity
    BY <2>1, TraceIsComplete DEF HeapTypeOK, Refs
  <2>4. HeapTypeOK' /\ NoDangling' /\ FrameShape'
    BY <2>2 DEF heapVars, HeapTypeOK, NoDangling, FrameShape, MacroRoots, FrameRoots
  <2>5. Roots \subseteq Entity
    BY DEF Roots, MacroRoots, NoDangling, HeapTypeOK, Entity
  <2>6. Closed(Reach(Roots)) /\ x \in Reach(Roots)
    BY <2>1, <2>2, <2>5, ReachIsLeast DEF MarkInv
  <2>7. /\ Roots \subseteq marked' \cup worklist'
        /\ \A y \in marked' : Refs(node[y]) \subseteq marked' \cup worklist'
        /\ marked' \cup worklist' \subseteq Reach(Roots)
    BY <2>1, <2>2, <2>3, <2>6 DEF MarkInv, Closed
  <2>8. /\ Roots' = Roots /\ Reach(Roots)' = Reach(Roots) /\ Top' = Top
        /\ node' = node /\ frames' = frames
    BY <2>2 DEF heapVars, Roots, MacroRoots, Reach, Closed, Top
  <2>9. MarkInv'
    BY <2>2, <2>7, <2>8 DEF MarkInv
  <2> QED BY <2>1, <2>2, <2>3, <2>4, <2>9
<1>5. CASE Sweep
  <2>1. /\ gc = "marking" /\ worklist = {}
        /\ heap' = heap \cap marked
        /\ node' = [x \in Entity |-> IF x \in marked THEN node[x] ELSE Leaf]
        /\ gcThreshold' = 2 * Cardinality(heap')
        /\ gc' = "idle" /\ marked' = {} /\ worklist' = {}
        /\ macros' = macros /\ StartForm
    BY <1>5 DEF Sweep
  <2>2. /\ Roots \subseteq marked /\ \A x \in marked : Refs(node[x]) \subseteq marked
        /\ Running /\ Top.at = "next" /\ FrameRoots = {}
    <3>1. Len(frames) = 1 /\ Top.at = "next" /\ Running
      BY <2>1 DEF MarkInv, Running, HeapTypeOK
    <3>2. outermost
      BY <3>1 DEF outermost, HeapTypeOK, Top
    <3>3. FrameRoots = {}
      BY <1>0, <3>1, <3>2, OutermostHoldsNothing
    <3> QED BY <2>1, <3>1, <3>3 DEF MarkInv
  <2>3. frames' \in Seq(Frame) /\ FrameShape' /\ FrameRoots' = {}
    BY <2>1, <2>2, StartFormInv
  <2>4. IsFiniteSet(heap') /\ gcThreshold' \in Nat
    <3>1. heap \cap marked \subseteq heap /\ IsFiniteSet(heap)
      BY DEF HeapTypeOK
    <3>2. IsFiniteSet(heap')
      BY <2>1, <3>1, FS_Subset
    <3>3. Cardinality(heap') \in Nat
      BY <3>2, FS_CardinalityType
    <3> QED BY <2>1, <3>2, <3>3
  <2>5. Leaf \in Node
    BY DEF Node, Leaf
  <2>6. HeapTypeOK'
    BY <2>1, <2>3, <2>4, <2>5 DEF HeapTypeOK
  <2>7. MacroRoots' = MacroRoots /\ MacroRoots \subseteq marked /\ Global \in marked
    BY <2>1, <2>2 DEF MacroRoots, Roots
  <2>8. \A x \in heap' \cup {Global} : node'[x] = node[x] /\ x \in marked
    BY <2>1, <2>7 DEF HeapTypeOK, Entity
  <2>9. NoDangling'
    BY <2>1, <2>2, <2>3, <2>7, <2>8 DEF NoDangling
  <2> QED BY <2>1, <2>3, <2>4, <2>6, <2>9 DEF MarkInv
<1>6. CASE UNCHANGED vars
  BY <1>6 DEF vars, heapVars, gcVars, HeapTypeOK, NoDangling, FrameShape, MarkInv,
              MacroRoots, FrameRoots, Roots, Reach, Closed, Top
<1> QED BY <1>1, <1>2, <1>3, <1>4, <1>5, <1>6 DEF Next
-----------------------------------------------------------------------------
LEMMA InvariantHolds == Spec => []IInv
  BY InitInv, StepInv, PTL DEF Spec

(***************************************************************************)
(* Ctx::collect and the heap it works on keep their types.                 *)
(***************************************************************************)
THEOREM TypeCorrect == Spec => []TypeOK
<1>1. IInv => TypeOK
  BY DEF IInv
<1> QED BY <1>1, InvariantHolds, PTL

(***************************************************************************)
(* Whatever a program does, and whenever the collector runs, no pointer it *)
(* can follow is left dangling (Ctx::collect, src/ctx.cpp:96-119).         *)
(***************************************************************************)
THEOREM NothingDangles == Spec => []NoDangling
<1>1. IInv => NoDangling
  BY DEF IInv
<1> QED BY <1>1, InvariantHolds, PTL

(***************************************************************************)
(* When the loop of Ctx::collect is done, the marked entities are exactly  *)
(* the live ones: its roots leave out the C++ locals, and there are none.  *)
(***************************************************************************)
LEMMA MarkedIsLive == ASSUME IInv, Sweep PROVE marked = Live
<1>1. gc = "marking" /\ worklist = {}
  BY DEF Sweep
<1>2. /\ Roots \subseteq marked /\ marked \subseteq Reach(Roots)
      /\ \A x \in marked : Refs(node[x]) \subseteq marked
      /\ Len(frames) = 1 /\ Top.at = "next"
  BY <1>1 DEF IInv, MarkInv
<1>3. Running /\ outermost
  BY <1>2 DEF Running, outermost, Top, IInv, TypeOK, HeapTypeOK
<1>4. FrameRoots = {}
  BY <1>2, <1>3, OutermostHoldsNothing DEF HeapInv, IInv, TypeOK
<1>5. Live = Reach(Roots)
  BY <1>4 DEF Live, Roots
<1>6. Roots \subseteq Entity /\ marked \in SUBSET Entity /\ Closed(marked)
  BY <1>2 DEF Roots, MacroRoots, IInv, TypeOK, HeapTypeOK, Entity, Closed
<1>7. Reach(Roots) \subseteq marked
  BY <1>2, <1>6, ReachIsLeast
<1> QED BY <1>2, <1>5, <1>7

(***************************************************************************)
(* A sweep frees the unreachable objects and no others (erase_if in        *)
(* Ctx::collect).                                                          *)
(***************************************************************************)
THEOREM SweepIsExact == Spec => SweepFreesGarbageOnly
<1>1. ASSUME IInv, [Next]_vars
      PROVE  [Sweep => /\ heap' = heap \cap Live
                       /\ \A x \in Live : node'[x] = node[x]]_vars
  <2>1. SUFFICES ASSUME Sweep
                 PROVE  /\ heap' = heap \cap Live
                        /\ \A x \in Live : node'[x] = node[x]
    OBVIOUS
  <2>2. marked = Live
    BY <1>1, <2>1, MarkedIsLive
  <2>3. Live \subseteq Entity
    BY DEF Live, Reach
  <2> QED BY <2>1, <2>2, <2>3 DEF Sweep
<1> QED BY <1>1, InvariantHolds, PTL DEF Spec, SweepFreesGarbageOnly

(***************************************************************************)
(* An outermost form starts on a heap no larger than the threshold, which  *)
(* a collection leaves at twice the live objects (gc_threshold in          *)
(* src/ctx.cpp).                                                           *)
(***************************************************************************)
THEOREM MemoryFollowsUse == Spec => HeapWithinThreshold
<1> DEFINE Bounded ==
      /\ Cardinality(heap') <= gcThreshold'
      /\ gcThreshold' # gcThreshold =>
           gcThreshold' = 2 * Cardinality(heap \cap Live)
<1>1. ASSUME IInv, [Next]_vars
      PROVE  [(Running /\ outermost /\ frames' # frames /\ Top.at = "next")
                => Bounded]_vars
  <2>1. SUFFICES ASSUME Next, Running, outermost, frames' # frames, Top.at = "next"
                 PROVE  Bounded
    BY <1>1 DEF vars, heapVars
  <2>2. CASE Program
    BY <2>1, <2>2 DEF Program, Mutate, Alloc, Load, Store, DefineMacro, Enter,
                      Return, BeginRun, EndForm, EndRun, Throw
  <2>3. CASE SkipCollect
    <3>1. Cardinality(heap) \in Nat /\ gcThreshold \in Nat
      BY <1>1, FS_CardinalityType DEF IInv, TypeOK, HeapTypeOK
    <3> QED BY <2>1, <2>3, <3>1 DEF SkipCollect, CollectNow, should_collect, gcVars
  <2>4. CASE StartCollect \/ Mark
    BY <2>1, <2>4 DEF StartCollect, Mark, heapVars
  <2>5. CASE Sweep
    <3>1. heap' = heap \cap Live /\ gcThreshold' = 2 * Cardinality(heap')
      BY <1>1, <2>5, MarkedIsLive DEF Sweep
    <3>2. IsFiniteSet(heap')
      BY <1>1, <3>1, FS_Intersection DEF IInv, TypeOK, HeapTypeOK
    <3>3. Cardinality(heap') \in Nat
      BY <3>2, FS_CardinalityType
    <3> QED BY <3>1, <3>3
  <2> QED BY <2>1, <2>2, <2>3, <2>4, <2>5 DEF Next
<1> QED BY <1>1, InvariantHolds, PTL DEF Spec, HeapWithinThreshold

(***************************************************************************)
(* IdealHeap is built from the same program steps as Collector.            *)
(***************************************************************************)
LEMMA SameProgram ==
  /\ HeapInit <=> Ideal!HeapInit
  /\ Mutate <=> Ideal!Mutate
  /\ StartForm <=> Ideal!StartForm
  /\ Live = Ideal!Live
  /\ Top = Ideal!Top
  /\ Running <=> Ideal!Running
  /\ Entity = Ideal!Entity /\ Leaf = Ideal!Leaf
  /\ heapVars = Ideal!heapVars
  BY DEF
          Entity, Ideal!Entity, Value, Ideal!Value, Node, Ideal!Node, Leaf,
          Ideal!Leaf, AllKinds, Ideal!AllKinds, Refs, Ideal!Refs, Frame,
          Ideal!Frame, Top, Ideal!Top, Running, Ideal!Running, Usable,
          Ideal!Usable, OfKind, Ideal!OfKind, PopTo, Ideal!PopTo, StartForm,
          Ideal!StartForm, Hold, Ideal!Hold, MacroRoots, Ideal!MacroRoots,
          FrameRoots, Ideal!FrameRoots, NewNodes, Ideal!NewNodes, Updated,
          Ideal!Updated, Alloc, Ideal!Alloc, Load, Ideal!Load, Store,
          Ideal!Store, DefineMacro, Ideal!DefineMacro, Enter, Ideal!Enter,
          Return, Ideal!Return, BeginRun, Ideal!BeginRun, EndForm,
          Ideal!EndForm, EndRun, Ideal!EndRun, Throw, Ideal!Throw, Mutate,
          Ideal!Mutate, HeapInit, Ideal!HeapInit, Closed, Ideal!Closed,
          Reach, Ideal!Reach, Live, Ideal!Live, heapVars, Ideal!heapVars

(***************************************************************************)
(* The incremental collector that ignores the C++ stack implements the     *)
(* ideal one that, in one step, frees what no C++ local, no macro and no   *)
(* global can reach.                                                       *)
(***************************************************************************)
THEOREM ImplementsIdealHeap == Spec => IdealSpec
<1>1. Init => HeapInit
  BY DEF Init
<1>2. ASSUME IInv, [Next]_vars
      PROVE  [Ideal!Mutate \/ Ideal!BeginForm]_(Ideal!heapVars)
  <2>1. CASE Program
    BY <2>1, SameProgram DEF Program
  <2>2. CASE SkipCollect
    <3>1. /\ Running /\ Top.at = "next" /\ StartForm
          /\ UNCHANGED <<heap, node>> /\ UNCHANGED macros
      BY <2>2 DEF SkipCollect, AtNext
    <3>2. Ideal!Running /\ Ideal!Top.at = "next" /\ Ideal!StartForm
      BY <3>1, SameProgram
    <3> QED BY <3>1, <3>2 DEF Ideal!BeginForm
  <2>3. CASE StartCollect
    BY <2>3 DEF StartCollect, heapVars, Ideal!heapVars
  <2>4. CASE Mark
    BY <2>4 DEF Mark, heapVars, Ideal!heapVars
  <2>5. CASE Sweep
    <3>1. marked = Live
      BY <1>2, <2>5, MarkedIsLive
    <3>2. Top.at = "next" /\ Running
      BY <1>2, <2>5 DEF Sweep, IInv, MarkInv, TypeOK, HeapTypeOK, Running
    <3>3. Ideal!Freed(Ideal!Live)
      BY <2>5, <3>1, SameProgram DEF Sweep, Ideal!Freed
    <3>4. StartForm /\ UNCHANGED macros
      BY <2>5 DEF Sweep
    <3>5. Ideal!Running /\ Ideal!Top.at = "next" /\ Ideal!StartForm
      BY <3>2, <3>4, SameProgram
    <3> QED BY <3>3, <3>4, <3>5 DEF Ideal!BeginForm
  <2>6. CASE UNCHANGED vars
    BY <2>6 DEF vars, heapVars, Ideal!heapVars
  <2> QED BY <1>2, <2>1, <2>2, <2>3, <2>4, <2>5, <2>6 DEF Next
<1>3. Init => Ideal!HeapInit
  BY <1>1, SameProgram
<1> QED BY <1>2, <1>3, InvariantHolds, PTL DEF Spec, IdealSpec, Ideal!Spec
=============================================================================
