-------------------------------- MODULE Heap --------------------------------
(***************************************************************************)
(* The object graph of one interpreter session (struct HeapEntity and its  *)
(* subclasses in src/types.hpp, Ctx::heap, Ctx::global_env and Ctx::macros *)
(* in src/ctx.hpp) and everything a running Scheme program does to it.     *)
(*                                                                         *)
(* C++ stack frames hold raw pointers into the heap: local variables,      *)
(* argument vectors, values being returned.  "frames" is that stack, one   *)
(* entry for every Ctx::run call and for every DepthGuard, each with the   *)
(* set of pointers its locals hold.  What the collector may do about all   *)
(* this is said twice: IdealHeap (what is promised), Collector (the code). *)
(***************************************************************************)
EXTENDS Integers, Sequences, FiniteSets

CONSTANTS
  Obj,          \* the addresses the allocator can hand out
  Global,       \* &ctx.global_env: an Env that "heap" does not own
  Atom,         \* any value without a heap pointer: a number, a char, '()...
  MacroNames,   \* the symbols that can name a macro
  Kinds,        \* the subclasses of HeapEntity a run may allocate
  MaxFrames     \* bound on the C++ stack (the code's is max_depth)

Entity == Obj \cup {Global}
Value == Entity \cup {Atom}

(***************************************************************************)
(* The fields of each subclass, as declared.  Env stands for one binding   *)
(* and Vector for one element; Thunk and Forced are the two alternatives   *)
(* of Promise::state; Expr is a syntax node with a literal and a child.    *)
(***************************************************************************)
Node ==
       [kind : {"Leaf"}]
  \cup [kind : {"Env"}, binding : Value, parent : Value]
  \cup [kind : {"Cons"}, car : Value, cdr : Value]
  \cup [kind : {"Vector"}, data : Value]
  \cup [kind : {"Error"}, irritants : Value]
  \cup [kind : {"Expr"}, literal : Value, child : Value]
  \cup [kind : {"Procedure"}, code : Value, env : Value]
  \cup [kind : {"Thunk"}, body : Value, env : Value]
  \cup [kind : {"Forced"}, value : Value]

Leaf == [kind |-> "Leaf"]
AllKinds == {"Leaf", "Env", "Cons", "Vector", "Error", "Expr", "Procedure",
             "Thunk"}

ASSUME HeapAssumption ==
  /\ Global \notin Obj /\ Atom \notin Obj /\ Atom # Global
  /\ Kinds \subseteq AllKinds
  /\ MaxFrames \in Nat

\* The pointers a node's fields hold, whatever its class.
Refs(n) == {n[f] : f \in DOMAIN n \ {"kind"}} \cap Entity

VARIABLES
  heap,     \* the objects Ctx::heap owns
  node,     \* their contents; a Leaf at an address nothing owns
  macros,   \* Ctx::macros, Atom where a name has no macro
  frames    \* the C++ stack, innermost last

heapVars == <<heap, node, macros, frames>>

\* "next": a run about to look for its next form; "form": a run reading,
\* expanding or evaluating one; "eval": a live DepthGuard.
Frame == [at : {"next", "form", "eval"}, held : SUBSET Entity]

Top == frames[Len(frames)]
Running == frames # <<>>
Usable == Top.held \cup {Global}
OfKind(k, S) == {x \in S : node[x].kind = k}
\* The frames above the k-th are destroyed; one value may reach the k-th.
PopTo(k, v) ==
  frames' = [i \in 1 .. k |->
               IF i < k THEN frames[i]
               ELSE [at |-> frames[k].at,
                     held |-> frames[k].held \cup ({v} \cap Entity)]]
StartForm == frames' = [frames EXCEPT ![Len(frames)] =
                          [at |-> "form", held |-> Top.held]]
Hold(x) == frames' = [frames EXCEPT ![Len(frames)].held = @ \cup ({x} \cap Entity)]

MacroRoots == {macros[m] : m \in MacroNames} \ {Atom}
FrameRoots == UNION {frames[i].held : i \in DOMAIN frames}

\* What a constructor can be given: fields of class type only hold that class.
NewNodes(S) ==
  LET any == (S \ {Global}) \cup {Atom}
      env == OfKind("Env", S)
      code == OfKind("Expr", S)
  IN {n \in     {Leaf}
           \cup [kind : {"Env"}, binding : {Atom}, parent : env]
           \cup [kind : {"Cons"}, car : any, cdr : any]
           \cup [kind : {"Vector"}, data : any]
           \cup [kind : {"Error"}, irritants : any]
           \cup [kind : {"Expr"}, literal : any, child : code \cup {Atom}]
           \cup [kind : {"Procedure"}, code : code, env : env]
           \cup [kind : {"Thunk"}, body : code, env : env]
      : n.kind \in Kinds}

\* The in-place updates: define and set!, set-car!, set-cdr!, vector-set!,
\* and the assignment in Promise::force.
Updated(n, v) ==
  CASE n.kind = "Env"    -> {[n EXCEPT !.binding = v]}
    [] n.kind = "Cons"   -> {[n EXCEPT !.car = v], [n EXCEPT !.cdr = v]}
    [] n.kind = "Vector" -> {[n EXCEPT !.data = v]}
    [] n.kind = "Thunk"  -> {[kind |-> "Forced", value |-> v]}
    [] OTHER             -> {}

HeapInit ==
  /\ \E b \in Obj :            \* the builtins, installed by Ctx::Ctx
       /\ heap = {b}
       /\ node = [x \in Entity |->
                    IF x = Global
                    THEN [kind |-> "Env", binding |-> b, parent |-> Atom]
                    ELSE Leaf]
  /\ macros = [m \in MacroNames |-> Atom]
  /\ frames = <<>>
-----------------------------------------------------------------------------
\* Ctx::alloc followed by Ctx::own: the frame that asked holds the pointer.
Alloc ==
  /\ Running /\ Top.at # "next"
  /\ \E o \in Obj \ heap, n \in NewNodes(Usable) :
       /\ heap' = heap \cup {o}
       /\ node' = [node EXCEPT ![o] = n]
       /\ Hold(o)
  /\ UNCHANGED macros

\* Reading a field of an object, a binding, or the macro table.
Load ==
  /\ Running /\ Top.at # "next"
  /\ \E r \in MacroRoots \cup (UNION {Refs(node[x]) : x \in Usable}) :
       r \notin Top.held /\ Hold(r)
  /\ UNCHANGED <<heap, node, macros>>

\* Assigning to a field of an object the frame can reach.
Store ==
  /\ Running /\ Top.at # "next"
  /\ \E x \in Usable, v \in (Usable \ {Global}) \cup {Atom} :
       \E n \in Updated(node[x], v) : node' = [node EXCEPT ![x] = n]
  /\ UNCHANGED <<heap, macros, frames>>

\* Ctx::define_macro.
DefineMacro ==
  /\ Running /\ Top.at # "next"
  /\ \E m \in MacroNames, p \in OfKind("Procedure", Usable \ {Global}) :
       macros' = [macros EXCEPT ![m] = p]
  /\ UNCHANGED <<heap, node, frames>>

\* A DepthGuard is built: Ctx::eval and its like, called with what the
\* caller's locals hold.
Enter ==
  /\ Running /\ Top.at # "next" /\ Len(frames) < MaxFrames
  /\ frames' = Append(frames, [at |-> "eval", held |-> Top.held])
  /\ UNCHANGED <<heap, node, macros>>

\* It returns a value to the caller; its other locals are gone.
Return ==
  /\ Running /\ Top.at = "eval"
  /\ \E v \in Top.held \cup {Atom} : PopTo(Len(frames) - 1, v)
  /\ UNCHANGED <<heap, node, macros>>

\* The host calls run, or the load builtin does inside an evaluation.
BeginRun ==
  /\ Running => Top.at = "eval" /\ Len(frames) < MaxFrames
  /\ frames' = Append(frames, [at |-> "next", held |-> {}])
  /\ UNCHANGED <<heap, node, macros>>

\* The value of a form has been reported; the loop drops it and goes on.
EndForm ==
  /\ Running /\ Top.at = "form"
  /\ frames' = [frames EXCEPT ![Len(frames)] = [at |-> "next", held |-> {}]]
  /\ UNCHANGED <<heap, node, macros>>

\* ReadEnd, or ReadIncomplete with part of a datum built: run returns.
EndRun ==
  /\ Running /\ Top.at = "form"
  /\ PopTo(Len(frames) - 1, Atom)
  /\ UNCHANGED <<heap, node, macros>>

\* An exception unwinds to a guard expression k levels up, which binds the
\* condition, or out of the outermost run.
Throw ==
  /\ Running /\ Top.at # "next"
  /\ \E k \in 0 .. Len(frames) - 1, v \in Top.held \cup {Atom} :
       /\ k > 0 => frames[k].at = "eval"
       /\ PopTo(k, v)
  /\ UNCHANGED <<heap, node, macros>>

Mutate == Alloc \/ Load \/ Store \/ DefineMacro \/ Enter \/ Return
          \/ BeginRun \/ EndForm \/ EndRun \/ Throw
-----------------------------------------------------------------------------
HeapTypeOK ==
  /\ heap \subseteq Obj /\ IsFiniteSet(heap)
  /\ node \in [Entity -> Node]
  /\ macros \in [MacroNames -> Obj \cup {Atom}]
  /\ frames \in Seq(Frame)

Closed(S) == \A x \in S : Refs(node[x]) \subseteq S
\* The entities reachable from R: what every closed set around R contains.
Reach(R) == {x \in Entity :
               \A S \in SUBSET Entity : (R \subseteq S /\ Closed(S)) => x \in S}
Live == Reach({Global} \cup MacroRoots \cup FrameRoots)

(***************************************************************************)
(* No pointer the program can follow dangles: every field of an owned      *)
(* object or of the global environment, every macro and every C++ local    *)
(* points to an object the heap owns (or to the global environment).       *)
(***************************************************************************)
NoDangling ==
  LET owned == heap \cup {Global}
  IN /\ \A x \in owned : Refs(node[x]) \subseteq owned
     /\ MacroRoots \subseteq heap
     /\ FrameRoots \subseteq owned
=============================================================================
