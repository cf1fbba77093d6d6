----------------------------- MODULE Collector ------------------------------
(***************************************************************************)
(* Ctx::collect_if_needed and Ctx::collect (src/ctx.cpp): mark and sweep   *)
(* between the top-level forms of an outermost run.  The roots are the     *)
(* global environment and the macros only: what C++ frames hold is not     *)
(* traced, so a collection is sound just when no frame holds anything.     *)
(***************************************************************************)
EXTENDS Heap

CONSTANT InitThreshold     \* 1024 in the code
ASSUME ThresholdAssumption == InitThreshold \in Nat

VARIABLES
  gcThreshold,   \* Ctx::gc_threshold
  gc,            \* "idle", or "marking" inside the loop of Ctx::collect
  worklist,      \* the pointers still to visit; no property needs their order
  marked         \* the entities visited

gcVars == <<gcThreshold, gc, worklist, marked>>
vars == <<heapVars, gcVars>>

\* Bug: trace_child pushes what is not a heap pointer.
BugChild(v) == {v}

\* trace_child
Child(v) == {v} \cap Entity

\* Bug: one trace method forgets a field.
BugTrace(n) ==
  CASE n.kind = "Env"       -> Child(n.binding) \cup Child(n.parent)
    [] n.kind = "Cons"      -> Child(n.car)
    [] n.kind = "Expr"      -> Child(n.literal) \cup Child(n.child)
    [] n.kind = "Procedure" -> Child(n.code) \cup Child(n.env)
    [] n.kind = "Thunk"     -> Child(n.body) \cup Child(n.env)
    [] OTHER                -> {}

\* The trace method of each subclass.
Trace(n) ==
  CASE n.kind = "Env"       -> Child(n.binding) \cup Child(n.parent)
    [] n.kind = "Cons"      -> Child(n.car) \cup Child(n.cdr)
    [] n.kind = "Vector"    -> Child(n.data)
    [] n.kind = "Error"     -> Child(n.irritants)
    [] n.kind = "Expr"      -> Child(n.literal) \cup Child(n.child)
    [] n.kind = "Procedure" -> Child(n.code) \cup Child(n.env)
    [] n.kind = "Thunk"     -> Child(n.body) \cup Child(n.env)
    [] n.kind = "Forced"    -> Child(n.value)
    [] OTHER                -> {}

\* Bug: a run nested in an evaluation may collect.
BugOutermost == TRUE

\* depth = 0: no DepthGuard is alive.
outermost == \A i \in DOMAIN frames : frames[i].at # "eval"
should_collect == Cardinality(heap) > gcThreshold
CollectNow == outermost /\ should_collect

\* Bug: macros are not roots.
BugRoots == {Global}

Roots == {Global} \cup MacroRoots

Init ==
  /\ HeapInit
  /\ gcThreshold = InitThreshold
  /\ gc = "idle" /\ worklist = {} /\ marked = {}

AtNext == gc = "idle" /\ Running /\ Top.at = "next"

\* collect_if_needed with nothing to do.
SkipCollect ==
  /\ AtNext /\ ~CollectNow
  /\ StartForm
  /\ UNCHANGED <<heap, node, macros, gcVars>>

StartCollect ==
  /\ AtNext /\ CollectNow
  /\ gc' = "marking"
  /\ worklist' = Roots
  /\ marked' = {}
  /\ UNCHANGED <<heapVars, gcThreshold>>

\* Bug: an entity already visited is traced again.
BugMark ==
  /\ gc = "marking"
  /\ \E x \in worklist :
       /\ worklist' = (worklist \ {x}) \cup Trace(node[x])
       /\ marked' = marked \cup {x}
  /\ UNCHANGED <<heapVars, gcThreshold, gc>>

\* One turn of the while loop: pop an entity, trace it if it is new.
Mark ==
  /\ gc = "marking"
  /\ \E x \in worklist :
       /\ worklist' = (worklist \ {x})
                      \cup (IF x \in marked THEN {} ELSE Trace(node[x]))
       /\ marked' = marked \cup {x}
  /\ UNCHANGED <<heapVars, gcThreshold, gc>>

\* Bug: the new threshold is computed before the sweep.
BugSweep ==
  /\ gc = "marking" /\ worklist = {}
  /\ heap' = heap \cap marked
  /\ node' = [x \in Entity |-> IF x \in marked THEN node[x] ELSE Leaf]
  /\ gcThreshold' = 2 * Cardinality(heap)
  /\ gc' = "idle" /\ marked' = {}
  /\ StartForm
  /\ UNCHANGED <<macros, worklist>>

\* erase_if on the unmarked, then the new threshold.
Sweep ==
  /\ gc = "marking" /\ worklist = {}
  /\ heap' = heap \cap marked
  /\ node' = [x \in Entity |-> IF x \in marked THEN node[x] ELSE Leaf]
  /\ gcThreshold' = 2 * Cardinality(heap')
  /\ gc' = "idle" /\ marked' = {}
  /\ StartForm
  /\ UNCHANGED <<macros, worklist>>

Program == gc = "idle" /\ Mutate /\ UNCHANGED gcVars
Next == Program \/ SkipCollect \/ StartCollect \/ Mark \/ Sweep

Spec == Init /\ [][Next]_vars
\* The collector runs on the session's only thread: once entered, its loop
\* is all that runs.
FairSpec == Spec /\ WF_vars(Mark) /\ WF_vars(Sweep)
-----------------------------------------------------------------------------
TypeOK ==
  /\ HeapTypeOK
  /\ gcThreshold \in Nat
  /\ gc \in {"idle", "marking"}
  /\ worklist \subseteq Entity /\ marked \subseteq Entity

(***************************************************************************)
(* The stack: a nested run sits on an evaluation, the first frame is a     *)
(* run, and a run between two forms is the innermost frame and holds no    *)
(* heap pointer.                                                           *)
(***************************************************************************)
FrameShape ==
  \A i \in DOMAIN frames :
    /\ frames[i].at # "eval" => i = 1 \/ frames[i-1].at = "eval"
    /\ i = 1 => frames[i].at # "eval"
    /\ frames[i].at = "next" => i = Len(frames) /\ frames[i].held = {}

(***************************************************************************)
(* While Ctx::collect runs, what is visited or pending holds the roots, is *)
(* closed but for the pending entities, and has only live entities in it.  *)
(***************************************************************************)
MarkInv ==
  gc = "marking" =>
    /\ Len(frames) = 1 /\ Top.at = "next"
    /\ Roots \subseteq marked \cup worklist
    /\ \A x \in marked : Refs(node[x]) \subseteq marked \cup worklist
    /\ marked \cup worklist \subseteq Reach(Roots)

(***************************************************************************)
(* Completeness and soundness of the sweep: what it leaves is exactly what *)
(* the global environment, the macros and every C++ local can reach, and   *)
(* no live object changes.                                                 *)
(***************************************************************************)
SweepFreesGarbageOnly ==
  [][Sweep => /\ heap' = heap \cap Live
              /\ \A x \in Live : node'[x] = node[x]]_vars

(***************************************************************************)
(* Memory is bounded by use: when an outermost run starts on a form, the   *)
(* heap is no larger than the threshold, and a threshold that has moved is *)
(* twice the number of the live objects.                                   *)
(***************************************************************************)
HeapWithinThreshold ==
  [][(Running /\ outermost /\ frames' # frames /\ Top.at = "next") =>
        /\ Cardinality(heap') <= gcThreshold'
        /\ gcThreshold' # gcThreshold =>
             gcThreshold' = 2 * Cardinality(heap \cap Live)]_vars

(***************************************************************************)
(* A collection that has begun ends, whatever cycles the objects form.     *)
(***************************************************************************)
CollectionEnds == (gc = "marking") ~> (gc = "idle")

\* The code collects as IdealHeap promises.
Ideal == INSTANCE IdealHeap
IdealSpec == Ideal!Spec
=============================================================================
