----------------------------- MODULE IdealHeap ------------------------------
(***************************************************************************)
(* What garbage collection promises: before it reads a form, a run either  *)
(* leaves the heap as it is or frees, in one step, all the objects that    *)
(* nothing refers to.  The C++ locals of every frame count as references.  *)
(***************************************************************************)
EXTENDS Heap

Freed(keep) ==
  /\ heap' = heap \cap keep
  /\ node' = [x \in Entity |-> IF x \in keep THEN node[x] ELSE Leaf]

BeginForm ==
  /\ Running /\ Top.at = "next"
  /\ StartForm
  /\ Freed(Live) \/ UNCHANGED <<heap, node>>
  /\ UNCHANGED macros

Spec == HeapInit /\ [][Mutate \/ BeginForm]_heapVars
=============================================================================
