------------------------ MODULE MCOsclPriorityQueue ------------------------
(***************************************************************************)
(* Model-checking instances of OsclPriorityQueue, and the refinement that  *)
(* shows its heap to implement PriorityBag.                                *)
(***************************************************************************)
EXTENDS OsclPriorityQueue

CONSTANT MaxElem

MCElem == 1..MaxElem
MCLT(a, b) == a < b

\* The vector read as a bag: how often each element occurs in it.
Bag == [x \in Contents |-> Cardinality({i \in 0..(size - 1) : c[i] = x})]

Abstract == INSTANCE PriorityBag WITH bag <- Bag, ordered <- KeepsHeap

(***************************************************************************)
(* The vector implements the priority bag: push adds one element, remove   *)
(* withdraws one occurrence of its argument, pop hands out one element and *)
(* withdraws it, and the swaps of push_heap and pop_heap neither lose nor  *)
(* duplicate an element, in every use of the queue; where the heap keeps   *)
(* its order, what pop hands out is beaten by no other.                    *)
(***************************************************************************)
ImplementsPriorityBag == Abstract!Spec
=============================================================================
