---------------------------- MODULE PriorityBag ----------------------------
(***************************************************************************)
(* What a priority queue promises, with no heap in sight: a bag of         *)
(* elements to which elements are added, from which any element can be     *)
(* withdrawn, and whose pop hands out an element of the bag: one that none *)
(* of the others beats, where the queue is said to be ordered.             *)
(***************************************************************************)
EXTENDS Integers, BagsExt

CONSTANTS Elem, LT(_, _), None

VARIABLES
    ordered, \* whether the queue promises an order; it never changes
    bag,     \* the queued elements: how often each of them is queued
    popped   \* the last element handed out by pop

vars == <<ordered, bag, popped>>

Init ==
    /\ ordered \in BOOLEAN
    /\ bag = [x \in {} |-> 0]
    /\ popped = None

Push(x) ==
    /\ bag' = BagAdd(bag, x)
    /\ UNCHANGED popped

Pop ==
    \E x \in DOMAIN bag :
        /\ ordered => \A y \in DOMAIN bag : ~LT(x, y)
        /\ bag' = BagRemove(bag, x)
        /\ popped' = x

Remove(x) ==
    /\ x \in DOMAIN bag
    /\ bag' = BagRemove(bag, x)
    /\ UNCHANGED popped

Next ==
    /\ Pop \/ \E x \in Elem : Push(x) \/ Remove(x)
    /\ UNCHANGED ordered

Spec == Init /\ [][Next]_vars
=============================================================================
