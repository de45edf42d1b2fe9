------------------------- MODULE OsclPriorityQueue -------------------------
(***************************************************************************)
(* The binary-heap priority queue of the OSCL utility library              *)
(* (OsclPriorityQueueBase and OsclPriorityQueue, oscl_priqueue.h/.cpp).    *)
(*                                                                         *)
(* Every prioritised queue of the framework is an instance of it: the      *)
(* scheduler's ready queue and timer queue, the pending-command queues of  *)
(* the player and metadata engines, the recognizer and the RTSP client.    *)
(*                                                                         *)
(* The container is c, a function from the zero-based positions of the     *)
(* vector to elements.  The loops of push_heap and pop_heap are modelled   *)
(* iteration by iteration: one step is one turn of the C++ while loop.     *)
(***************************************************************************)
EXTENDS Integers, FiniteSets

CONSTANTS
    Elem,       \* the values a queue can hold
    LT(_, _),   \* the Compare template argument: "a has less priority than b"
    MaxSize,    \* bound of the model on the length of the vector
    None        \* "no element"

(***************************************************************************)
(* A comparator usable with the heap: a strict weak order.                 *)
(***************************************************************************)
ASSUME LTAssumption ==
    /\ \A a, b \in Elem : LT(a, b) \in BOOLEAN
    /\ \A a, b \in Elem : LT(a, b) => ~LT(b, a)
    /\ \A a, b, d \in Elem : ~LT(a, b) /\ ~LT(b, d) => ~LT(a, d)

ASSUME SizeAssumption == MaxSize \in Nat \ {0}

ASSUME NoneAssumption == None \notin Elem

(***************************************************************************)
(* The first two variables say how the owner uses its queue and never      *)
(* change: whether it calls remove() at all, and how many elements it      *)
(* keeps in the queue at most.  The command queues of the engines are only *)
(* pushed and popped; the scheduler's queues use the whole interface.      *)
(***************************************************************************)
VARIABLES
    removes, \* the owner of the queue calls remove()
    room,    \* the owner never keeps more elements than this in it
    c,      \* the vector's elements, positions 0 .. size-1
    size,   \* the vector's length
    pc,     \* "idle", or the loop that is running: "push_heap", "pop_heap"
    op,     \* the public operation in progress: "none", "push", "pop", "remove"
    first,  \* position of the "first" iterator passed to pop_heap
    index,  \* the loop's index, relative to "first"
    last,   \* pop_heap's new_last_index, relative to "first"
    elem,   \* the element read with top() by the caller of pop()
    popped  \* the last element a completed pop() handed to its caller

use == <<removes, room>>
vars == <<removes, room, c, size, pc, op, first, index, last, elem, popped>>

-----------------------------------------------------------------------------
\* (index - 1) / 2 of the loops; they evaluate it for index > 0 only.
Parent(i) == (i - 1) \div 2

\* Oscl_Opaque_Type_Compare::swap on two positions of the vector.
Swap(f, i, j) == [f EXCEPT ![i] = f[j], ![j] = f[i]]

\* Oscl_Vector::push_back and pop_back.
PushBack(x) == [i \in 0..size |-> IF i = size THEN x ELSE c[i]]
PopBack == [i \in 0..(size - 2) |-> c[i]]

\* find_heap: the first position that compares equal to the input.
FindHeap(x) == CHOOSE i \in 0..(size - 1) :
                  /\ c[i] = x
                  /\ \A j \in 0..(i - 1) : c[j] # x

Contents == {c[i] : i \in 0..(size - 1)}

-----------------------------------------------------------------------------
Init ==
    /\ removes \in BOOLEAN /\ room \in 1..MaxSize
    /\ size = 0
    /\ c = [i \in 0..(size - 1) |-> None]
    /\ pc = "idle" /\ op = "none"
    /\ first = 0 /\ index = 0 /\ last = 0
    /\ elem = None /\ popped = None

\* The locals of the loops go out of scope when an operation returns.
Return ==
    /\ pc' = "idle" /\ op' = "none"
    /\ first' = 0 /\ index' = 0 /\ last' = 0
    /\ elem' = None

(***************************************************************************)
(* push: push_back, then push_heap(begin, end) from the new last position. *)
(***************************************************************************)
Push(x) ==
    /\ pc = "idle"
    /\ size < room
    /\ c' = PushBack(x)
    /\ size' = size + 1
    /\ pc' = "push_heap" /\ op' = "push"
    /\ index' = size
    /\ UNCHANGED <<first, last, elem, popped>>

\* The while condition of push_heap.
PushHeapGuard == index > 0 /\ LT(c[Parent(index)], c[index])

PushHeapStep ==
    /\ pc = "push_heap"
    /\ PushHeapGuard
    /\ c' = Swap(c, index, Parent(index))
    /\ index' = Parent(index)
    /\ UNCHANGED <<size, pc, op, first, last, elem, popped>>

PushHeapDone ==
    /\ pc = "push_heap"
    /\ ~PushHeapGuard
    /\ Return
    /\ UNCHANGED <<c, size, popped>>

(***************************************************************************)
(* Entry of pop_heap(first, end): exchange the element at "first" with the *)
(* last one, then sift down below new_last_index.  All loop positions are  *)
(* relative to the "first" iterator.  (Mutant: new_last_index computed     *)
(* without the "- 1".)                                                     *)
(***************************************************************************)
EnterPopHeapLastIncluded(pos) ==
    /\ c' = Swap(c, pos, size - 1)
    /\ first' = pos
    /\ index' = 0
    /\ last' = size - pos
    /\ pc' = "pop_heap"

EnterPopHeap(pos) ==
    /\ c' = Swap(c, pos, size - 1)
    /\ first' = pos
    /\ index' = 0
    /\ last' = size - pos - 1
    /\ pc' = "pop_heap"

\* elem = top(); pop(), as OsclReadyQ::PopTop and OsclTimerQ::PopTop call it.
Pop ==
    /\ pc = "idle"
    /\ size > 0
    /\ op' = "pop"
    /\ elem' = c[0]
    /\ EnterPopHeap(0)
    /\ UNCHANGED <<size, popped>>

(***************************************************************************)
(* remove: the last element is dropped without reordering; any other one   *)
(* is removed with pop_heap(pos, end), pop_back, push_heap(begin, pos+1).  *)
(***************************************************************************)
RemoveLast(x) ==
    /\ pc = "idle"
    /\ x \in Contents
    /\ FindHeap(x) = size - 1
    /\ c' = PopBack
    /\ size' = size - 1
    /\ UNCHANGED <<pc, op, first, index, last, elem, popped>>

Remove(x) ==
    /\ pc = "idle"
    /\ x \in Contents
    /\ FindHeap(x) < size - 1
    /\ op' = "remove"
    /\ EnterPopHeap(FindHeap(x))
    /\ UNCHANGED <<size, elem, popped>>

\* Mutant: pop_heap always descends to the left child.
ChildLeft == 2 * index + 1

\* The child pop_heap compares with: the greater of the two.
Child == LET child == 2 * index + 1
         IN  IF child + 1 < last /\ LT(c[first + child], c[first + child + 1])
             THEN child + 1
             ELSE child

\* The while condition of pop_heap and the test whose else branch breaks.
PopHeapGuard == /\ 2 * index + 1 < last
                /\ LT(c[first + index], c[first + Child])

PopHeapStep ==
    /\ pc = "pop_heap"
    /\ PopHeapGuard
    /\ c' = Swap(c, first + index, first + Child)
    /\ index' = Child
    /\ UNCHANGED <<size, pc, op, first, last, elem, popped>>

\* pop_heap returns to pop(): pop_back.
PopDone ==
    /\ pc = "pop_heap" /\ op = "pop"
    /\ ~PopHeapGuard
    /\ c' = PopBack
    /\ size' = size - 1
    /\ popped' = elem
    /\ Return

\* pop_heap returns to remove(): pop_back, then enter push_heap(begin, pos+1).
RemovePopBack ==
    /\ pc = "pop_heap" /\ op = "remove"
    /\ ~PopHeapGuard
    /\ c' = PopBack
    /\ size' = size - 1
    /\ pc' = "push_heap"
    /\ index' = first
    /\ first' = 0 /\ last' = 0
    /\ UNCHANGED <<op, elem, popped>>

-----------------------------------------------------------------------------
\* The operations of every queue, and those of a queue whose owner also
\* takes elements out of the middle of it.
NextPushPop ==
    \/ \E x \in Elem : Push(x)
    \/ PushHeapStep \/ PushHeapDone
    \/ Pop
    \/ PopHeapStep \/ PopDone

NextRemove ==
    \/ \E x \in Elem : RemoveLast(x) \/ Remove(x)
    \/ RemovePopBack

Next ==
    /\ NextPushPop \/ (removes /\ NextRemove)
    /\ UNCHANGED use

Spec == Init /\ [][Next]_vars

-----------------------------------------------------------------------------
\* Types of the vector and of the loop variables; in particular no loop ever
\* indexes outside the vector.
TypeOK ==
    /\ removes \in BOOLEAN /\ room \in 1..MaxSize
    /\ size \in 0..room
    /\ c \in [0..(size - 1) -> Elem]
    /\ pc \in {"idle", "push_heap", "pop_heap"}
    /\ op \in {"none", "push", "pop", "remove"}
    /\ first \in Nat /\ index \in Nat /\ last \in Nat
    /\ pc = "push_heap" => index < size
    /\ pc = "pop_heap" => first + last = size - 1 /\ index <= last
    /\ elem \in Elem \cup {None}
    /\ popped \in Elem \cup {None}

(***************************************************************************)
(* The uses in which the heap keeps its order.  remove() hands pop_heap a  *)
(* part of the vector, and pop_heap takes the children of position i for   *)
(* 2 * i + 1 and 2 * i + 2 of that part, which are not their places in the *)
(* whole heap; up to RemoveLimit elements this is harmless, with one more  *)
(* it is not (removing 9 from 10 9 4 5 8 3 leaves 10 5 4 3 8).             *)
(***************************************************************************)
RemoveLimit == 5
KeepsHeap == removes => room <= RemoveLimit

(***************************************************************************)
(* What OsclPriorityQueue::validate() tests: between operations no parent  *)
(* has less priority than one of its children, however the queue was       *)
(* filled and emptied, as long as no remove() meets more than five.        *)
(***************************************************************************)
HeapOrdered == KeepsHeap /\ pc = "idle" =>
    \A i \in 1..(size - 1) : ~LT(c[Parent(i)], c[i])

(***************************************************************************)
(* In such a use top() is, between operations, an element that no queued   *)
(* element beats.                                                          *)
(***************************************************************************)
TopIsMaximal == KeepsHeap /\ pc = "idle" =>
    \A i \in 0..(size - 1) : ~LT(c[0], c[i])

(***************************************************************************)
(* A pop removes exactly the element top() showed, whatever the use; and   *)
(* where the heap keeps its order, that element was beaten by none of      *)
(* those that stay in the queue.                                           *)
(***************************************************************************)
PopTakesMaximal ==
    [][op = "pop" /\ pc' = "idle" =>
         /\ popped' = c[size - 1]
         /\ KeepsHeap => \A i \in 0..(size' - 1) : ~LT(popped', c'[i])]_vars
=============================================================================
