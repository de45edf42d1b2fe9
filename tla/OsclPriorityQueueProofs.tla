---------------------- MODULE OsclPriorityQueueProofs ----------------------
(***************************************************************************)
(* Proofs about OsclPriorityQueue, for every set of elements, every strict *)
(* weak order and every bound on the vector's length:                      *)
(*   - push, pop and remove never index outside the vector (TypeOK);       *)
(*   - a queue of any length used through push and pop only, and one of at *)
(*     most five elements used with remove as well, keeps the heap order,  *)
(*     shows a maximal element at its top and pops a maximal element;      *)
(*   - every queue implements the priority bag: an ordered one in these    *)
(*     uses, and in the others one that still loses and doubles nothing.   *)
(***************************************************************************)
EXTENDS MCOsclPriorityQueue, TLAPS, WellFoundedInduction, NaturalsInduction, FiniteSetTheorems

USE SizeAssumption

\* The parent of a position other than the root is a smaller position.
LEMMA ParentLess ==
    ASSUME NEW i \in Nat, i > 0
    PROVE  Parent(i) \in Nat /\ Parent(i) < i
BY DEF Parent

\* A position has exactly the two children that pop_heap computes.
LEMMA ParentChild ==
    ASSUME NEW i \in Nat, i > 0, NEW j \in Nat
    PROVE  Parent(i) = j <=> i = 2 * j + 1 \/ i = 2 * j + 2
BY DEF Parent

\* Every non-empty set of naturals has a least member.
LEMMA LeastNat ==
    ASSUME NEW S \in SUBSET Nat, S # {}
    PROVE  \E m \in S : \A n \in S : m <= n
<1> DEFINE R == OpToRel(<, Nat)
<1>1. \A m, n \in Nat : n < m => <<n, m>> \in R
  BY DEF OpToRel
<1>2. PICK m \in S : \A n \in Nat : <<n, m>> \in R => n \notin S
  <2> HIDE DEF R
  <2>1. IsWellFoundedOn(R, Nat)
    BY NatLessThanWellFounded DEF R
  <2> QED BY <2>1, WFMin
<1> HIDE DEF R
<1>3. m \in Nat
  OBVIOUS
<1>4. \A n \in Nat : n < m => n \notin S
  BY <1>1, <1>2, <1>3, Zenon
<1>5. \A n \in S : m <= n
  BY <1>3, <1>4
<1> QED BY <1>5

\* find_heap returns a position of the vector that holds its argument.
LEMMA FindHeapCorrect ==
    ASSUME size \in Nat, NEW x, x \in Contents
    PROVE  FindHeap(x) \in 0..(size - 1) /\ c[FindHeap(x)] = x
<1> DEFINE S == {i \in 0..(size - 1) : c[i] = x}
<1>1. PICK m \in S : \A n \in S : m <= n
  <2>1. S \in SUBSET Nat /\ S # {}
    BY DEF Contents
  <2> QED BY <2>1, LeastNat
<1>2. m \in 0..(size - 1) /\ c[m] = x /\ \A j \in 0..(m - 1) : c[j] # x
  BY <1>1
<1> HIDE DEF S
<1> QED BY <1>2 DEF FindHeap

(***************************************************************************)
(* TypeOK made inductive: which operation a running loop belongs to, that  *)
(* a remove in pop_heap is never one of the last element, and that the     *)
(* element pop() hands out waits behind the ones pop_heap moves.           *)
(***************************************************************************)
TypeInv ==
    /\ TypeOK
    /\ pc = "pop_heap" => op \in {"pop", "remove"}
    /\ op = "remove" => removes
    /\ op = "remove" /\ pc = "pop_heap" => last > 0
    /\ op = "pop" => pc = "pop_heap" /\ first = 0 /\ elem = c[size - 1]

LEMMA ChildBounds ==
    ASSUME index \in Nat, last \in Nat, 2 * index + 1 < last
    PROVE  Child \in Nat /\ Child < last /\ Child > index
BY DEF Child

LEMMA TypeInit == Init => TypeInv
BY DEF Init, TypeInv, TypeOK

LEMMA TypeStep == TypeInv /\ [Next]_vars => TypeInv'
<1> SUFFICES ASSUME TypeInv, [Next]_vars PROVE TypeInv'
  OBVIOUS
<1>0. removes' = removes /\ room' = room
  BY DEF Next, use, vars
<1> USE <1>0 DEF TypeInv, TypeOK
<1>1. ASSUME NEW x \in Elem, Push(x) PROVE TypeInv'
  BY <1>1 DEF Push, PushBack
<1>2. CASE PushHeapStep
  <2>1. index \in 0..(size - 1) /\ Parent(index) \in 0..(size - 1)
    BY <1>2, ParentLess DEF PushHeapStep, PushHeapGuard
  <2> QED BY <1>2, <2>1 DEF PushHeapStep, Swap
<1>3. CASE PushHeapDone
  BY <1>3 DEF PushHeapDone, Return
<1>4. CASE Pop
  <2>1. size - 1 \in 0..(size - 1)
    BY <1>4 DEF Pop
  <2> QED BY <1>4, <2>1 DEF Pop, EnterPopHeap, Swap
<1>5. CASE PopHeapStep
  <2>1. Child \in Nat /\ Child < last /\ Child > index
    BY <1>5, ChildBounds DEF PopHeapStep, PopHeapGuard
  <2>2. first + index \in 0..(size - 1) /\ first + Child \in 0..(size - 1)
    BY <1>5, <2>1 DEF PopHeapStep
  <2> QED BY <1>5, <2>1, <2>2 DEF PopHeapStep, Swap
<1>6. CASE PopDone
  BY <1>6 DEF PopDone, PopBack, Return
<1>7. ASSUME NEW x \in Elem, RemoveLast(x) PROVE TypeInv'
  <2>1. size > 0
    BY <1>7, FindHeapCorrect DEF RemoveLast
  <2> QED BY <1>7, <2>1 DEF RemoveLast, PopBack
<1>8. ASSUME removes, NEW x \in Elem, Remove(x) PROVE TypeInv'
  <2>1. FindHeap(x) \in 0..(size - 1) /\ size - 1 \in 0..(size - 1)
    BY <1>8, FindHeapCorrect DEF Remove
  <2> QED BY <1>8, <2>1 DEF Remove, EnterPopHeap, Swap
<1>9. CASE RemovePopBack
  BY <1>9 DEF RemovePopBack, PopBack
<1>10. CASE UNCHANGED vars
  BY <1>10 DEF vars
<1> QED
  BY <1>1, <1>2, <1>3, <1>4, <1>5, <1>6, <1>7, <1>8, <1>9, <1>10
  DEF Next, NextPushPop, NextRemove

(***************************************************************************)
(* No operation of the queue, remove included, ever indexes outside the    *)
(* vector, whatever the elements and the comparator are.                   *)
(***************************************************************************)
THEOREM TypeCorrect == Spec => []TypeOK
<1>1. TypeInv => TypeOK
  BY DEF TypeInv
<1> QED BY TypeInit, TypeStep, <1>1, PTL DEF Spec

-----------------------------------------------------------------------------
(***************************************************************************)
(* The heap order while the loops run.                                     *)
(*   push_heap: the order may fail only between index and its parent, and  *)
(*     the children of index are already in order with that parent;        *)
(*   pop_heap from the root: below new_last_index the order may fail only  *)
(*     between index and its children, which are in order with the parent  *)
(*     of index; the element beyond is the old top, which none of the      *)
(*     others beats;                                                       *)
(*   pop_heap from a later position, for a remove that meets at most five  *)
(*     elements: none of the four that stay beats the root, and of the     *)
(*     pairs below it only the one of positions 1 and 3 can be complete.   *)
(***************************************************************************)
SkipsIndex(n) ==
    \A i \in 1..(n - 1) :
        index > 0 /\ Parent(i) = index => ~LT(c[Parent(index)], c[i])

Ordered(n) == \A i \in 1..(n - 1) : ~LT(c[Parent(i)], c[i])

IdleInv == pc = "idle" => Ordered(size)

PushInv == pc = "push_heap" =>
    /\ index < size
    /\ \A i \in 1..(size - 1) : i # index => ~LT(c[Parent(i)], c[i])
    /\ SkipsIndex(size)

PopInv == pc = "pop_heap" /\ first = 0 =>
    /\ size > 0 /\ last = size - 1
    /\ index < last \/ index = 0
    /\ \A i \in 0..(size - 1) : ~LT(c[size - 1], c[i])
    /\ \A i \in 1..(last - 1) : Parent(i) # index => ~LT(c[Parent(i)], c[i])
    /\ SkipsIndex(last)

RemoveInv == pc = "pop_heap" /\ first > 0 =>
    /\ size <= RemoveLimit /\ op = "remove"
    /\ \A i \in 1..(size - 2) : ~LT(c[0], c[i])
    /\ size = 5 /\ (first # 1 \/ index # 0) => ~LT(c[1], c[3])
    /\ size = 5 /\ first = 2 /\ index = 0 => ~LT(c[1], c[2])

HeapShape == IdleInv /\ PushInv /\ PopInv /\ RemoveInv

HeapInv == TypeInv /\ HeapShape

\* In a heap, no element beats the one at the root: a least position that
\* beats it would have a parent that does.
LEMMA RootMaximal ==
    ASSUME NEW n \in Nat, NEW h \in [0..(n - 1) -> Elem],
           \A i \in 1..(n - 1) : ~LT(h[Parent(i)], h[i])
    PROVE  \A i \in 0..(n - 1) : ~LT(h[0], h[i])
<1> SUFFICES ASSUME {i \in 0..(n - 1) : LT(h[0], h[i])} # {} PROVE FALSE
  OBVIOUS
<1> DEFINE S == {i \in 0..(n - 1) : LT(h[0], h[i])}
<1>1. PICK m \in S : \A k \in S : m <= k
  <2>1. S \in SUBSET Nat /\ S # {}
    OBVIOUS
  <2> QED BY <2>1, LeastNat
<1>2. m \in 0..(n - 1) /\ LT(h[0], h[m])
  OBVIOUS
<1>3. m > 0
  BY <1>2, LTAssumption
<1>4. Parent(m) \in 0..(n - 1) /\ Parent(m) < m
  BY <1>2, <1>3, ParentLess
<1>5. ~LT(h[0], h[Parent(m)])
  BY <1>1, <1>4
<1>6. ~LT(h[Parent(m)], h[m])
  BY <1>2, <1>3
<1>7. h[0] \in Elem /\ h[Parent(m)] \in Elem /\ h[m] \in Elem
  BY <1>2, <1>4
<1> QED BY <1>2, <1>5, <1>6, <1>7, LTAssumption

LEMMA HeapInit == Init => HeapInv
BY TypeInit DEF Init, HeapInv, HeapShape, IdleInv, PushInv, PopInv, RemoveInv, Ordered

\* The child pop_heap picks is a child of index that its sibling does not beat.
LEMMA ChildGreatest ==
    ASSUME TypeOK, first = 0, last < size, 2 * index + 1 < last
    PROVE  /\ Parent(Child) = index
           /\ \A i \in 1..(last - 1) : Parent(i) = index => ~LT(c[Child], c[i])
<1> USE DEF TypeOK
<1>1. Child \in {2 * index + 1, 2 * index + 2} /\ Child > 0 /\ Child \in Nat
  BY DEF Child
<1>2. Parent(Child) = index
  BY <1>1, ParentChild
<1>3. ASSUME NEW i \in 1..(last - 1), Parent(i) = index
      PROVE  ~LT(c[Child], c[i])
  <2>1. i = 2 * index + 1 \/ i = 2 * index + 2
    BY <1>3, ParentChild
  <2>2. c[2 * index + 1] \in Elem /\ (i = 2 * index + 2 => c[i] \in Elem)
    OBVIOUS
  <2>3. CASE i = 2 * index + 1
    BY <2>2, <2>3, LTAssumption DEF Child
  <2>4. CASE i = 2 * index + 2
    BY <2>2, <2>4, LTAssumption DEF Child
  <2> QED BY <2>1, <2>3, <2>4
<1> QED BY <1>2, <1>3

LEMMA PushKeepsHeap ==
    ASSUME HeapInv, NEW x \in Elem, Push(x)
    PROVE  HeapShape'
<1> USE DEF HeapInv, HeapShape, TypeInv, TypeOK
<1>2. IdleInv' /\ PopInv' /\ RemoveInv'
  BY DEF Push, IdleInv, PopInv, RemoveInv
<1>3. PushInv'
  <2>1. \A i \in 1..(size' - 1) : Parent(i) \in Nat /\ Parent(i) < i
    BY ParentLess DEF Push
  <2>2. \A i \in 1..(size' - 1) : i # index' => ~LT(c'[Parent(i)], c'[i])
    BY <2>1 DEF Push, PushBack, IdleInv, Ordered
  <2>3. SkipsIndex(size)'
    BY <2>1 DEF SkipsIndex, Push
  <2> QED BY <2>2, <2>3 DEF PushInv, Push
<1> QED BY <1>2, <1>3 DEF Push

LEMMA PushHeapStepKeepsHeap ==
    ASSUME HeapInv, PushHeapStep
    PROVE  HeapShape'
<1> USE DEF HeapInv, HeapShape, TypeInv, TypeOK
<1> DEFINE p == Parent(index)
<1>2. IdleInv' /\ PopInv' /\ RemoveInv'
  BY DEF PushHeapStep, IdleInv, PopInv, RemoveInv
<1>3. p \in 0..(size - 1) /\ p < index /\ index \in 1..(size - 1)
  BY ParentLess DEF PushHeapStep, PushHeapGuard
<1>4. \A i \in 1..(size - 1) : Parent(i) \in 0..(size - 1) /\ Parent(i) < i
  BY ParentLess
<1>5. LT(c[p], c[index]) /\ index' = p /\ size' = size
  BY DEF PushHeapStep, PushHeapGuard
<1>6. \A i \in 0..(size - 1) :
         c'[i] = IF i = index THEN c[p] ELSE IF i = p THEN c[index] ELSE c[i]
  BY <1>3 DEF PushHeapStep, Swap
<1>7. /\ \A i \in 1..(size - 1) : i # index => ~LT(c[Parent(i)], c[i])
      /\ SkipsIndex(size)
  BY DEF PushInv, PushHeapStep
<1>8. \A i \in 0..(size - 1) : c[i] \in Elem
  OBVIOUS
<1> HIDE DEF p
<1>9. ASSUME NEW i \in 1..(size - 1), i # p
      PROVE  ~LT(c'[Parent(i)], c'[i])
  <2> DEFINE q == Parent(i)
  <2>1. q \in 0..(size - 1) /\ q < i /\ c[q] \in Elem /\ c[i] \in Elem
    BY <1>4, <1>8
  <2>2. c[p] \in Elem /\ c[index] \in Elem /\ ~LT(c[index], c[p])
    BY <1>3, <1>5, <1>8, LTAssumption
  <2>3. CASE i = index
    <3>1. c'[i] = c[p] /\ q = p /\ c'[p] = c[index]
      BY <2>3, <1>3, <1>6 DEF p
    <3> QED BY <3>1, <2>2
  <2>4. CASE i # index /\ q = index
    <3>1. c'[q] = c[p] /\ c'[i] = c[i]
      BY <2>1, <2>4, <1>6, <1>9
    <3>2. ~LT(c[p], c[i])
      BY <1>3, <1>7, <2>4 DEF SkipsIndex, p
    <3> QED BY <3>1, <3>2
  <2>5. CASE i # index /\ q = p
    <3>1. c'[q] = c[index] /\ c'[i] = c[i]
      BY <2>1, <2>5, <1>3, <1>6, <1>9
    <3>2. ~LT(c[p], c[i])
      BY <1>7, <2>5
    <3> QED BY <3>1, <3>2, <2>1, <2>2, LTAssumption
  <2>6. CASE i # index /\ q # index /\ q # p
    <3>1. c'[q] = c[q] /\ c'[i] = c[i]
      BY <2>1, <2>6, <1>6, <1>9
    <3> QED BY <3>1, <1>7, <2>6
  <2> QED BY <2>3, <2>4, <2>5, <2>6
<1>10. ASSUME NEW i \in 1..(size - 1), p > 0, Parent(i) = p
       PROVE  ~LT(c'[Parent(p)], c'[i])
  <2> DEFINE g == Parent(p)
  <2>1. g \in 0..(size - 1) /\ g < p /\ p < i
    BY <1>3, <1>4, <1>10
  <2>2. c'[g] = c[g] /\ ~LT(c[g], c[p])
    BY <1>3, <1>6, <1>7, <1>10, <2>1
  <2>3. CASE i = index
    BY <2>2, <2>3, <1>6
  <2>4. CASE i # index
    <3>1. c'[i] = c[i] /\ ~LT(c[p], c[i])
      BY <1>6, <1>7, <1>10, <2>1, <2>4
    <3>2. c[g] \in Elem /\ c[p] \in Elem /\ c[i] \in Elem
      BY <1>3, <1>8, <2>1
    <3> QED BY <2>2, <3>1, <3>2, LTAssumption
  <2> QED BY <2>3, <2>4
<1>11. PushInv'
  BY <1>3, <1>5, <1>9, <1>10 DEF PushInv, SkipsIndex
<1> QED BY <1>2, <1>11 DEF PushHeapStep

\* The exchange that pop and remove start with, from the root.
LEMMA EnterRootKeepsHeap ==
    ASSUME HeapInv, pc = "idle", size > 0, size' = size, EnterPopHeap(0)
    PROVE  HeapShape'
<1> USE DEF HeapInv, HeapShape, TypeInv, TypeOK
<1>2. IdleInv' /\ PushInv' /\ RemoveInv'
  BY DEF EnterPopHeap, IdleInv, PushInv, RemoveInv
<1>3. size > 0 /\ 0 \in 0..(size - 1) /\ size - 1 \in 0..(size - 1)
  OBVIOUS
<1>4. \A i \in 0..(size - 1) :
         c'[i] = IF i = 0 THEN c[size - 1] ELSE IF i = size - 1 THEN c[0] ELSE c[i]
  BY <1>3 DEF EnterPopHeap, Swap
<1>5. \A i \in 1..(size - 1) : ~LT(c[Parent(i)], c[i])
  BY DEF IdleInv, Ordered
<1>6. \A i \in 0..(size - 1) : ~LT(c[0], c[i])
  BY <1>5, RootMaximal
<1>7. \A i \in 0..(size - 1) : ~LT(c'[size - 1], c'[i])
  BY <1>3, <1>4, <1>6
<1>8. \A i \in 1..(size - 2) : Parent(i) # 0 => ~LT(c'[Parent(i)], c'[i])
  <2>1. \A i \in 1..(size - 2) : Parent(i) \in Nat /\ Parent(i) < i
    BY ParentLess
  <2> QED BY <1>4, <1>5, <2>1
<1>9. PopInv'
  BY <1>3, <1>7, <1>8 DEF PopInv, EnterPopHeap, SkipsIndex
<1> QED BY <1>2, <1>9

\* The heap pairs of at most five positions.
LEMMA SmallHeap ==
    ASSUME NEW n \in 0..5
    PROVE  Ordered(n) <=> /\ n > 1 => ~LT(c[0], c[1])
                          /\ n > 2 => ~LT(c[0], c[2])
                          /\ n > 3 => ~LT(c[1], c[3])
                          /\ n > 4 => ~LT(c[1], c[4])
<1>1. Parent(1) = 0 /\ Parent(2) = 0 /\ Parent(3) = 1 /\ Parent(4) = 1
  BY DEF Parent
<1>2. \A i \in 1..(n - 1) : i = 1 \/ i = 2 \/ i = 3 \/ i = 4
  OBVIOUS
<1>3. /\ n > 1 => 1 \in 1..(n - 1)
      /\ n > 2 => 2 \in 1..(n - 1)
      /\ n > 3 => 3 \in 1..(n - 1)
      /\ n > 4 => 4 \in 1..(n - 1)
  OBVIOUS
<1> QED BY <1>1, <1>2, <1>3 DEF Ordered

\* The same exchange from a position in the middle of a small heap.
LEMMA EnterMiddleKeepsHeap ==
    ASSUME HeapInv, pc = "idle", size' = size, op' = "remove",
           size <= RemoveLimit, NEW pos \in 1..(size - 2), EnterPopHeap(pos)
    PROVE  HeapShape'
<1> USE DEF HeapInv, HeapShape, TypeInv, TypeOK, RemoveLimit
<1>1. IdleInv' /\ PushInv' /\ PopInv'
  BY DEF EnterPopHeap, IdleInv, PushInv, PopInv
<1>2. \A i \in 0..(size - 1) :
         c'[i] = IF i = pos THEN c[size - 1] ELSE IF i = size - 1 THEN c[pos] ELSE c[i]
  BY DEF EnterPopHeap, Swap
<1>3. Ordered(size)
  BY DEF IdleInv
<1>4. \A i \in 0..(size - 1) : ~LT(c[0], c[i])
  BY <1>3, RootMaximal DEF Ordered
<1>5. \A i \in 1..(size - 2) : ~LT(c'[0], c'[i])
  BY <1>2, <1>4
<1>6. size = 5 => ~LT(c[1], c[3]) /\ ~LT(c[1], c[4])
  BY <1>3, SmallHeap
<1>7. size = 5 /\ pos # 1 => ~LT(c'[1], c'[3])
  BY <1>2, <1>6
<1>8. size = 5 /\ pos = 2 => ~LT(c'[1], c'[2])
  BY <1>2, <1>6
<1>9. RemoveInv'
  BY <1>5, <1>7, <1>8 DEF RemoveInv, EnterPopHeap
<1> QED BY <1>1, <1>9

\* A turn of the loop of pop_heap in the middle of a small heap.
LEMMA MiddleStepKeepsHeap ==
    ASSUME HeapInv, PopHeapStep, first > 0
    PROVE  HeapShape'
<1> USE DEF HeapInv, HeapShape, TypeInv, TypeOK, RemoveLimit
<1> DEFINE k == Child
<1>1. IdleInv' /\ PushInv' /\ PopInv'
  BY DEF PopHeapStep, IdleInv, PushInv, PopInv
<1>2. /\ size <= 5 /\ op = "remove" /\ first + last = size - 1
      /\ \A i \in 1..(size - 2) : ~LT(c[0], c[i])
      /\ size = 5 /\ (first # 1 \/ index # 0) => ~LT(c[1], c[3])
      /\ size = 5 /\ first = 2 /\ index = 0 => ~LT(c[1], c[2])
  BY DEF RemoveInv, PopHeapStep
<1>3. 2 * index + 1 < last /\ LT(c[first + index], c[first + k])
  BY DEF PopHeapStep, PopHeapGuard
<1>4. k \in {2 * index + 1, 2 * index + 2} /\ k < last /\ index = 0 /\ size >= 4
  BY <1>2, <1>3 DEF Child
<1>5. first + k \in 2..(size - 2) /\ first \in 1..(size - 2)
  BY <1>2, <1>4
<1>6. \A i \in 0..(size - 1) :
         c'[i] = IF i = first + k THEN c[first] ELSE IF i = first THEN c[first + k] ELSE c[i]
  BY <1>4, <1>5 DEF PopHeapStep, Swap
<1>7. /\ size' = size /\ last' = last /\ first' = first /\ op' = op /\ index' = k
  BY DEF PopHeapStep
<1>8. \A i \in 1..(size - 2) : ~LT(c'[0], c'[i])
  BY <1>2, <1>5, <1>6
<1>9. size = 5 => ~LT(c'[1], c'[3])
  <2>1. CASE first = 1
    <3>1. size = 5 /\ k = 1 => ~LT(c[2], c[3])
      BY <1>2, <1>3, <1>4, <2>1 DEF Child
    <3>2. size = 5 => c[1] \in Elem /\ c[2] \in Elem /\ c[3] \in Elem
      OBVIOUS
    <3>3. size = 5 /\ k = 1 => c'[1] = c[2] /\ c'[3] = c[3]
      BY <1>6, <2>1
    <3>4. size = 5 /\ k = 2 => c'[1] = c[3] /\ c'[3] = c[1]
      BY <1>6, <2>1
    <3>5. k = 2 => ~LT(c[3], c[1])
      BY <1>3, <1>4, <2>1, <1>5, LTAssumption
    <3> QED BY <1>4, <3>1, <3>3, <3>4, <3>5
  <2>2. CASE first = 2
    <3>1. size = 5 => k = 1 /\ c'[1] = c[1] /\ c'[3] = c[2]
      BY <1>2, <1>4, <1>6, <2>2
    <3> QED BY <1>2, <1>4, <2>2, <3>1
  <2> QED BY <1>2, <1>4, <1>5, <2>1, <2>2
<1>10. RemoveInv'
  BY <1>2, <1>4, <1>7, <1>8, <1>9 DEF RemoveInv
<1> QED BY <1>1, <1>10

\* A turn of the loop of pop_heap from the root.
LEMMA PopHeapStepKeepsHeap ==
    ASSUME HeapInv, PopHeapStep, first = 0
    PROVE  HeapShape'
<1> USE DEF HeapInv, HeapShape, TypeInv, TypeOK
<1> DEFINE k == Child
<1>2. IdleInv' /\ PushInv' /\ RemoveInv'
  BY DEF PopHeapStep, IdleInv, PushInv, RemoveInv
<1>3. /\ first = 0 /\ last = size - 1
      /\ \A i \in 0..(size - 1) : ~LT(c[size - 1], c[i])
      /\ \A i \in 1..(last - 1) : Parent(i) # index => ~LT(c[Parent(i)], c[i])
      /\ SkipsIndex(last)
  BY DEF PopInv, PopHeapStep
<1>4. 2 * index + 1 < last /\ LT(c[index], c[k])
  BY <1>3, ChildBounds DEF PopHeapStep, PopHeapGuard
<1>5. k \in 1..(last - 1) /\ k > index /\ Parent(k) = index
  BY <1>3, <1>4, ChildBounds, ChildGreatest
<1>6. \A i \in 1..(last - 1) : Parent(i) = index => ~LT(c[k], c[i])
  BY <1>3, <1>4, ChildGreatest
<1>7. \A i \in 0..(size - 1) :
         c'[i] = IF i = k THEN c[index] ELSE IF i = index THEN c[k] ELSE c[i]
  BY <1>3, <1>5 DEF PopHeapStep, Swap
<1>8. /\ size' = size /\ last' = last /\ first' = first /\ op' = op
      /\ index' = k /\ pc' = pc /\ pc = "pop_heap"
  BY <1>3 DEF PopHeapStep
<1>9. \A i \in 1..(last - 1) : Parent(i) \in 0..(last - 1) /\ Parent(i) < i
  BY <1>3, ParentLess
<1>10. \A i \in 0..(size - 1) : c[i] \in Elem
  OBVIOUS
<1> HIDE DEF k
<1>11. \A i \in 0..(size - 1) : ~LT(c'[size - 1], c'[i])
  BY <1>3, <1>5, <1>7, <1>8
<1>12. ASSUME NEW i \in 1..(last - 1), Parent(i) # k
       PROVE  ~LT(c'[Parent(i)], c'[i])
  <2> DEFINE q == Parent(i)
  <2>1. q \in 0..(last - 1) /\ q < i
    BY <1>9
  <2>2. CASE i = k
    <3>1. c'[q] = c[k] /\ c'[i] = c[index]
      BY <1>3, <1>5, <1>7, <2>1, <2>2
    <3>2. c[k] \in Elem /\ c[index] \in Elem
      BY <1>3, <1>5, <1>10
    <3> QED BY <3>1, <3>2, <1>4, LTAssumption
  <2>3. CASE i # k /\ q = index
    <3>1. c'[q] = c[k] /\ c'[i] = c[i]
      BY <1>3, <1>5, <1>7, <2>1, <2>3
    <3> QED BY <3>1, <1>6, <2>3
  <2>4. CASE i = index
    <3>1. c'[q] = c[q] /\ c'[i] = c[k]
      BY <1>3, <1>5, <1>7, <2>1, <2>4
    <3>2. ~LT(c[q], c[k])
      BY <1>3, <1>5, <2>4 DEF SkipsIndex
    <3> QED BY <3>1, <3>2
  <2>5. CASE i # k /\ i # index /\ q # index
    <3>1. c'[q] = c[q] /\ c'[i] = c[i]
      BY <1>3, <1>7, <1>12, <2>1, <2>5
    <3> QED BY <3>1, <1>3, <2>5
  <2> QED BY <2>2, <2>3, <2>4, <2>5
<1>13. ASSUME NEW i \in 1..(last - 1), Parent(i) = k
       PROVE  ~LT(c'[Parent(k)], c'[i])
  <2>1. c'[Parent(k)] = c[k] /\ c'[i] = c[i] /\ k # index
    BY <1>3, <1>5, <1>7, <1>9, <1>13
  <2> QED BY <2>1, <1>3, <1>13
<1>14. PopInv'
  BY <1>3, <1>5, <1>8, <1>11, <1>12, <1>13 DEF PopInv, SkipsIndex
<1> QED BY <1>2, <1>8, <1>14

\* Where pop_heap ends, all but the last element are a heap.
LEMMA PopHeapEnds ==
    ASSUME HeapInv, pc = "pop_heap", ~PopHeapGuard
    PROVE  size > 0 /\ Ordered(size - 1)
<1> USE DEF HeapInv, HeapShape, TypeInv, TypeOK
<1>1. CASE first = 0
  <2>1. /\ last = size - 1 /\ size > 0
        /\ \A i \in 1..(last - 1) : Parent(i) # index => ~LT(c[Parent(i)], c[i])
    BY <1>1 DEF PopInv
  <2>2. ASSUME NEW i \in 1..(last - 1), Parent(i) = index
        PROVE  ~LT(c[Parent(i)], c[i])
    <3>1. 2 * index + 1 < last
      BY <2>1, <2>2, ParentChild
    <3>2. ~LT(c[index], c[Child])
      BY <1>1, <2>1, <3>1, ChildBounds DEF PopHeapGuard
    <3>3. ~LT(c[Child], c[i])
      BY <1>1, <2>1, <2>2, <3>1, ChildGreatest
    <3>4. c[index] \in Elem /\ c[Child] \in Elem /\ c[i] \in Elem
      BY <2>1, <3>1, ChildBounds
    <3> QED BY <2>2, <3>2, <3>3, <3>4, LTAssumption
  <2> QED BY <2>1, <2>2 DEF Ordered
<1>2. CASE first > 0
  <2>1. /\ size <= 5 /\ first + last = size - 1 /\ last > 0
        /\ \A i \in 1..(size - 2) : ~LT(c[0], c[i])
        /\ size = 5 /\ (first # 1 \/ index # 0) => ~LT(c[1], c[3])
    BY <1>2 DEF RemoveInv, RemoveLimit
  <2>2. size = 5 => ~LT(c[1], c[3])
    <3>1. SUFFICES ASSUME size = 5, first = 1, index = 0 PROVE ~LT(c[1], c[3])
      BY <2>1
    <3>2. last = 3 /\ Child \in {1, 2} /\ ~LT(c[1], c[1 + Child])
      BY <2>1, <3>1 DEF PopHeapGuard, Child
    <3>3. Child = 1 => ~LT(c[2], c[3])
      BY <3>1, <3>2 DEF Child
    <3>4. c[1] \in Elem /\ c[2] \in Elem /\ c[3] \in Elem
      BY <3>1
    <3> QED BY <3>2, <3>3, <3>4, LTAssumption
  <2> QED BY <2>1, <2>2, SmallHeap
<1> QED BY <1>1, <1>2

\* pop_heap returned to pop() or remove(): the last element goes.
LEMMA PopBackKeepsHeap ==
    ASSUME HeapInv, pc = "pop_heap", ~PopHeapGuard,
           c' = PopBack, size' = size - 1
    PROVE  /\ Ordered(size)'
           /\ \A i \in 1..(size' - 1) :
                 Parent(i) > 0 => ~LT(c'[Parent(Parent(i))], c'[i])
<1> USE DEF HeapInv, HeapShape, TypeInv, TypeOK
<1>1. size > 0 /\ Ordered(size - 1)
  BY PopHeapEnds
<1>2. \A i \in 1..(size - 2) : Parent(i) \in 0..(size - 2) /\ Parent(i) < i
  BY ParentLess
<1>3. \A i \in 0..(size - 2) : c'[i] = c[i] /\ c[i] \in Elem
  BY <1>1 DEF PopBack
<1>4. Ordered(size)'
  BY <1>1, <1>2, <1>3 DEF Ordered
<1>5. ASSUME NEW i \in 1..(size' - 1), Parent(i) > 0
      PROVE  ~LT(c'[Parent(Parent(i))], c'[i])
  <2> DEFINE q == Parent(i)
  <2> DEFINE g == Parent(q)
  <2>1. q \in 1..(size - 2) /\ g \in 0..(size - 2)
    BY <1>1, <1>2, <1>5
  <2>2. ~LT(c'[q], c'[i]) /\ ~LT(c'[g], c'[q])
    BY <1>1, <1>4, <2>1 DEF Ordered
  <2>3. c'[i] \in Elem /\ c'[q] \in Elem /\ c'[g] \in Elem
    BY <1>3, <2>1
  <2> QED BY <2>2, <2>3, LTAssumption
<1> QED BY <1>4, <1>5

LEMMA HeapStep == KeepsHeap /\ HeapInv /\ [Next]_vars => KeepsHeap' /\ HeapInv'
<1> SUFFICES ASSUME KeepsHeap, HeapInv, [Next]_vars PROVE KeepsHeap' /\ HeapInv'
  OBVIOUS
<1>0. TypeInv' /\ KeepsHeap'
  BY TypeStep DEF HeapInv, HeapShape, Next, vars, use, KeepsHeap
<1>1. ASSUME PushHeapDone PROVE HeapShape'
  <2>1. IdleInv'
    BY <1>1 DEF HeapInv, HeapShape, TypeInv, TypeOK, PushInv, IdleInv, Ordered,
                PushHeapDone, PushHeapGuard, Return
  <2> QED BY <1>0, <1>1, <2>1 DEF HeapInv, HeapShape, PushInv, PopInv, RemoveInv, PushHeapDone, Return
<1>2. ASSUME UNCHANGED vars PROVE HeapShape'
  BY <1>2 DEF vars, HeapInv, HeapShape, TypeInv, TypeOK, IdleInv, Ordered, PushInv, PopInv,
              RemoveInv, SkipsIndex
<1>3. ASSUME Pop PROVE HeapShape'
  BY <1>0, <1>3, EnterRootKeepsHeap DEF Pop
<1>4. ASSUME PopHeapStep PROVE HeapShape'
  <2>1. first = 0 \/ first > 0
    BY DEF HeapInv, HeapShape, TypeInv, TypeOK
  <2> QED BY <1>0, <1>4, <2>1, PopHeapStepKeepsHeap, MiddleStepKeepsHeap
<1>5. ASSUME PopDone PROVE HeapShape'
  <2>1. Ordered(size)'
    BY <1>0, <1>5, PopBackKeepsHeap DEF PopDone
  <2> QED BY <1>0, <1>5, <2>1 DEF HeapInv, HeapShape, IdleInv, PushInv, PopInv, RemoveInv, PopDone, Return
<1>6. ASSUME removes, RemovePopBack PROVE HeapShape'
  <2>1. /\ Ordered(size)'
        /\ \A i \in 1..(size' - 1) :
              Parent(i) > 0 => ~LT(c'[Parent(Parent(i))], c'[i])
    BY <1>0, <1>6, PopBackKeepsHeap DEF RemovePopBack
  <2>2. PushInv'
    BY <1>0, <1>6, <2>1 DEF PushInv, SkipsIndex, Ordered, RemovePopBack, TypeInv, TypeOK
  <2> QED BY <1>0, <1>6, <2>2 DEF HeapInv, HeapShape, IdleInv, PopInv, RemoveInv, RemovePopBack
<1>7. ASSUME removes, NEW x \in Elem, Remove(x) PROVE HeapShape'
  <2> DEFINE p == FindHeap(x)
  <2>1. p \in 0..(size - 2) /\ size \in 0..RemoveLimit
    BY <1>7, FindHeapCorrect DEF Remove, HeapInv, TypeInv, TypeOK, KeepsHeap, RemoveLimit
  <2>2. pc = "idle" /\ op' = "remove" /\ EnterPopHeap(p) /\ size' = size
    BY <1>7 DEF Remove
  <2> HIDE DEF p
  <2>3. CASE p = 0
    BY <1>0, <2>1, <2>2, <2>3, EnterRootKeepsHeap DEF RemoveLimit
  <2>4. CASE p \in 1..(size - 2)
    BY <1>0, <2>1, <2>2, <2>4, EnterMiddleKeepsHeap DEF RemoveLimit
  <2> QED BY <2>1, <2>3, <2>4 DEF RemoveLimit
<1>8. ASSUME NEW x \in Elem, RemoveLast(x) PROVE HeapShape'
  <2> USE DEF HeapInv, HeapShape, TypeInv, TypeOK
  <2>1. size > 0 /\ pc = "idle" /\ pc' = "idle" /\ c' = PopBack /\ size' = size - 1
    BY <1>8, FindHeapCorrect DEF RemoveLast
  <2>2. Ordered(size)
    BY <2>1 DEF IdleInv
  <2>3. \A i \in 1..(size - 2) : Parent(i) \in 0..(size - 2)
    BY ParentLess
  <2>4. Ordered(size)'
    BY <2>1, <2>2, <2>3 DEF Ordered, PopBack
  <2> QED BY <1>0, <2>1, <2>4 DEF IdleInv, PushInv, PopInv, RemoveInv
<1>9. ASSUME NEW x \in Elem, Push(x) PROVE HeapShape'
  BY <1>0, <1>9, PushKeepsHeap
<1>10. ASSUME PushHeapStep PROVE HeapShape'
  BY <1>0, <1>10, PushHeapStepKeepsHeap
<1> QED
  BY <1>0, <1>1, <1>2, <1>3, <1>4, <1>5, <1>6, <1>7, <1>8, <1>9, <1>10
  DEF Next, NextPushPop, NextRemove, HeapInv

\* In the uses that keep the heap, its invariant always holds.
LEMMA HeapAlways == Spec => [](TypeInv /\ (KeepsHeap => HeapInv))
<1>1. Init => TypeInv /\ (KeepsHeap => HeapInv)
  BY TypeInit, HeapInit
<1>2. TypeInv /\ (KeepsHeap => HeapInv) /\ [Next]_vars => (TypeInv /\ (KeepsHeap => HeapInv))'
  <2>1. [Next]_vars => (KeepsHeap' <=> KeepsHeap)
    BY DEF Next, vars, use, KeepsHeap
  <2> QED BY <2>1, TypeStep, HeapStep
<1> QED BY <1>1, <1>2, PTL DEF Spec

(***************************************************************************)
(* A queue of any length used through push and pop only, and a queue of at *)
(* most five elements used with remove as well, is a heap between          *)
(* operations (OsclPriorityQueue::validate never finds a parent below its  *)
(* child), so its top() is an element that no queued element beats.        *)
(***************************************************************************)
THEOREM HeapCorrect == Spec => [](HeapOrdered /\ TopIsMaximal)
<1>1. TypeInv /\ (KeepsHeap => HeapInv) => HeapOrdered /\ TopIsMaximal
  BY RootMaximal
  DEF HeapInv, HeapShape, TypeInv, TypeOK, IdleInv, Ordered, HeapOrdered, TopIsMaximal
<1> QED BY HeapAlways, <1>1, PTL

(***************************************************************************)
(* pop() removes the element that top() showed to its caller, in every use *)
(* of the queue, and in the uses that keep the heap that element was       *)
(* beaten by none of those that stay.                                      *)
(***************************************************************************)
THEOREM PopCorrect == Spec => PopTakesMaximal
<1> DEFINE A == op = "pop" /\ pc' = "idle" =>
                   /\ popped' = c[size - 1]
                   /\ KeepsHeap => \A i \in 0..(size' - 1) : ~LT(popped', c'[i])
<1>1. TypeInv /\ (KeepsHeap => HeapInv) /\ [Next]_vars => [A]_vars
  <2> SUFFICES ASSUME TypeInv, KeepsHeap => HeapInv, Next, op = "pop", pc' = "idle"
               PROVE  /\ popped' = c[size - 1]
                      /\ KeepsHeap => \A i \in 0..(size' - 1) : ~LT(popped', c'[i])
    OBVIOUS
  <2>1. pc = "pop_heap" /\ first = 0 /\ elem = c[size - 1]
    BY DEF TypeInv
  <2>2. PopDone
    BY <2>1 DEF Next, NextPushPop, NextRemove, Push, PushHeapStep, PushHeapDone, Pop,
                PopHeapStep, PopDone, RemoveLast, Remove, RemovePopBack
  <2>3. popped' = c[size - 1]
    BY <2>1, <2>2 DEF PopDone
  <2>4. ASSUME KeepsHeap, NEW i \in 0..(size' - 1) PROVE ~LT(popped', c'[i])
    <3>1. /\ size > 0 /\ size' = size - 1 /\ size \in Nat /\ c' = PopBack
          /\ ~LT(c[size - 1], c[i])
      BY <2>1, <2>2, <2>4 DEF HeapInv, HeapShape, TypeInv, TypeOK, PopInv, PopDone
    <3> QED BY <2>3, <2>4, <3>1 DEF PopBack
  <2> QED BY <2>3, <2>4
<1> QED BY HeapAlways, <1>1, PTL DEF Spec, PopTakesMaximal

-----------------------------------------------------------------------------
(***************************************************************************)
(* The vector as a bag: what push_back, pop_back and swap do to the number *)
(* of times that an element occurs.                                        *)
(***************************************************************************)
\* The positions of y among the first n, and the bag of these elements.
At(f, n, y) == {i \in 0..(n - 1) : f[i] = y}
BagOf(f, n) == [y \in {f[i] : i \in 0..(n - 1)} |-> Cardinality(At(f, n, y))]

\* An element occurs a number of times, and not at all if it is no element.
LEMMA AtFinite ==
    ASSUME NEW n \in Nat, NEW f, NEW y
    PROVE  /\ IsFiniteSet(At(f, n, y)) /\ Cardinality(At(f, n, y)) \in Nat
           /\ Cardinality(At(f, n, y)) = 0 <=> y \notin DOMAIN BagOf(f, n)
<1>1. IsFiniteSet(0..(n - 1)) BY FS_Interval
<1>2. At(f, n, y) \subseteq 0..(n - 1) BY DEF At
<1>3. IsFiniteSet(At(f, n, y)) BY <1>1, <1>2, FS_Subset
<1>4. At(f, n, y) = {} <=> y \notin DOMAIN BagOf(f, n) BY DEF At, BagOf
<1>5. QED BY <1>3, <1>4, FS_CardinalityType, FS_EmptySet

\* g has x behind the first n elements of f.
OneMore(g, f, n, x) == g[n] = x /\ \A i \in 0..(n - 1) : g[i] = f[i]

\* One more position, with x: the elements and how often they occur.
LEMMA ElementsGrow ==
    ASSUME NEW n \in Nat, NEW f, NEW g, NEW x, OneMore(g, f, n, x), NEW m, m = n + 1
    PROVE  DOMAIN BagOf(g, m) = DOMAIN BagOf(f, n) \cup {x}
<1>1. \A i : i \in 0..(m - 1) <=> i \in 0..(n - 1) \/ i = n OBVIOUS
<1>2. QED BY <1>1 DEF BagOf, OneMore

\* How often an element occurs with one more position, taken by x.
LEMMA AtGrows ==
    ASSUME NEW n \in Nat, NEW f, NEW g, NEW x, OneMore(g, f, n, x), NEW m, m = n + 1, NEW y
    PROVE  /\ y = x => Cardinality(At(g, m, y)) = Cardinality(At(f, n, y)) + 1
           /\ y # x => Cardinality(At(g, m, y)) = Cardinality(At(f, n, y))
<1>1. \A i : i \in 0..(m - 1) <=> i \in 0..(n - 1) \/ i = n OBVIOUS
<1>2. At(g, m, y) = IF y = x THEN At(f, n, y) \cup {n} ELSE At(f, n, y)
  BY <1>1 DEF At, OneMore
<1>3. n \notin At(f, n, y) BY DEF At
<1>4. IsFiniteSet(At(f, n, y)) BY AtFinite
<1>5. Cardinality(At(f, n, y) \cup {n}) = Cardinality(At(f, n, y)) + 1
  BY <1>3, <1>4, FS_AddElement
<1>6. QED BY <1>2, <1>5

\* push_back adds its argument to the bag, pop_back removes the last element.
LEMMA BackOfVector ==
    ASSUME NEW n \in Nat, NEW f, NEW g, NEW x, OneMore(g, f, n, x),
           NEW m, m = n + 1
    PROVE  /\ BagOf(g, m) = Abstract!BagAdd(BagOf(f, n), x)
           /\ BagOf(f, n) = Abstract!BagRemove(BagOf(g, m), x)
           /\ x \in DOMAIN BagOf(g, m)
<1> DEFINE A == BagOf(f, n)
<1> DEFINE B == BagOf(g, m)
<1>1. A = [y \in DOMAIN A |-> A[y]] /\ B = [y \in DOMAIN B |-> B[y]] BY DEF BagOf
<1>2. \A y \in DOMAIN A : A[y] = Cardinality(At(f, n, y)) BY DEF BagOf
<1>3. \A y \in DOMAIN B : B[y] = Cardinality(At(g, m, y)) BY DEF BagOf
<1>4. \A y : /\ Cardinality(At(f, n, y)) \in Nat
             /\ Cardinality(At(f, n, y)) = 0 <=> y \notin DOMAIN A
  BY AtFinite
<1>5. \A y : /\ y = x => Cardinality(At(g, m, y)) = Cardinality(At(f, n, y)) + 1
             /\ y # x => Cardinality(At(g, m, y)) = Cardinality(At(f, n, y))
  BY AtGrows
<1>6. DOMAIN B = DOMAIN A \cup {x} BY ElementsGrow
<1> HIDE DEF A, B
<1>7. \A y \in DOMAIN A : A[y] \in Nat /\ A[y] # 0 /\ B[y] = IF y = x THEN A[y] + 1 ELSE A[y]
  BY <1>2, <1>3, <1>4, <1>5, <1>6
<1>8. x \notin DOMAIN A => B[x] = 1
  <2>1. x \notin DOMAIN A => Cardinality(At(f, n, x)) = 0 BY <1>4
  <2>2. B[x] = Cardinality(At(f, n, x)) + 1 BY <1>3, <1>5, <1>6
  <2>3. QED BY <2>1, <2>2
<1>9. B = Abstract!BagAdd(A, x)
  <2>1. CASE x \in DOMAIN A
    <3>1. DOMAIN B = DOMAIN A BY <1>6, <2>1
    <3>2. B = [y \in DOMAIN A |-> IF y = x THEN A[y] + 1 ELSE A[y]] BY <1>1, <1>7, <3>1
    <3>3. QED BY <2>1, <3>2 DEF Abstract!BagAdd
  <2>2. CASE x \notin DOMAIN A
    <3>1. B = [y \in DOMAIN A \cup {x} |-> IF y = x THEN 1 ELSE A[y]]
      BY <1>1, <1>6, <1>7, <1>8, <2>2
    <3>2. QED BY <2>2, <3>1 DEF Abstract!BagAdd
  <2>3. QED BY <2>1, <2>2
<1>10. A = Abstract!BagRemove(B, x)
  <2>1. CASE x \in DOMAIN A
    <3>1. DOMAIN B = DOMAIN A /\ x \in DOMAIN B /\ B[x] # 1 BY <1>6, <1>7, <2>1
    <3>2. \A y \in DOMAIN B : A[y] = IF y = x THEN B[y] - 1 ELSE B[y] BY <1>7, <3>1
    <3>3. A = [y \in DOMAIN B |-> IF y = x THEN B[y] - 1 ELSE B[y]] BY <1>1, <3>1, <3>2
    <3>4. QED BY <3>1, <3>3 DEF Abstract!BagRemove
  <2>2. CASE x \notin DOMAIN A
    <3>1. DOMAIN B \ {x} = DOMAIN A /\ x \in DOMAIN B /\ B[x] = 1 BY <1>6, <1>8, <2>2
    <3>2. A = [y \in DOMAIN B \ {x} |-> B[y]] BY <1>1, <1>7, <2>2, <3>1
    <3>3. QED BY <3>1, <3>2 DEF Abstract!BagRemove
  <2>3. QED BY <2>1, <2>2
<1>11. QED BY <1>6, <1>9, <1>10 DEF A, B

\* swap leaves the bag alone.
LEMMA SwapKeepsBag ==
    ASSUME NEW n \in Nat, NEW S, NEW f \in [0..(n - 1) -> S],
           NEW i \in 0..(n - 1), NEW j \in 0..(n - 1)
    PROVE  BagOf(Swap(f, i, j), n) = BagOf(f, n)
<1> DEFINE g == Swap(f, i, j)
<1> DEFINE P == 0..(n - 1)
<1>1. /\ \A k \in P : g[k] = IF k = i THEN f[j] ELSE IF k = j THEN f[i] ELSE f[k]
  BY DEF Swap
<1>2. \A y : At(f, n, y) = {k \in P : f[k] = y} /\ At(g, n, y) = {k \in P : g[k] = y}
  BY DEF At
<1> HIDE DEF g, P
<1>3. i \in P /\ j \in P BY DEF P
<1>4. {f[k] : k \in P} = {g[k] : k \in P} BY <1>1, <1>3
<1>5. ASSUME NEW y PROVE Cardinality(At(g, n, y)) = Cardinality(At(f, n, y))
  <2> DEFINE A == At(f, n, y)
  <2> DEFINE B == At(g, n, y)
  <2>1. A = {k \in P : f[k] = y} /\ B = {k \in P : g[k] = y} BY <1>2
  <2>2. IsFiniteSet(A) BY AtFinite
  <2> HIDE DEF A, B
  <2>3. CASE f[i] = f[j]
    <3>1. B = A BY <1>1, <2>1, <2>3
    <3>2. QED BY <3>1 DEF A, B
  <2>4. ASSUME NEW k \in A, NEW l \in P, l \notin A, B = (A \ {k}) \cup {l}
        PROVE  Cardinality(B) = Cardinality(A)
    <3> DEFINE D == A \ {k}
    <3>1. IsFiniteSet(D) /\ Cardinality(D) = Cardinality(A) - 1 BY <2>2, <2>4, FS_RemoveElement
    <3>2. l \notin D /\ B = D \cup {l} BY <2>4
    <3>3. Cardinality(A) \in Nat BY <2>2, FS_CardinalityType
    <3> HIDE DEF D
    <3>4. Cardinality(B) = Cardinality(D) + 1 BY <3>1, <3>2, FS_AddElement
    <3>5. QED BY <3>1, <3>3, <3>4
  <2>5. CASE f[i] # f[j] /\ y = f[i]
    <3>1. i \in A /\ j \notin A /\ B = (A \ {i}) \cup {j} BY <1>1, <1>3, <2>1, <2>5
    <3>2. QED BY <1>3, <2>4, <3>1 DEF A, B
  <2>6. CASE f[i] # f[j] /\ y = f[j]
    <3>1. j \in A /\ i \notin A /\ B = (A \ {j}) \cup {i} BY <1>1, <1>3, <2>1, <2>6
    <3>2. QED BY <1>3, <2>4, <3>1 DEF A, B
  <2>7. CASE y # f[i] /\ y # f[j]
    <3>1. B = A BY <1>1, <2>1, <2>7
    <3>2. QED BY <3>1 DEF A, B
  <2>8. QED BY <2>3, <2>5, <2>6, <2>7
<1>6. QED BY <1>4, <1>5 DEF BagOf, P, g

\* The bag of the refinement mapping, before and after a step.
LEMMA BagIs ==
    /\ Bag = BagOf(c, size) /\ Bag' = BagOf(c', size')
    /\ Contents = DOMAIN Bag
BY DEF Bag, BagOf, At, Contents

\* push adds its argument, before push_heap starts.
LEMMA BagPush ==
    ASSUME TypeInv, NEW x \in Elem, Push(x)
    PROVE  Bag' = Abstract!BagAdd(Bag, x) /\ popped' = popped
<1>1. size \in Nat /\ size' = size + 1 /\ c' = PushBack(x) /\ popped' = popped
  BY DEF TypeInv, TypeOK, Push
<1>2. OneMore(c', c, size, x) BY <1>1 DEF OneMore, PushBack
<1>3. BagOf(c', size') = Abstract!BagAdd(BagOf(c, size), x) BY <1>1, <1>2, BackOfVector
<1>4. QED BY <1>1, <1>3, BagIs

\* A swap of two positions (push_heap, pop_heap) leaves the bag alone.
LEMMA BagSwap ==
    ASSUME TypeInv, NEW i \in 0..(size - 1), NEW j \in 0..(size - 1),
           c' = Swap(c, i, j), size' = size
    PROVE  Bag' = Bag
<1>1. size \in Nat /\ c \in [0..(size - 1) -> Elem] BY DEF TypeInv, TypeOK
<1>2. BagOf(Swap(c, i, j), size) = BagOf(c, size) BY <1>1, SwapKeepsBag
<1>3. QED BY <1>2, BagIs

\* pop_back takes one occurrence of the last element away.
LEMMA BagPopBack ==
    ASSUME TypeInv, size > 0, c' = PopBack, size' = size - 1
    PROVE  /\ Bag' = Abstract!BagRemove(Bag, c[size - 1])
           /\ c[size - 1] \in DOMAIN Bag /\ c[size - 1] \in Elem
<1> DEFINE n == size - 1
<1> DEFINE x == c[n]
<1>1. n \in Nat /\ size = n + 1 /\ size' = n /\ x \in Elem BY DEF TypeInv, TypeOK
<1>2. OneMore(c, c', n, x)
  <2>1. c' = [i \in 0..(n - 1) |-> c[i]]
    <3>1. size - 2 = n - 1 BY <1>1
    <3>2. QED BY <3>1 DEF PopBack
  <2>2. QED BY <2>1 DEF OneMore
<1> HIDE DEF n, x
<1>3. /\ BagOf(c', n) = Abstract!BagRemove(BagOf(c, size), x)
      /\ x \in DOMAIN BagOf(c, size)
  BY <1>1, <1>2, BackOfVector
<1>4. Bag' = Abstract!BagRemove(Bag, x) /\ x \in DOMAIN Bag BY <1>1, <1>3, BagIs
<1>5. QED BY <1>1, <1>4 DEF n, x

\* The loops move elements and change nothing else.
LEMMA BagLoops ==
    ASSUME TypeInv, PushHeapStep \/ PushHeapDone \/ Pop \/ PopHeapStep
                      \/ \E x \in Elem : Remove(x)
    PROVE  Bag' = Bag /\ popped' = popped
<1> USE DEF TypeInv, TypeOK
<1>1. CASE PushHeapStep
  <2>1. index \in 0..(size - 1) /\ Parent(index) \in 0..(size - 1)
    BY <1>1, ParentLess DEF PushHeapStep, PushHeapGuard
  <2>2. c' = Swap(c, index, Parent(index)) /\ size' = size /\ popped' = popped
    BY <1>1 DEF PushHeapStep
  <2>3. QED BY <2>1, <2>2, BagSwap
<1>2. CASE PushHeapDone
  <2>1. c' = c /\ size' = size /\ popped' = popped BY <1>2 DEF PushHeapDone
  <2>2. QED BY <2>1, BagIs
<1>3. CASE Pop
  <2>1. /\ size - 1 \in 0..(size - 1) /\ 0 \in 0..(size - 1)
        /\ c' = Swap(c, 0, size - 1) /\ size' = size /\ popped' = popped
    BY <1>3 DEF Pop, EnterPopHeap
  <2>2. QED BY <2>1, BagSwap
<1>4. CASE PopHeapStep
  <2>1. Child \in Nat /\ Child < last /\ Child > index
    BY <1>4, ChildBounds DEF PopHeapStep, PopHeapGuard
  <2>2. first + index \in 0..(size - 1) /\ first + Child \in 0..(size - 1)
    BY <1>4, <2>1 DEF PopHeapStep
  <2>3. c' = Swap(c, first + index, first + Child) /\ size' = size /\ popped' = popped
    BY <1>4 DEF PopHeapStep
  <2>4. QED BY <2>2, <2>3, BagSwap
<1>5. ASSUME NEW x \in Elem, Remove(x) PROVE Bag' = Bag /\ popped' = popped
  <2>1. FindHeap(x) \in 0..(size - 1) /\ size - 1 \in 0..(size - 1)
    BY <1>5, FindHeapCorrect DEF Remove
  <2>2. c' = Swap(c, FindHeap(x), size - 1) /\ size' = size /\ popped' = popped
    BY <1>5 DEF Remove, EnterPopHeap
  <2>3. QED BY <2>1, <2>2, BagSwap
<1>6. QED BY <1>1, <1>2, <1>3, <1>4, <1>5

\* pop returns: the last element leaves.
LEMMA BagPopDone ==
    ASSUME TypeInv, PopDone
    PROVE  /\ Bag' = Abstract!BagRemove(Bag, c[size - 1])
           /\ c[size - 1] \in DOMAIN Bag /\ c[size - 1] \in Elem
<1>1. size > 0 /\ c' = PopBack /\ size' = size - 1
  BY DEF TypeInv, TypeOK, PopDone
<1>2. QED BY <1>1, BagPopBack

(***************************************************************************)
(* Every queue implements the priority bag (ImplementsPriorityBag),        *)
(* whatever its elements, comparator, length and use: push adds its        *)
(* argument, pop and remove take one occurrence of one element away, and   *)
(* push_heap and pop_heap neither lose nor double an element; in the uses  *)
(* that keep the heap, no other element beats the one that pop hands out.  *)
(***************************************************************************)
THEOREM BagCorrect == Spec => ImplementsPriorityBag
<1>1. Init => Abstract!Init
  <2> SUFFICES ASSUME Init
               PROVE  KeepsHeap \in BOOLEAN /\ Bag = [x \in {} |-> 0] /\ popped = None
    BY DEF Abstract!Init
  <2>1. Contents = {} BY DEF Init, Contents
  <2>2. KeepsHeap \in BOOLEAN BY DEF KeepsHeap
  <2>3. QED BY <2>1, <2>2 DEF Bag, Init
<1>2. TypeInv /\ (KeepsHeap => HeapInv) /\ [Next]_vars
        => [Abstract!Next]_<<KeepsHeap, Bag, popped>>
  <2> SUFFICES ASSUME TypeInv, KeepsHeap => HeapInv, [Next]_vars
               PROVE  Abstract!Next \/ (KeepsHeap' = KeepsHeap /\ Bag' = Bag /\ popped' = popped)
    OBVIOUS
  <2>1. KeepsHeap' = KeepsHeap BY DEF Next, vars, use, KeepsHeap
  <2>2. CASE UNCHANGED vars
    <3>1. c' = c /\ size' = size /\ popped' = popped BY <2>2 DEF vars
    <3>2. QED BY <2>1, <3>1, BagIs
  <2>3. ASSUME NEW x \in Elem, Push(x) PROVE Abstract!Next
    BY <2>1, <2>3, BagPush DEF Abstract!Next, Abstract!Push
  <2>4. CASE PushHeapStep \/ PushHeapDone \/ Pop \/ PopHeapStep \/ \E x \in Elem : Remove(x)
    BY <2>1, <2>4, BagLoops
  <2>5. CASE PopDone
    <3> DEFINE x == c[size - 1]
    <3>1. Bag' = Abstract!BagRemove(Bag, x) /\ x \in DOMAIN Bag BY <2>5, BagPopDone
    <3>2. popped' = x BY <2>5 DEF TypeInv, PopDone
    <3>3. ASSUME KeepsHeap, NEW y \in DOMAIN Bag PROVE ~LT(x, y)
      <4>1. \A i \in 0..(size - 1) : ~LT(x, c[i])
        BY <2>5, <3>3 DEF HeapInv, HeapShape, TypeInv, PopInv, PopDone
      <4>2. QED BY <3>3, <4>1 DEF Bag, Contents
    <3> HIDE DEF x
    <3>4. QED BY <2>1, <3>1, <3>2, <3>3 DEF Abstract!Next, Abstract!Pop
  <2>6. ASSUME NEW x \in Elem, Bag' = Abstract!BagRemove(Bag, x), x \in DOMAIN Bag, popped' = popped
        PROVE  Abstract!Next
    BY <2>1, <2>6 DEF Abstract!Next, Abstract!Remove
  <2>7. ASSUME NEW x \in Elem, RemoveLast(x) PROVE Abstract!Next
    <3>1. size > 0 BY <2>7, FindHeapCorrect DEF RemoveLast, TypeInv, TypeOK
    <3>2. c' = PopBack /\ size' = size - 1 /\ popped' = popped BY <2>7 DEF RemoveLast
    <3>3. QED BY <2>6, <3>1, <3>2, BagPopBack
  <2>8. CASE RemovePopBack
    <3>1. size > 0 /\ c' = PopBack /\ size' = size - 1 /\ popped' = popped
      BY <2>8 DEF RemovePopBack, TypeInv, TypeOK
    <3>2. QED BY <2>6, <3>1, BagPopBack
  <2>9. QED
    BY <2>2, <2>3, <2>4, <2>5, <2>7, <2>8 DEF Next, NextPushPop, NextRemove
<1>3. QED
  BY HeapAlways, <1>1, <1>2, PTL
  DEF Spec, ImplementsPriorityBag, Abstract!Spec, Abstract!vars
=============================================================================
