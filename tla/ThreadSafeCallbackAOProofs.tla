---------------------- MODULE ThreadSafeCallbackAOProofs ----------------------
(***************************************************************************)
(* Proofs about ThreadSafeCallbackAO, for any finite number of foreign     *)
(* threads, any number of calls and any depth of the ring.                 *)
(***************************************************************************)
EXTENDS ThreadSafeCallbackAO, FiniteSetTheorems, SequenceTheorems, TLAPS

(***************************************************************************)
(* The inductive invariant.                                                *)
(***************************************************************************)

\* The entry of the k-th event of the ring, counting the oldest as 0.
Entry(k) == IF indexOut + k < Depth THEN indexOut + k ELSE indexOut + k - Depth

\* What the pointers of this kind of object point to.
Carriers == IF kind = "omx" THEN Chunks ELSE Events

\* Run has taken an event from the ring and still needs its memory.
InHand == step = "process" \/ step = (IF kind = "base" THEN "signal" ELSE "dealloc")

Allocating == {t \in Threads : pc[t] = "alloc"}

\* The state of the request at every step of Run.  Once an omx Run has taken
\* the last event the request is as free as that of an idle object.
RequestInv ==
    /\ ~fault
    /\ kind = "base" => step # "dealloc"
    /\ IF step = "off" \/ (step # "dequeue" /\ (kind = "base" \/ last))
       THEN request = (IF numElem > 0 THEN "ready" ELSE "pending")
       ELSE numElem > 0 /\ request = "none"

\* The semaphore and the pool, counted exactly.
PlaceInv ==
    /\ sema + numElem + Cardinality(Holders) + (IF RunHolds THEN 1 ELSE 0) = Depth
    /\ IF kind = "omx"
       THEN Len(free) = sema + Cardinality(Allocating) + (IF step = "signal" THEN 1 ELSE 0)
       ELSE Len(free) = Depth /\ \A t \in Threads : pc[t] # "alloc"

\* Every pointer on its way carries an event.
PointerInv ==
    /\ \A t \in Threads : pc[t] # "idle" => sent[t] \in 1..MaxEvents
    /\ \A t \in Threads :
          pc[t] = "queue" => ptr[t] \in Carriers /\ EventAt(ptr[t]) \in Events
    /\ \A k \in 0..(numElem - 1) :
          ring[Entry(k)] \in Carriers /\ EventAt(ring[Entry(k)]) \in Events
    /\ InHand => cur \in Carriers /\ EventAt(cur) \in Events

\* No chunk is in two places: not twice in the pool, nor with two threads,
\* in two entries of the ring, or with Run.
DistinctInv ==
    kind = "omx" =>
      /\ \A i, j \in 1..Len(free) : free[i] = free[j] => i = j
      /\ \A t, u \in Threads :
            pc[t] = "queue" /\ pc[u] = "queue" /\ ptr[t] = ptr[u] => t = u
      /\ \A k, l \in 0..(numElem - 1) : ring[Entry(k)] = ring[Entry(l)] => k = l
      /\ \A i \in 1..Len(free), t \in Threads : pc[t] = "queue" => free[i] # ptr[t]
      /\ \A i \in 1..Len(free), k \in 0..(numElem - 1) : free[i] # ring[Entry(k)]
      /\ \A t \in Threads, k \in 0..(numElem - 1) :
            pc[t] = "queue" => ptr[t] # ring[Entry(k)]
      /\ InHand =>
            /\ \A i \in 1..Len(free) : free[i] # cur
            /\ \A t \in Threads : pc[t] = "queue" => ptr[t] # cur
            /\ \A k \in 0..(numElem - 1) : ring[Entry(k)] # cur

IInv == TypeOK /\ RequestInv /\ PlaceInv /\ PointerInv /\ DistinctInv

-----------------------------------------------------------------------------
(***************************************************************************)
(* Lemmas about the operators of the model.                                *)
(***************************************************************************)

\* The remainder of an index that has gone at most once round the ring.
LEMMA IndexMod ==
    ASSUME NEW a \in Nat, a < 2 * Depth
    PROVE  a % Depth = IF a < Depth THEN a ELSE a - Depth
<1> USE DepthAssumption
<1>1. CASE a < Depth BY <1>1
<1>2. CASE a >= Depth BY <1>2
<1>3. QED BY <1>1, <1>2

\* A pointer is to a chunk or to an event, and null is neither.
LEMMA PointerKinds ==
    /\ \A e \in Events : e \notin Chunks
    /\ None \notin Chunks /\ None \notin Events
BY DEF Events, Chunks, None

\* The order of the steps of Run, step by step.
LEMMA StepValues ==
    ASSUME kind \in {"base", "omx"}
    PROVE  /\ StepAfter("dequeue") = (IF kind = "base" THEN "signal" ELSE "process")
           /\ StepAfter("process") = (IF kind = "base" THEN "off" ELSE "dealloc")
           /\ kind = "omx" => StepAfter("dealloc") = "signal"
           /\ StepAfter("signal") = (IF kind = "base" THEN "process"
                                     ELSE IF last THEN "off" ELSE "dequeue")
<1>1. CASE kind = "base"
  <2> DEFINE R == <<"dequeue", "signal", "process">>
  <2>1. RunOrder = R BY <1>1 DEF RunOrder
  <2>2. DOMAIN R = 1..3 /\ Len(R) = 3 /\ R[1] = "dequeue" /\ R[2] = "signal" /\ R[3] = "process"
    OBVIOUS
  <2> HIDE DEF R
  <2>3. /\ (CHOOSE i \in DOMAIN R : R[i] = "dequeue") = 1
        /\ (CHOOSE i \in DOMAIN R : R[i] = "signal") = 2
        /\ (CHOOSE i \in DOMAIN R : R[i] = "process") = 3
    BY <2>2
  <2>4. QED BY <1>1, <2>1, <2>2, <2>3 DEF StepAfter
<1>2. CASE kind = "omx"
  <2> DEFINE R == <<"dequeue", "process", "dealloc", "signal">>
  <2>1. RunOrder = R BY <1>2 DEF RunOrder
  <2>2. /\ DOMAIN R = 1..4 /\ Len(R) = 4
        /\ R[1] = "dequeue" /\ R[2] = "process" /\ R[3] = "dealloc" /\ R[4] = "signal"
    OBVIOUS
  <2> HIDE DEF R
  <2>3. /\ (CHOOSE i \in DOMAIN R : R[i] = "dequeue") = 1
        /\ (CHOOSE i \in DOMAIN R : R[i] = "process") = 2
        /\ (CHOOSE i \in DOMAIN R : R[i] = "dealloc") = 3
        /\ (CHOOSE i \in DOMAIN R : R[i] = "signal") = 4
    BY <2>2
  <2>4. QED BY <1>2, <2>1, <2>2, <2>3 DEF StepAfter
<1>3. QED BY <1>1, <1>2

\* The threads that hold a place are finitely many.
LEMMA CountTypes ==
    /\ IsFiniteSet(Holders) /\ Cardinality(Holders) \in Nat
    /\ IsFiniteSet(Allocating) /\ Cardinality(Allocating) \in Nat
<1>1. Holders \in SUBSET Threads /\ Allocating \in SUBSET Threads BY DEF Holders, Allocating
<1>2. QED BY <1>1, ThreadsAssumption, FS_Subset, FS_CardinalityType

\* The pool as a stack: what is on top, and the rest.
LEMMA StackTypes ==
    ASSUME NEW s \in Seq(Chunks), NEW c \in Chunks
    PROVE  /\ Append(s, c) \in Seq(Chunks) /\ Len(Append(s, c)) = Len(s) + 1
           /\ \A i \in 1..Len(s) : Append(s, c)[i] = s[i]
           /\ Append(s, c)[Len(s) + 1] = c
           /\ s # <<>> => /\ Len(s) > 0 /\ Last(s) \in Chunks /\ Last(s) = s[Len(s)]
                          /\ Front(s) \in Seq(Chunks) /\ Len(Front(s)) = Len(s) - 1
                          /\ \A i \in 1..(Len(s) - 1) : Front(s)[i] = s[i]
<1>1. /\ Append(s, c) \in Seq(Chunks) /\ Len(Append(s, c)) = Len(s) + 1
      /\ \A i \in 1..Len(s) : Append(s, c)[i] = s[i]
      /\ Append(s, c)[Len(s) + 1] = c
  BY AppendProperties
<1>2. ASSUME s # <<>>
      PROVE  /\ Len(s) > 0 /\ Last(s) \in Chunks /\ Last(s) = s[Len(s)]
             /\ Front(s) \in Seq(Chunks) /\ Len(Front(s)) = Len(s) - 1
             /\ \A i \in 1..(Len(s) - 1) : Front(s)[i] = s[i]
  <2>1. Len(s) \in Nat /\ Len(s) > 0 BY <1>2, EmptySeq, LenProperties
  <2>2. s[Len(s)] \in Chunks BY <2>1, ElementOfSeq
  <2>3. /\ SubSeq(s, 1, Len(s) - 1) \in Seq(Chunks)
        /\ Len(SubSeq(s, 1, Len(s) - 1)) = Len(s) - 1
        /\ \A i \in 1..(Len(s) - 1) : SubSeq(s, 1, Len(s) - 1)[i] = s[i]
    <3> DEFINE n == Len(s) - 1
    <3>1. n \in Int /\ n >= 0 /\ \A i \in 1..n : s[i] \in Chunks
      BY <2>1, ElementOfSeq
    <3> HIDE DEF n
    <3>2. /\ SubSeq(s, 1, n) \in Seq(Chunks)
          /\ Len(SubSeq(s, 1, n)) = (IF 1 <= n THEN n - 1 + 1 ELSE 0)
          /\ \A i \in 1..(n - 1 + 1) : SubSeq(s, 1, n)[i] = s[1 + i - 1]
      BY <3>1, SubSeqProperties
    <3>3. \A i \in 1..n : SubSeq(s, 1, n)[i] = s[i]
      <4>1. n - 1 + 1 = n BY <3>1
      <4>2. \A i \in 1..n : 1 + i - 1 = i BY <3>1
      <4>3. QED BY <3>2, <4>1, <4>2
    <3>4. Len(SubSeq(s, 1, n)) = n BY <3>1, <3>2
    <3>5. QED BY <3>2, <3>3, <3>4 DEF n
  <2>4. QED BY <2>1, <2>2, <2>3 DEF Last, Front
<1>3. QED BY <1>1, <1>2

\* How the counts change when thread t goes on.
LEMMA CountStep ==
    ASSUME NEW t \in Threads, \A u \in Threads \ {t} : pc'[u] = pc[u]
    PROVE  /\ Cardinality(Holders') = Cardinality(Holders)
                 + (IF Holds(t)' THEN 1 ELSE 0) - (IF Holds(t) THEN 1 ELSE 0)
           /\ Cardinality(Allocating') = Cardinality(Allocating)
                 + (IF pc'[t] = "alloc" THEN 1 ELSE 0) - (IF pc[t] = "alloc" THEN 1 ELSE 0)
<1>1. Holders' = IF Holds(t)' THEN Holders \cup {t} ELSE Holders \ {t}
  BY DEF Holders, Holds
<1>2. Allocating' = IF pc'[t] = "alloc" THEN Allocating \cup {t} ELSE Allocating \ {t}
  BY DEF Allocating
<1>3. (t \in Holders <=> Holds(t)) /\ (t \in Allocating <=> pc[t] = "alloc")
  BY DEF Holders, Allocating
<1>4. /\ Cardinality(Holders \cup {t})
            = IF t \in Holders THEN Cardinality(Holders) ELSE Cardinality(Holders) + 1
      /\ Cardinality(Holders \ {t})
            = IF t \in Holders THEN Cardinality(Holders) - 1 ELSE Cardinality(Holders)
  BY CountTypes, FS_AddElement, FS_RemoveElement
<1>5. /\ Cardinality(Allocating \cup {t})
            = IF t \in Allocating THEN Cardinality(Allocating) ELSE Cardinality(Allocating) + 1
      /\ Cardinality(Allocating \ {t})
            = IF t \in Allocating THEN Cardinality(Allocating) - 1 ELSE Cardinality(Allocating)
  BY CountTypes, FS_AddElement, FS_RemoveElement
<1>6. QED BY <1>1, <1>2, <1>3, <1>4, <1>5, CountTypes

\* The entries of the ring: all different, the next free one follows the
\* events, and the indices wrap with the remainder.
LEMMA EntryFacts ==
    ASSUME TypeOK
    PROVE  /\ \A k \in 0..(Depth - 1) : Entry(k) \in Slots
           /\ \A k, l \in 0..(Depth - 1) : Entry(k) = Entry(l) => k = l
           /\ Entry(0) = indexOut
           /\ numElem < Depth => indexIn = Entry(numElem)
           /\ Wrap(indexIn) \in Slots /\ Wrap(indexOut) \in Slots
           /\ Wrap(indexIn) = (indexOut + numElem + 1) % Depth
           /\ numElem > 0 => indexIn = (Wrap(indexOut) + (numElem - 1)) % Depth
<1> USE DepthAssumption
<1>1. /\ indexIn \in 0..(Depth - 1) /\ indexOut \in 0..(Depth - 1) /\ numElem \in 0..Depth
      /\ indexIn = (indexOut + numElem) % Depth
  BY DEF TypeOK, Slots
<1>2. indexIn = IF indexOut + numElem < Depth THEN indexOut + numElem
                ELSE indexOut + numElem - Depth
  BY <1>1, IndexMod
<1>3. (indexOut + numElem + 1) % Depth = Wrap(indexIn)
  <2>1. CASE indexOut + numElem + 1 < 2 * Depth
    <3>1. (indexOut + numElem + 1) % Depth
            = IF indexOut + numElem + 1 < Depth THEN indexOut + numElem + 1
              ELSE indexOut + numElem + 1 - Depth
      BY <1>1, <2>1, IndexMod
    <3>2. QED BY <1>1, <1>2, <2>1, <3>1 DEF Wrap
  <2>2. CASE indexOut + numElem + 1 >= 2 * Depth
    <3>1. indexOut + numElem + 1 = 2 * Depth /\ indexIn = Depth - 1 BY <1>1, <1>2, <2>2
    <3>2. (2 * Depth) % Depth = 0 OBVIOUS
    <3>3. QED BY <3>1, <3>2 DEF Wrap
  <2>3. QED BY <1>1, <2>1, <2>2
<1>4. numElem > 0 => indexIn = (Wrap(indexOut) + (numElem - 1)) % Depth
  <2>1. Wrap(indexOut) \in 0..(Depth - 1) BY <1>1 DEF Wrap
  <2>2. numElem > 0 =>
          (Wrap(indexOut) + (numElem - 1)) % Depth
            = IF Wrap(indexOut) + (numElem - 1) < Depth THEN Wrap(indexOut) + (numElem - 1)
              ELSE Wrap(indexOut) + (numElem - 1) - Depth
    BY <1>1, <2>1, IndexMod
  <2>3. QED BY <1>1, <1>2, <2>2 DEF Wrap
<1>5. QED BY <1>1, <1>2, <1>3, <1>4 DEF Entry, Slots, Wrap

-----------------------------------------------------------------------------
(***************************************************************************)
(* Every action preserves the invariant.                                   *)
(***************************************************************************)

LEMMA InitInv == Init => IInv
<1> SUFFICES ASSUME Init PROVE IInv
  OBVIOUS
<1> USE DepthAssumption, MaxEventsAssumption DEF Init
<1>1. TypeOK
  <2>1. free \in Seq(Chunks) /\ Len(free) = Depth
    <3>1. \A i \in 1..Depth : [chunk |-> i] \in Chunks BY DEF Chunks
    <3>2. QED BY <3>1, IsASeq, LenProperties
  <2>2. (indexOut + numElem) % Depth = 0 BY IndexMod
  <2>3. /\ ptr \in [Threads -> Pointers] /\ ring \in [Slots -> Pointers]
        /\ cur \in Pointers /\ mem \in [Chunks -> Events \cup {None}]
    BY DEF Pointers
  <2>4. indexIn \in Slots /\ indexOut \in Slots /\ numElem \in 0..Depth BY DEF Slots
  <2>5. /\ pc \in [Threads -> {"idle", "wait", "alloc", "queue"}]
        /\ sent \in [Threads -> 0..MaxEvents] /\ sema \in 0..Depth
    OBVIOUS
  <2>6. last \in BOOLEAN /\ fault \in BOOLEAN OBVIOUS
  <2>7. QED BY <2>1, <2>2, <2>3, <2>4, <2>5, <2>6 DEF TypeOK
<1>2. RequestInv BY DEF RequestInv
<1>3. PlaceInv
  <2>1. Holders = {} /\ Allocating = {} BY DEF Holders, Allocating, Holds
  <2>2. Cardinality(Holders) = 0 /\ Cardinality(Allocating) = 0 BY <2>1, FS_EmptySet
  <2>3. Len(free) = Depth BY LenProperties
  <2>4. QED BY <2>2, <2>3 DEF PlaceInv, RunHolds
<1>4. PointerInv BY DEF PointerInv, InHand
<1>5. DistinctInv
  <2>1. Len(free) = Depth BY LenProperties
  <2>2. \A i, j \in 1..Len(free) : free[i] = free[j] => i = j BY <2>1
  <2>3. QED BY <2>2 DEF DistinctInv, InHand
<1>6. QED BY <1>1, <1>2, <1>3, <1>4, <1>5 DEF IInv

LEMMA ReceiveEventStep == ASSUME IInv, NEW t \in Threads, ReceiveEvent(t) PROVE IInv'
<1> USE DEF ReceiveEvent, queueVars
<1>1. TypeOK'
  <2>1. sent' \in [Threads -> 0..MaxEvents] BY MaxEventsAssumption DEF IInv, TypeOK
  <2>2. QED BY <2>1 DEF IInv, TypeOK
<1>2. RequestInv' BY DEF IInv, RequestInv
<1>3. PlaceInv'
  <2>1. Cardinality(Holders') = Cardinality(Holders) /\ Cardinality(Allocating') = Cardinality(Allocating)
    BY CountStep, CountTypes DEF IInv, TypeOK, Holds
  <2>2. QED BY <2>1 DEF IInv, PlaceInv, RunHolds, TypeOK
<1>4. PointerInv'
  BY MaxEventsAssumption DEF IInv, PointerInv, TypeOK, InHand, Carriers, EventAt, Entry
<1>5. DistinctInv' BY ZenonT(40) DEF IInv, DistinctInv, TypeOK, InHand, Entry
<1>6. QED BY <1>1, <1>2, <1>3, <1>4, <1>5 DEF IInv

LEMMA SemaWaitStep == ASSUME IInv, NEW t \in Threads, SemaWait(t) PROVE IInv'
<1> USE DEF SemaWait, queueVars
<1> DEFINE e == [thread |-> t, num |-> sent[t]]
<1>1. e \in Events BY DEF IInv, PointerInv, Events
<1>2. pc' = [pc EXCEPT ![t] = IF kind = "omx" THEN "alloc" ELSE "queue"] OBVIOUS
<1>3. TypeOK'
  <2>1. ptr' \in [Threads -> Pointers] BY <1>1 DEF IInv, TypeOK, Pointers
  <2>2. sema' \in 0..Depth BY DepthAssumption DEF IInv, TypeOK
  <2>3. QED BY <1>2, <2>1, <2>2 DEF IInv, TypeOK
<1>4. RequestInv' BY DEF IInv, RequestInv
<1>5. PlaceInv'
  <2>1. Cardinality(Holders') = Cardinality(Holders) + 1
    BY <1>2, CountStep, CountTypes DEF IInv, TypeOK, Holds
  <2>2. Cardinality(Allocating') = Cardinality(Allocating) + (IF kind = "omx" THEN 1 ELSE 0)
    <3>1. /\ \A u \in Threads \ {t} : pc'[u] = pc[u]
          /\ pc'[t] = (IF kind = "omx" THEN "alloc" ELSE "queue")
      BY <1>2 DEF IInv, TypeOK
    <3>2. QED BY <3>1, CountStep, CountTypes
  <2>3. sema' + numElem' + Cardinality(Holders') + (IF RunHolds' THEN 1 ELSE 0) = Depth
    BY <2>1, CountTypes, DepthAssumption DEF IInv, PlaceInv, RunHolds, TypeOK
  <2>4. CASE kind = "omx"
    BY <2>2, <2>3, <2>4, CountTypes, DepthAssumption, SMTT(20) DEF IInv, PlaceInv, TypeOK
  <2>5. CASE kind = "base"
    BY <2>3, <2>5 DEF IInv, PlaceInv, TypeOK
  <2>6. QED BY <2>4, <2>5 DEF IInv, TypeOK
<1>6. PointerInv'
  <2>1. kind = "base" => EventAt(e)' = e BY <1>1, PointerKinds DEF EventAt
  <2>2. QED BY <1>1, <2>1 DEF IInv, PointerInv, TypeOK, InHand, Carriers, EventAt, Entry
<1>7. DistinctInv' BY DEF IInv, DistinctInv, TypeOK, InHand, Entry
<1>8. QED BY <1>3, <1>4, <1>5, <1>6, <1>7 DEF IInv

LEMMA AllocateStep == ASSUME IInv, NEW t \in Threads, Allocate(t) PROVE IInv'
<1> USE DEF queueVars
<1> DEFINE e == [thread |-> t, num |-> sent[t]]
<1>1. kind = "omx" BY DEF Allocate, IInv, PlaceInv, TypeOK
<1>2. Len(free) > 0
  <2>1. Cardinality(Allocating) # 0
    BY CountTypes, FS_EmptySet DEF Allocate, Allocating
  <2>2. QED BY <1>1, <2>1, CountTypes DEF IInv, PlaceInv, TypeOK
<1>3. free # <<>> BY <1>2
<1>4. /\ Last(free) \in Chunks /\ Last(free) = free[Len(free)]
      /\ Front(free) \in Seq(Chunks) /\ Len(Front(free)) = Len(free) - 1
      /\ \A i \in 1..(Len(free) - 1) : Front(free)[i] = free[i]
  BY <1>3, StackTypes DEF IInv, TypeOK
<1>5. /\ pc' = [pc EXCEPT ![t] = "queue"]
      /\ ptr' = [ptr EXCEPT ![t] = Last(free)] /\ free' = Front(free)
      /\ mem' = [mem EXCEPT ![Last(free)] = e]
  BY <1>3 DEF Allocate
<1>6. UNCHANGED <<kind, sent, sema, queueVars, request, step, cur, last, done, fault>>
  BY <1>3 DEF Allocate
<1>7. e \in Events BY DEF IInv, PointerInv, Events, Allocate
<1>8. Len(free) \in Nat BY DEF IInv, TypeOK
<1>9. TypeOK' BY <1>4, <1>5, <1>6, <1>7, <1>8, DepthAssumption DEF IInv, TypeOK, Pointers
<1>10. RequestInv' BY <1>6 DEF IInv, RequestInv
<1>11. PlaceInv'
  <2>1. /\ Cardinality(Holders') = Cardinality(Holders)
        /\ Cardinality(Allocating') = Cardinality(Allocating) - 1
    BY <1>5, CountStep, CountTypes DEF IInv, TypeOK, Holds, Allocate
  <2>2. QED
    BY <1>1, <1>4, <1>5, <1>6, <1>8, <2>1, CountTypes, SMTT(20) DEF IInv, PlaceInv, RunHolds, TypeOK
<1>12. \A p \in Chunks : mem'[p] = IF p = free[Len(free)] THEN e ELSE mem[p]
  BY <1>4, <1>5 DEF IInv, TypeOK
<1>13. PointerInv'
  <2>1. \A u \in Threads : pc'[u] # "idle" => sent'[u] \in 1..MaxEvents
    BY <1>5, <1>6 DEF IInv, PointerInv, TypeOK, Allocate
  <2>2. \A u \in Threads : pc'[u] = "queue" => ptr'[u] \in Chunks /\ mem'[ptr'[u]] \in Events
    BY <1>1, <1>4, <1>5, <1>7, <1>12 DEF IInv, PointerInv, TypeOK, Carriers, EventAt
  <2>3. \A k \in 0..(numElem - 1) : ring[Entry(k)] \in Chunks /\ mem'[ring[Entry(k)]] \in Events
    BY <1>1, <1>7, <1>12 DEF IInv, PointerInv, TypeOK, Carriers, EventAt
  <2>4. InHand => cur \in Chunks /\ mem'[cur] \in Events
    BY <1>1, <1>7, <1>12 DEF IInv, PointerInv, TypeOK, Carriers, EventAt
  <2>5. QED
    BY <1>1, <1>6, <2>1, <2>2, <2>3, <2>4 DEF PointerInv, Carriers, EventAt, InHand, Entry
<1>14. DistinctInv'
  <2>1. \A i \in 1..Len(free') : i \in 1..Len(free) /\ i # Len(free) /\ free'[i] = free[i]
    BY <1>4, <1>5, <1>8
  <2>2. Len(free) \in 1..Len(free) BY <1>2, <1>8
  <2>3. \A u \in Threads : pc'[u] = "queue" =>
           IF u = t THEN ptr'[u] = free[Len(free)] ELSE pc[u] = "queue" /\ ptr'[u] = ptr[u]
    BY <1>4, <1>5 DEF IInv, TypeOK
  <2>4. QED BY <1>1, <1>6, <2>1, <2>2, <2>3 DEF IInv, DistinctInv, InHand, Entry
<1>15. QED BY <1>9, <1>10, <1>11, <1>13, <1>14 DEF IInv

\* A thread that the semaphore has let in finds room in the ring.
LEMMA RoomInRing ==
    ASSUME IInv, NEW t \in Threads, pc[t] = "queue"
    PROVE  numElem < Depth
<1>1. Cardinality(Holders) # 0 BY CountTypes, FS_EmptySet DEF Holders, Holds
<1>2. QED BY <1>1, CountTypes, DepthAssumption DEF IInv, PlaceInv, TypeOK

LEMMA QueueStep == ASSUME IInv, NEW t \in Threads, Queue(t) PROVE IInv'
<1> USE DepthAssumption
<1>1. pc[t] = "queue" /\ Holds(t) BY DEF Queue, Holds
<1>2. numElem < Depth BY <1>1, RoomInRing
<1>3. /\ pc' = [pc EXCEPT ![t] = "idle"] /\ ptr' = [ptr EXCEPT ![t] = None]
      /\ ring' = [ring EXCEPT ![indexIn] = ptr[t]]
      /\ indexIn' = Wrap(indexIn) /\ numElem' = numElem + 1
      /\ IF numElem' = 1 THEN PendComplete ELSE UNCHANGED <<request, fault>>
      /\ UNCHANGED <<kind, sent, sema, indexOut, free, mem, step, cur, last, done>>
  BY <1>2 DEF Queue, IInv, TypeOK
<1>4. /\ \A u \in Threads \ {t} : pc'[u] = pc[u] /\ ptr'[u] = ptr[u]
      /\ pc'[t] = "idle" /\ ptr'[t] = None
  BY <1>3 DEF IInv, TypeOK
<1>5. RequestInv' BY <1>3 DEF IInv, RequestInv, TypeOK, PendComplete
<1>6. numElem \in 0..Depth /\ indexIn \in Slots /\ indexOut \in Slots BY DEF IInv, TypeOK
<1>7. indexIn = Entry(numElem) BY <1>2, EntryFacts DEF IInv
<1>8. \A k \in 0..numElem : Entry(k)' = Entry(k) BY <1>3 DEF Entry
<1>9. /\ ring'[Entry(numElem)] = ptr[t]
      /\ \A k \in 0..(numElem - 1) : Entry(k) # Entry(numElem) /\ ring'[Entry(k)] = ring[Entry(k)]
  <2>1. \A k \in 0..numElem : Entry(k) \in Slots /\ k \in 0..(Depth - 1)
    BY <1>2, <1>6, EntryFacts DEF IInv
  <2>2. \A k \in 0..(numElem - 1) : Entry(k) # Entry(numElem)
    BY <1>2, <1>6, EntryFacts DEF IInv
  <2>3. ring \in [Slots -> Pointers] BY DEF IInv, TypeOK
  <2>4. ring' = [ring EXCEPT ![Entry(numElem)] = ptr[t]] BY <1>3, <1>7
  <2>5. numElem \in 0..numElem /\ \A k \in 0..(numElem - 1) : k \in 0..numElem BY <1>6
  <2>6. QED BY <2>1, <2>2, <2>3, <2>4, <2>5
<1>10. TypeOK'
  <2>1. pc' \in [Threads -> {"idle", "wait", "alloc", "queue"}] /\ ptr' \in [Threads -> Pointers]
    BY <1>3 DEF IInv, TypeOK, Pointers
  <2>2. ring' \in [Slots -> Pointers] BY <1>3 DEF IInv, TypeOK
  <2>3. indexIn' \in Slots /\ numElem' \in 0..Depth BY <1>2, <1>3, <1>6, EntryFacts DEF IInv
  <2>4. indexIn' = (indexOut' + numElem') % Depth
    <3>1. indexOut + numElem + 1 = indexOut' + numElem' BY <1>3, <1>6 DEF Slots
    <3>2. QED BY <1>3, <3>1, EntryFacts DEF IInv
  <2>5. request' \in {"none", "pending", "ready"} /\ fault' \in BOOLEAN
    BY <1>3, <1>5 DEF IInv, TypeOK, PendComplete
  <2>6. QED BY <1>3, <2>1, <2>2, <2>3, <2>4, <2>5 DEF IInv, TypeOK
<1>11. PlaceInv'
  <2>1. /\ Cardinality(Holders') = Cardinality(Holders) - 1
        /\ Cardinality(Allocating') = Cardinality(Allocating)
    BY <1>1, <1>4, CountStep, CountTypes DEF Holds
  <2>2. \A u \in Threads : pc'[u] = "alloc" <=> pc[u] = "alloc" BY <1>1, <1>4
  <2>3. QED BY <1>3, <1>6, <2>1, <2>2, CountTypes DEF IInv, PlaceInv, RunHolds, TypeOK
<1>12. PointerInv'
  <2>1. ptr[t] \in Carriers /\ EventAt(ptr[t]) \in Events BY <1>1 DEF IInv, PointerInv
  <2>2. \A k \in 0..(numElem - 1) : ring[Entry(k)] \in Carriers /\ EventAt(ring[Entry(k)]) \in Events
    BY DEF IInv, PointerInv
  <2>3. Carriers' = Carriers /\ \A p : EventAt(p)' = EventAt(p) BY <1>3 DEF Carriers, EventAt
  <2>4. \A k \in 0..(numElem' - 1) :
            ring'[Entry(k)'] \in Carriers /\ EventAt(ring'[Entry(k)']) \in Events
    <3>1. \A k \in 0..(numElem' - 1) : k \in 0..(numElem - 1) \/ k = numElem BY <1>3, <1>6
    <3>2. 0..(numElem' - 1) = 0..numElem BY <1>3, <1>6
    <3>3. QED BY <1>8, <1>9, <2>1, <2>2, <3>1, <3>2
  <2>5. \A u \in Threads : pc'[u] = "queue" => ptr'[u] \in Carriers /\ EventAt(ptr'[u]) \in Events
    BY <1>4 DEF IInv, PointerInv
  <2>6. \A u \in Threads : pc'[u] # "idle" => sent'[u] \in 1..MaxEvents
    BY <1>3, <1>4 DEF IInv, PointerInv
  <2>7. InHand' => cur' \in Carriers /\ EventAt(cur') \in Events
    BY <1>3 DEF IInv, PointerInv, InHand
  <2>8. QED BY <1>3, <2>3, <2>4, <2>5, <2>6, <2>7 DEF PointerInv, EventAt
<1>13. DistinctInv'
  <2>1. \A k \in 0..(numElem' - 1) :
           \/ k \in 0..(numElem - 1) /\ ring'[Entry(k)'] = ring[Entry(k)]
           \/ k = numElem /\ ring'[Entry(k)'] = ptr[t]
    <3>1. 0..(numElem' - 1) = 0..numElem /\ \A k \in 0..numElem : k \in 0..(numElem - 1) \/ k = numElem
      BY <1>3, <1>6
    <3>2. QED BY <1>8, <1>9, <3>1
  <2>2. \A u \in Threads : pc'[u] = "queue" => u # t /\ pc[u] = "queue" /\ ptr'[u] = ptr[u] BY <1>4
  <2>3. InHand' <=> InHand BY <1>3 DEF InHand
  <2>4. QED BY <1>1, <1>3, <2>1, <2>2, <2>3 DEF IInv, DistinctInv
<1>14. QED BY <1>5, <1>10, <1>11, <1>12, <1>13 DEF IInv

LEMMA StartRunStep == ASSUME IInv, StartRun PROVE IInv'
<1> USE DEF StartRun, queueVars, threadVars
<1>1. TypeOK' BY DEF IInv, TypeOK
<1>2. RequestInv' BY DEF IInv, RequestInv, TypeOK
<1>3. Holders' = Holders /\ Allocating' = Allocating BY DEF Holders, Holds, Allocating
<1>4. PlaceInv' BY <1>3 DEF IInv, PlaceInv, RunHolds, TypeOK
<1>5. PointerInv' BY DEF IInv, PointerInv, InHand, Carriers, EventAt, Entry
<1>6. DistinctInv' BY DEF IInv, DistinctInv, InHand, Entry
<1>7. QED BY <1>1, <1>2, <1>4, <1>5, <1>6 DEF IInv

LEMMA DeQueueStep == ASSUME IInv, DeQueue PROVE IInv'
<1> USE DepthAssumption
<1>1. kind \in {"base", "omx"} /\ numElem \in 0..Depth /\ numElem > 0 /\ step = "dequeue" /\ request = "none"
  BY DEF IInv, TypeOK, RequestInv, DeQueue
<1>2. /\ cur' = ring[indexOut] /\ indexOut' = Wrap(indexOut) /\ numElem' = numElem - 1
      /\ last' = (numElem' = 0) /\ Rearm
      /\ step' = (IF kind = "base" THEN "signal" ELSE "process")
      /\ UNCHANGED <<kind, pc, sent, ptr, sema, free, mem, ring, indexIn, done>>
  BY <1>1, StepValues DEF DeQueue, threadVars
<1>3. RequestInv'
  <2>1. ~fault BY DEF IInv, RequestInv
  <2>2. CASE numElem' = 0
    <3>1. last' /\ request' = "pending" /\ ~fault'
      BY <1>1, <1>2, <2>1, <2>2 DEF Rearm, PendForExec
    <3>2. QED BY <1>1, <1>2, <2>2, <3>1 DEF RequestInv
  <2>3. CASE numElem' # 0 /\ kind = "base"
    <3>1. request' = "ready" /\ ~fault' BY <1>1, <1>2, <2>1, <2>3 DEF Rearm, RunIfNotReady
    <3>2. QED BY <1>1, <1>2, <2>3, <3>1 DEF RequestInv
  <2>4. CASE numElem' # 0 /\ kind = "omx"
    <3>1. request' = "none" /\ ~fault' /\ ~last' BY <1>1, <1>2, <2>1, <2>4 DEF Rearm
    <3>2. QED BY <1>1, <1>2, <2>4, <3>1 DEF RequestInv
  <2>5. QED BY <1>1, <2>2, <2>3, <2>4
<1>4. \A k \in 0..(numElem' - 1) : k + 1 \in 0..(numElem - 1) /\ Entry(k)' = Entry(k + 1)
  <2>1. indexOut \in 0..(Depth - 1) BY DEF IInv, TypeOK, Slots
  <2>2. QED BY <1>1, <1>2, <2>1 DEF Entry, Wrap
<1>5. cur' = ring[Entry(0)] /\ 0 \in 0..(numElem - 1) BY <1>1, <1>2, EntryFacts DEF IInv
<1>6. TypeOK'
  <2>1. numElem' \in 0..Depth /\ indexOut' \in Slots /\ indexIn' = (indexOut' + numElem') % Depth
    BY <1>1, <1>2, EntryFacts DEF IInv
  <2>2. cur' \in Pointers BY <1>2 DEF IInv, TypeOK
  <2>3. request' \in {"none", "pending", "ready"} /\ fault' \in BOOLEAN
    BY <1>1, <1>2 DEF IInv, TypeOK, Rearm, PendForExec, RunIfNotReady
  <2>4. last' \in BOOLEAN BY <1>2
  <2>5. QED BY <1>2, <2>1, <2>2, <2>3, <2>4 DEF IInv, TypeOK
<1>7. PlaceInv'
  <2>1. Holders' = Holders /\ Allocating' = Allocating BY <1>2 DEF Holders, Holds, Allocating
  <2>2. ~RunHolds /\ RunHolds' BY <1>1, <1>2 DEF RunHolds
  <2>3. QED BY <1>1, <1>2, <2>1, <2>2, CountTypes DEF IInv, PlaceInv, TypeOK
<1>8. PointerInv'
  <2>1. Carriers' = Carriers /\ \A p : EventAt(p)' = EventAt(p) BY <1>2 DEF Carriers, EventAt
  <2>2. \A k \in 0..(numElem' - 1) :
           ring'[Entry(k)'] \in Carriers /\ EventAt(ring'[Entry(k)']) \in Events
    BY <1>2, <1>4 DEF IInv, PointerInv
  <2>3. cur' \in Carriers /\ EventAt(cur') \in Events BY <1>5 DEF IInv, PointerInv
  <2>4. \A u \in Threads :
           /\ pc'[u] # "idle" => sent'[u] \in 1..MaxEvents
           /\ pc'[u] = "queue" => ptr'[u] \in Carriers /\ EventAt(ptr'[u]) \in Events
    BY <1>2 DEF IInv, PointerInv
  <2>5. QED BY <1>2, <2>1, <2>2, <2>3, <2>4 DEF PointerInv, EventAt
<1>9. DistinctInv'
  <2>1. \A k \in 0..(numElem' - 1) :
           k + 1 \in 0..(numElem - 1) /\ k + 1 # 0 /\ ring'[Entry(k)'] = ring[Entry(k + 1)]
    BY <1>1, <1>2, <1>4
  <2>2. \A k, l \in 0..(numElem' - 1) : k + 1 = l + 1 => k = l OBVIOUS
  <2>3. SUFFICES ASSUME kind = "omx" PROVE DistinctInv' BY <1>2 DEF DistinctInv
  <2>4. \A k, l \in 0..(numElem' - 1) : ring'[Entry(k)'] = ring'[Entry(l)'] => k = l
    BY <2>1, <2>2, <2>3 DEF IInv, DistinctInv
  <2>5. \A k \in 0..(numElem' - 1) :
           /\ \A i \in 1..Len(free) : free[i] # ring'[Entry(k)']
           /\ \A t \in Threads : pc[t] = "queue" => ptr[t] # ring'[Entry(k)']
           /\ ring'[Entry(k)'] # cur'
    BY <1>5, <2>1, <2>3 DEF IInv, DistinctInv
  <2>6. /\ \A i \in 1..Len(free) : free[i] # cur'
        /\ \A t \in Threads : pc[t] = "queue" => ptr[t] # cur'
    BY <1>5, <2>3 DEF IInv, DistinctInv
  <2>7. QED BY <1>2, <2>3, <2>4, <2>5, <2>6 DEF IInv, DistinctInv
<1>10. QED BY <1>3, <1>6, <1>7, <1>8, <1>9 DEF IInv

LEMMA ProcessEventStep == ASSUME IInv, ProcessEvent PROVE IInv'
<1>1. /\ kind \in {"base", "omx"} /\ step = "process"
      /\ step' = (IF kind = "base" THEN "off" ELSE "dealloc")
      /\ cur' = (IF kind = "base" THEN None ELSE cur)
      /\ UNCHANGED <<kind, pc, sent, ptr, sema, free, mem, ring, indexIn, indexOut,
                     numElem, request, last, fault>>
  BY StepValues DEF IInv, TypeOK, ProcessEvent, threadVars, queueVars
<1>2. TypeOK' BY <1>1 DEF IInv, TypeOK, Pointers
<1>3. RequestInv' BY <1>1 DEF IInv, RequestInv
<1>4. Holders' = Holders /\ Allocating' = Allocating BY <1>1 DEF Holders, Holds, Allocating
<1>5. PlaceInv' BY <1>1, <1>4 DEF IInv, PlaceInv, RunHolds
<1>6. PointerInv' BY <1>1 DEF IInv, PointerInv, InHand, Carriers, EventAt, Entry
<1>7. DistinctInv' BY <1>1 DEF IInv, DistinctInv, InHand, Entry
<1>8. QED BY <1>2, <1>3, <1>5, <1>6, <1>7 DEF IInv

LEMMA DeallocateStep == ASSUME IInv, Deallocate PROVE IInv'
<1>1. kind = "omx" /\ step = "dealloc" /\ InHand
  BY DEF IInv, TypeOK, RequestInv, Deallocate, InHand
<1>2. /\ free' = Append(free, cur) /\ step' = "signal"
      /\ UNCHANGED <<kind, pc, sent, ptr, sema, mem, ring, indexIn, indexOut,
                     numElem, request, cur, last, done, fault>>
  BY <1>1, StepValues DEF IInv, TypeOK, Deallocate, threadVars, queueVars
<1>3. cur \in Chunks BY <1>1 DEF IInv, PointerInv, Carriers
<1>4. /\ free' \in Seq(Chunks) /\ Len(free') = Len(free) + 1 /\ Len(free) \in Nat
      /\ \A i \in 1..Len(free) : free'[i] = free[i]
      /\ free'[Len(free) + 1] = cur
  BY <1>2, <1>3, StackTypes DEF IInv, TypeOK
<1>5. Holders' = Holders /\ Allocating' = Allocating BY <1>2 DEF Holders, Holds, Allocating
<1>6. PlaceInv' BY <1>1, <1>2, <1>4, <1>5, CountTypes DEF IInv, PlaceInv, RunHolds, TypeOK
<1>7. TypeOK'
  <2>1. \A t \in Allocating : t \in Holders BY DEF Allocating, Holders, Holds
  <2>2. Cardinality(Allocating) <= Cardinality(Holders)
    BY <2>1, CountTypes, FS_Subset
  <2>3. Len(free') <= Depth
    BY <1>1, <1>2, <1>5, <1>6, <2>2, CountTypes, DepthAssumption
    DEF IInv, PlaceInv, RunHolds, TypeOK
  <2>4. QED BY <1>2, <1>4, <2>3 DEF IInv, TypeOK
<1>8. RequestInv' BY <1>1, <1>2 DEF IInv, RequestInv
<1>9. PointerInv' BY <1>1, <1>2 DEF IInv, PointerInv, InHand, Carriers, EventAt, Entry
<1>10. DistinctInv'
  <2>1. \A i \in 1..Len(free') :
           \/ i \in 1..Len(free) /\ free'[i] = free[i]
           \/ i = Len(free) + 1 /\ free'[i] = cur
    BY <1>4
  <2>2. ~InHand' BY <1>1, <1>2 DEF InHand
  <2>3. QED BY <1>1, <1>2, <2>1, <2>2 DEF IInv, DistinctInv, Entry
<1>11. QED BY <1>6, <1>7, <1>8, <1>9, <1>10 DEF IInv

LEMMA SemaSignalStep == ASSUME IInv, SemaSignal PROVE IInv'
<1>1. /\ kind \in {"base", "omx"} /\ step = "signal" /\ RunHolds
      /\ sema' = sema + 1
      /\ step' = (IF kind = "base" THEN "process" ELSE IF last THEN "off" ELSE "dequeue")
      /\ UNCHANGED <<kind, pc, sent, ptr, free, mem, ring, indexIn, indexOut,
                     numElem, request, cur, last, done, fault>>
  BY StepValues DEF IInv, TypeOK, SemaSignal, RunHolds, threadVars, queueVars
<1>2. Holders' = Holders /\ Allocating' = Allocating BY <1>1 DEF Holders, Holds, Allocating
<1>3. ~RunHolds' BY <1>1 DEF RunHolds
<1>4. PlaceInv' BY <1>1, <1>2, <1>3, CountTypes, SMTT(20) DEF IInv, PlaceInv, TypeOK
<1>5. TypeOK'
  <2>1. sema' \in 0..Depth
    BY <1>1, CountTypes, DepthAssumption DEF IInv, PlaceInv, TypeOK
  <2>2. QED BY <1>1, <2>1 DEF IInv, TypeOK
<1>6. RequestInv' BY <1>1 DEF IInv, RequestInv
<1>7. PointerInv' BY <1>1 DEF IInv, PointerInv, InHand, Carriers, EventAt, Entry
<1>8. DistinctInv' BY <1>1 DEF IInv, DistinctInv, InHand, Entry
<1>9. QED BY <1>4, <1>5, <1>6, <1>7, <1>8 DEF IInv

\* Every step of a thread or of Run preserves the invariant.
LEMMA InvStep == ASSUME IInv, [Next]_vars PROVE IInv'
<1>1. CASE UNCHANGED vars
  <2>1. UNCHANGED <<kind, pc, sent, ptr, sema, free, mem, ring, indexIn, indexOut,
                    numElem, request, step, cur, last, done, fault>>
    BY <1>1 DEF vars
  <2>2. Holders' = Holders /\ Allocating' = Allocating /\ RunHolds' = RunHolds
    BY <2>1 DEF Holders, Holds, Allocating, RunHolds
  <2>3. TypeOK' /\ RequestInv' BY <2>1 DEF IInv, TypeOK, RequestInv
  <2>4. PlaceInv' BY <2>1, <2>2 DEF IInv, PlaceInv
  <2>5. PointerInv' BY <2>1 DEF IInv, PointerInv, InHand, Carriers, EventAt, Entry
  <2>6. DistinctInv' BY <2>1 DEF IInv, DistinctInv, InHand, Entry
  <2>7. QED BY <2>3, <2>4, <2>5, <2>6 DEF IInv
<1>2. CASE NodeThread
  BY <1>2, StartRunStep, DeQueueStep, ProcessEventStep, DeallocateStep, SemaSignalStep
  DEF NodeThread
<1>3. CASE \E t \in Threads : ReceiveEvent(t) \/ Inside(t)
  BY <1>3, ReceiveEventStep, SemaWaitStep, AllocateStep, QueueStep DEF Inside
<1>4. QED BY <1>1, <1>2, <1>3 DEF Next

LEMMA InvCorrect == Spec => []IInv
<1>1. Init => IInv BY InitInv
<1>2. IInv /\ [Next]_vars => IInv' BY InvStep
<1>3. QED BY <1>1, <1>2, PTL DEF Spec

-----------------------------------------------------------------------------
(***************************************************************************)
(* The theorems.                                                           *)
(***************************************************************************)

\* The state of ThreadSafeCallbackAO keeps its types; in particular the
\* semaphore, the ring and the pool stay within their Depth places.
THEOREM CallbackTypeCorrect == Spec => []TypeOK
<1>1. IInv => TypeOK BY DEF IInv
<1>2. QED BY <1>1, InvCorrect, PTL

\* The object's request follows its ring (Queue and DeQueue,
\* threadsafe_callback_ao.cpp), whatever the number of threads that fill it.
THEOREM RequestCorrect == Spec => []RequestFollowsRing
<1>1. IInv => RequestFollowsRing BY DEF IInv, RequestInv, RequestFollowsRing
<1>2. QED BY <1>1, InvCorrect, PTL

\* Whoever the semaphore lets in finds a place in the ring and a chunk in the
\* pool, whatever the number of threads that wait for it.
THEOREM PlaceCorrect == Spec => []PlaceForWhoeverIsIn
<1>1. IInv => PlaceForWhoeverIsIn
  <2>1. ASSUME IInv PROVE Len(free) \in Nat /\ sema \in Nat BY <2>1, DepthAssumption DEF IInv, TypeOK
  <2>2. QED BY <2>1, CountTypes DEF IInv, PlaceInv, PlaceForWhoeverIsIn, Allocating
<1>2. QED BY <1>1, InvCorrect, PTL

-----------------------------------------------------------------------------
(***************************************************************************)
(* The object is a reliable first-in, first-out channel of events.         *)
(***************************************************************************)

\* The event Run has taken and not yet passed to the node.
Taken == step = "process" \/ (kind = "base" /\ step = "signal")
Prefix == IF Taken THEN <<EventAt(cur)>> ELSE <<>>
Underway == Prefix \o Contents

\* The events in the ring, entry by entry, are a sequence of events.
ContentsGood ==
    /\ Contents \in Seq(Events) /\ Len(Contents) = numElem
    /\ \A i \in 1..numElem : Contents[i] = EventAt(ring[Entry(i - 1)])
    /\ Prefix \in Seq(Events) /\ Underway \in Seq(Events)

LEMMA ContentsFacts == IInv => ContentsGood
<1> SUFFICES ASSUME TypeOK, PointerInv PROVE ContentsGood
  BY DEF IInv
<1> USE DepthAssumption
<1>1. indexOut \in 0..(Depth - 1) /\ numElem \in 0..Depth BY DEF TypeOK, Slots
<1>2. \A i \in 1..numElem : i - 1 \in 0..(numElem - 1) /\ (indexOut + i - 1) % Depth = Entry(i - 1)
  <2>1. \A i \in 1..numElem : indexOut + i - 1 \in Nat /\ indexOut + i - 1 < 2 * Depth BY <1>1
  <2>2. QED BY <1>1, <2>1, IndexMod DEF Entry
<1>3. \A i \in 1..numElem : Contents[i] = EventAt(ring[Entry(i - 1)]) /\ Contents[i] \in Events
  BY <1>2 DEF Contents, PointerInv
<1>4. Contents \in [1..numElem -> Events] BY <1>3 DEF Contents
<1>5. Contents \in Seq(Events) /\ Len(Contents) = numElem
  BY <1>1, <1>4, IsASeq, LenProperties
<1>6. Prefix \in Seq(Events) BY DEF Prefix, Taken, PointerInv, InHand
<1>7. QED BY <1>3, <1>5, <1>6 DEF Underway, ContentsGood

LEMMA ContentsFactsNext == IInv' => ContentsGood'
BY ContentsFacts, PTL

\* Contents whose events do not change are the same contents.
LEMMA ContentsSame ==
    ASSUME IInv, IInv', numElem' = numElem,
           \A k \in 0..(numElem - 1) : EventAt(ring[Entry(k)])' = EventAt(ring[Entry(k)])
    PROVE  Contents' = Contents
<1>1. numElem \in Nat BY DepthAssumption DEF IInv, TypeOK
<1>2. /\ Contents \in Seq(Events) /\ Len(Contents) = numElem
      /\ \A i \in 1..numElem : Contents[i] = EventAt(ring[Entry(i - 1)])
  BY ContentsFacts DEF ContentsGood
<1>3. /\ Contents' \in Seq(Events) /\ Len(Contents') = numElem'
      /\ \A i \in 1..numElem' : Contents'[i] = EventAt(ring[Entry(i - 1)])'
  BY ContentsFactsNext DEF ContentsGood
<1>4. \A i \in 1..numElem : i - 1 \in 0..(numElem - 1) BY <1>1
<1>5. \A i \in 1..Len(Contents) : Contents'[i] = Contents[i] BY <1>2, <1>3, <1>4
<1>6. QED BY <1>2, <1>3, <1>5, SeqEqual

\* Queue appends the event of its caller.
LEMMA QueueAppends ==
    ASSUME IInv, IInv', NEW t \in Threads, Queue(t)
    PROVE  Contents' = Append(Contents, EventAt(ptr[t])) /\ Prefix' = Prefix
           /\ EventAt(ptr[t]) \in Events
<1> USE DepthAssumption
<1>1. EventAt(ptr[t]) \in Events BY DEF IInv, PointerInv, Queue
<1>2. numElem < Depth BY RoomInRing DEF Queue
<1>3. /\ ring' = [ring EXCEPT ![indexIn] = ptr[t]] /\ numElem' = numElem + 1
      /\ UNCHANGED <<kind, mem, indexOut, step, cur>>
  BY <1>2 DEF Queue, IInv, TypeOK
<1>4. numElem \in Nat /\ indexIn = Entry(numElem) /\ ring \in [Slots -> Pointers]
  BY <1>2, EntryFacts, SMTT(20) DEF IInv, TypeOK
<1>5. \A k \in 0..numElem : Entry(k) \in Slots /\ (k # numElem => Entry(k) # Entry(numElem))
  BY <1>2, <1>4, EntryFacts DEF IInv
<1>6. \A k \in 0..numElem : ring'[Entry(k)] = IF k = numElem THEN ptr[t] ELSE ring[Entry(k)]
  BY <1>3, <1>4, <1>5
<1>7. \A k \in 0..numElem : Entry(k)' = Entry(k) BY <1>3 DEF Entry
<1>8. /\ Contents \in Seq(Events) /\ Len(Contents) = numElem
      /\ \A i \in 1..numElem : Contents[i] = EventAt(ring[Entry(i - 1)])
  BY ContentsFacts DEF ContentsGood
<1>9. /\ Contents' \in Seq(Events) /\ Len(Contents') = numElem'
      /\ \A i \in 1..numElem' : Contents'[i] = EventAt(ring'[Entry(i - 1)'])
  <2>1. /\ Contents' \in Seq(Events) /\ Len(Contents') = numElem'
        /\ \A i \in 1..numElem' : Contents'[i] = EventAt(ring[Entry(i - 1)])'
    BY ContentsFactsNext DEF ContentsGood
  <2>2. \A i : EventAt(ring[Entry(i - 1)])' = EventAt(ring'[Entry(i - 1)']) BY <1>3 DEF EventAt
  <2>3. QED BY <2>1, <2>2
<1>10. /\ Append(Contents, EventAt(ptr[t])) \in Seq(Events)
       /\ Len(Append(Contents, EventAt(ptr[t]))) = numElem + 1
       /\ \A i \in 1..numElem : Append(Contents, EventAt(ptr[t]))[i] = Contents[i]
       /\ Append(Contents, EventAt(ptr[t]))[numElem + 1] = EventAt(ptr[t])
  BY <1>1, <1>8, AppendProperties
<1>11. \A i \in 1..(numElem + 1) : Contents'[i] = Append(Contents, EventAt(ptr[t]))[i]
  <2>1. \A i \in 1..numElem : i - 1 \in 0..numElem /\ i - 1 # numElem BY <1>4
  <2>2. \A i \in 1..numElem : Contents'[i] = Contents[i]
    BY <1>3, <1>4, <1>6, <1>7, <1>8, <1>9, <2>1
  <2>3. Contents'[numElem + 1] = EventAt(ptr[t])
    <3>1. numElem + 1 \in 1..numElem' /\ (numElem + 1) - 1 = numElem /\ numElem \in 0..numElem
      BY <1>3, <1>4
    <3>2. QED BY <1>6, <1>7, <1>9, <3>1
  <2>4. \A i \in 1..(numElem + 1) : i \in 1..numElem \/ i = numElem + 1 BY <1>4
  <2>5. QED BY <1>10, <2>2, <2>3, <2>4
<1>12. Contents' = Append(Contents, EventAt(ptr[t]))
  BY <1>3, <1>9, <1>10, <1>11, SeqEqual
<1>13. Prefix' = Prefix BY <1>3 DEF Prefix, Taken, EventAt
<1>14. QED BY <1>1, <1>12, <1>13

\* DeQueue moves the oldest event from the ring into the hands of Run.
LEMMA DeQueueTakes ==
    ASSUME IInv, IInv', DeQueue
    PROVE  Underway' = Underway
<1> USE DepthAssumption
<1>1. kind \in {"base", "omx"} /\ numElem \in 0..Depth /\ numElem > 0 /\ step = "dequeue"
  BY DEF IInv, TypeOK, RequestInv, DeQueue
<1>2. /\ cur' = ring[indexOut] /\ indexOut' = Wrap(indexOut) /\ numElem' = numElem - 1
      /\ step' = (IF kind = "base" THEN "signal" ELSE "process")
      /\ UNCHANGED <<kind, mem, ring>>
  BY <1>1, StepValues DEF DeQueue
<1>3. indexOut \in 0..(Depth - 1) /\ indexOut = Entry(0) BY EntryFacts DEF IInv, TypeOK, Slots
<1>4. \A i \in 1..(numElem - 1) : Entry(i - 1)' = Entry((i + 1) - 1)
  BY <1>1, <1>2, <1>3 DEF Entry, Wrap
<1>5. /\ EventAt(cur)' = EventAt(ring[Entry(0)])
      /\ \A i : EventAt(ring[Entry(i - 1)])' = EventAt(ring[Entry(i - 1)'])
  BY <1>2, <1>3 DEF EventAt
<1>6. /\ Contents \in Seq(Events) /\ Len(Contents) = numElem
      /\ \A i \in 1..numElem : Contents[i] = EventAt(ring[Entry(i - 1)])
  BY ContentsFacts DEF ContentsGood
<1>7. /\ Contents' \in Seq(Events) /\ Len(Contents') = numElem - 1
      /\ \A i \in 1..(numElem - 1) : Contents'[i] = EventAt(ring[Entry(i - 1)'])
  <2>1. /\ Contents' \in Seq(Events) /\ Len(Contents') = numElem'
        /\ \A i \in 1..numElem' : Contents'[i] = EventAt(ring[Entry(i - 1)])'
    BY ContentsFactsNext DEF ContentsGood
  <2>2. QED BY <1>2, <1>5, <2>1
<1>8. Prefix = <<>> /\ Prefix' = <<Contents[1]>>
  <2>1. Contents[1] = EventAt(ring[Entry(0)]) BY <1>1, <1>6
  <2>2. QED BY <1>1, <1>2, <1>5, <2>1 DEF Prefix, Taken
<1>9. Contents # <<>> BY <1>1, <1>6
<1>10. /\ Tail(Contents) \in Seq(Events) /\ Len(Tail(Contents)) = numElem - 1
       /\ \A i \in 1..(numElem - 1) : Tail(Contents)[i] = Contents[i + 1]
  BY <1>6, <1>9, HeadTailProperties
<1>11. Contents' = Tail(Contents)
  <2>1. \A i \in 1..(numElem - 1) : i + 1 \in 1..numElem BY <1>1
  <2>2. \A i \in 1..(numElem - 1) : Contents'[i] = Tail(Contents)[i]
    BY <1>4, <1>6, <1>7, <1>10, <2>1
  <2>3. QED BY <1>7, <1>10, <2>2, SeqEqual
<1>12. <<Contents[1]>> \o Tail(Contents) = <<>> \o Contents
  BY <1>6, <1>9
<1>13. QED BY <1>8, <1>11, <1>12 DEF Underway

\* What each step does to the events under way.
LEMMA ChannelStep ==
    ASSUME IInv, IInv', [Next]_vars
    PROVE  \/ Underway' = Underway
           \/ \E e \in Events : Underway' = Append(Underway, e)
           \/ Underway # <<>> /\ Underway' = Tail(Underway)
<1>1. Contents \in Seq(Events) /\ Prefix \in Seq(Events)
  BY ContentsFacts DEF ContentsGood
<1>2. CASE UNCHANGED vars
  <2>1. UNCHANGED <<kind, mem, ring, indexOut, numElem, step, cur>> BY <1>2 DEF vars
  <2>2. QED BY <2>1 DEF Underway, Prefix, Taken, Contents, EventAt
<1>3. ASSUME NEW t \in Threads, ReceiveEvent(t) \/ SemaWait(t) PROVE Underway' = Underway
  <2>1. UNCHANGED <<kind, mem, ring, indexOut, numElem, step, cur>>
    BY <1>3 DEF ReceiveEvent, SemaWait, queueVars
  <2>2. QED BY <2>1 DEF Underway, Prefix, Taken, Contents, EventAt
<1>4. ASSUME NEW t \in Threads, Allocate(t) PROVE Underway' = Underway
  <2>1. UNCHANGED <<kind, ring, indexOut, numElem, step, cur>>
    BY <1>4 DEF Allocate, queueVars
  <2>2. kind = "omx" BY <1>4 DEF Allocate, IInv, PlaceInv, TypeOK
  <2>3. \/ UNCHANGED mem
        \/ free # <<>> /\ mem' = [mem EXCEPT ![Last(free)] = [thread |-> t, num |-> sent[t]]]
    BY <1>4 DEF Allocate
  <2>4. free # <<>> => Last(free) = free[Len(free)] /\ Len(free) \in 1..Len(free)
    <3>1. Len(free) \in Nat /\ (free # <<>> => Len(free) > 0) BY EmptySeq, LenProperties DEF IInv, TypeOK
    <3>2. QED BY <3>1 DEF Last
  <2>5. \A p \in Chunks :
           (free # <<>> => p # free[Len(free)]) => mem'[p] = mem[p]
    BY <2>3, <2>4 DEF IInv, TypeOK
  <2>6. \A k \in 0..(numElem - 1) : EventAt(ring[Entry(k)])' = EventAt(ring[Entry(k)])
    <3>1. \A k \in 0..(numElem - 1) :
             ring[Entry(k)] \in Chunks /\ (free # <<>> => ring[Entry(k)] # free[Len(free)])
      BY <2>2, <2>4 DEF IInv, PointerInv, Carriers, DistinctInv
    <3>2. \A k \in 0..(numElem - 1) : Entry(k)' = Entry(k) BY <2>1 DEF Entry
    <3>3. QED BY <2>1, <2>5, <3>1, <3>2 DEF EventAt
  <2>7. Contents' = Contents BY <2>1, <2>6, ContentsSame
  <2>8. Prefix' = Prefix
    <3>1. InHand => cur \in Chunks /\ (free # <<>> => cur # free[Len(free)])
      BY <2>2, <2>4 DEF IInv, PointerInv, Carriers, DistinctInv
    <3>2. QED BY <2>1, <2>5, <3>1 DEF Prefix, Taken, EventAt, InHand
  <2>9. QED BY <2>7, <2>8 DEF Underway
<1>5. ASSUME NEW t \in Threads, Queue(t) PROVE \E e \in Events : Underway' = Append(Underway, e)
  <2>1. /\ Contents' = Append(Contents, EventAt(ptr[t])) /\ Prefix' = Prefix
        /\ EventAt(ptr[t]) \in Events
    BY <1>5, QueueAppends
  <2>2. Prefix \o Append(Contents, EventAt(ptr[t])) = Append(Prefix \o Contents, EventAt(ptr[t]))
    BY <1>1, <2>1
  <2>3. QED BY <2>1, <2>2 DEF Underway
<1>6. CASE StartRun
  <2>1. UNCHANGED <<kind, mem, ring, indexOut, numElem, cur>> /\ Prefix' = Prefix
    BY <1>6 DEF StartRun, queueVars, Prefix, Taken, EventAt
  <2>2. QED BY <2>1 DEF Underway, Contents, EventAt
<1>7. CASE DeQueue BY <1>7, DeQueueTakes
<1>8. CASE ProcessEvent
  <2>1. /\ UNCHANGED <<kind, mem, ring, indexOut, numElem>> /\ ~Taken' /\ Taken
    BY <1>8, StepValues DEF ProcessEvent, queueVars, Taken, IInv, TypeOK
  <2>2. Contents' = Contents BY <2>1 DEF Contents, EventAt
  <2>3. Prefix = <<EventAt(cur)>> /\ Prefix' = <<>> BY <2>1 DEF Prefix
  <2>4. EventAt(cur) \in Events BY <2>1 DEF IInv, PointerInv, Taken, InHand
  <2>5. /\ <<EventAt(cur)>> \o Contents # <<>>
        /\ Tail(<<EventAt(cur)>> \o Contents) = <<>> \o Contents
    BY <1>1, <2>4
  <2>6. QED BY <2>2, <2>3, <2>5 DEF Underway
<1>9. CASE Deallocate
  <2>1. UNCHANGED <<kind, mem, ring, indexOut, numElem, cur>> /\ ~Taken /\ ~Taken'
    BY <1>9, StepValues DEF Deallocate, queueVars, Taken, IInv, TypeOK, RequestInv
  <2>2. QED BY <2>1 DEF Underway, Prefix, Contents, EventAt
<1>10. CASE SemaSignal
  <2>1. UNCHANGED <<kind, mem, ring, indexOut, numElem, cur>> /\ (Taken' <=> Taken)
    BY <1>10, StepValues DEF SemaSignal, queueVars, Taken, IInv, TypeOK
  <2>2. QED BY <2>1 DEF Underway, Prefix, Contents, EventAt
<1>11. QED BY <1>2, <1>3, <1>4, <1>5, <1>6, <1>7, <1>8, <1>9, <1>10 DEF Next, NodeThread, Inside

\* Events go from the callers to the node in the order they were queued, none
\* lost, duplicated or overwritten while it waits: the object implements the
\* reliable channel of MediaChannel, for any number of threads and any depth.
THEOREM CarriesCorrect == Spec => CarriesEvents
<1>1. Init => Channel!Init
  <2>1. ASSUME Init PROVE Channel!Init
    <3>1. numElem = 0 /\ step = "off" BY <2>1 DEF Init
    <3>2. 1..numElem = {} BY <3>1
    <3>3. Contents = <<>> BY <3>2 DEF Contents
    <3>4. QED BY <3>1, <3>3 DEF Channel!Init
  <2>2. QED BY <2>1
<1>2. IInv /\ IInv' /\ [Next]_vars => [Channel!Put \/ Channel!Get]_(Underway)
  BY ChannelStep DEF Channel!Put, Channel!Get, Underway, Prefix, Taken
<1>3. QED BY <1>1, <1>2, InvCorrect, PTL
  DEF Spec, CarriesEvents, Channel!Reliable, Underway, Prefix, Taken
=============================================================================
