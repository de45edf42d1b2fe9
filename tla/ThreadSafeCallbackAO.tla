------------------------- MODULE ThreadSafeCallbackAO -------------------------
(***************************************************************************)
(* The active object that carries callbacks of foreign threads (OMX        *)
(* components, audio devices, cameras) into the thread of a node.          *)
(*                                                                         *)
(* A foreign thread calls ReceiveEvent: it waits on a counting semaphore   *)
(* for a place, and stores a pointer to the event in a ring of Depth       *)
(* entries under the object's mutex, completing the object's request when  *)
(* the ring was empty.  The scheduler of the node thread then calls Run.   *)
(*                                                                         *)
(* There are two kinds.  "base" is ThreadSafeCallbackAO itself: one event  *)
(* per Run, the semaphore signalled as soon as the entry is free, the      *)
(* event allocated by the caller.  "omx" are the three subclasses of the   *)
(* OMX decoder nodes: a Run takes every event, the event data lives in a   *)
(* pool of only Depth chunks, and the semaphore is signalled after the     *)
(* chunk went back to the pool.                                            *)
(***************************************************************************)
EXTENDS Integers, Sequences, SequencesExt

CONSTANTS Threads,   \* the foreign threads
          Depth,     \* aDepth of the constructor
          MaxEvents  \* bound: the calls of ReceiveEvent each thread makes

ASSUME ThreadsAssumption == IsFiniteSet(Threads)
ASSUME DepthAssumption == Depth \in Nat \ {0}
ASSUME MaxEventsAssumption == MaxEvents \in Nat

None == [none |-> TRUE]
Chunks == [chunk : 1..Depth]
Slots == 0..(Depth - 1)
Events == [thread : Threads, num : 1..MaxEvents]

\* A pointer: to a chunk of the pool (omx), or to memory of the caller's that
\* holds the event and that nobody reuses (base).
Pointers == Chunks \cup Events \cup {None}

VARIABLES
    kind,      \* "base" or "omx"
    pc,        \* what each foreign thread is doing in ReceiveEvent
    sent,      \* calls of ReceiveEvent each thread has made
    ptr,       \* the pointer each thread is about to queue
    sema,      \* RemoteThreadCtrlSema
    free,      \* iFreeMemChunkList of the pool, a stack
    mem,       \* the event each chunk holds
    ring,      \* Q->pFirst
    indexIn, indexOut, numElem,
    request,   \* the object's request: "none", "pending" or "ready"
    step,      \* what the node thread is doing in Run, or "off"
    cur,       \* the pointer Run has taken from the ring
    last,      \* status OsclPending: cur was the last event of the ring
    done,      \* the events of each thread the node has been called with
    fault      \* a leave or a null pointer used

vars == <<kind, pc, sent, ptr, sema, free, mem, ring, indexIn, indexOut,
          numElem, request, step, cur, last, done, fault>>
queueVars == <<ring, indexIn, indexOut, numElem>>
threadVars == <<pc, sent, ptr>>

-----------------------------------------------------------------------------
(***************************************************************************)
(* The request of the object, seen from here.                              *)
(***************************************************************************)

\* PendForExec leaves when a request is outstanding already.
PendForExec ==
    /\ request' = "pending"
    /\ fault' = (fault \/ request # "none")

\* PendComplete is an error unless the request is pending.
PendComplete ==
    /\ request' = "ready"
    /\ fault' = (fault \/ request # "pending")

RunIfNotReady ==
    /\ request' = IF request = "none" THEN "ready" ELSE request
    /\ UNCHANGED fault

Wrap(i) == IF i + 1 = Depth THEN 0 ELSE i + 1

\* The event behind a pointer when it is read.
EventAt(p) == IF p \in Chunks THEN mem[p] ELSE p

-----------------------------------------------------------------------------
(***************************************************************************)
(* The foreign threads.                                                    *)
(***************************************************************************)

\* ReceiveEvent is called; it first waits for the semaphore.
ReceiveEvent(t) ==
    /\ pc[t] = "idle" /\ sent[t] < MaxEvents
    /\ pc' = [pc EXCEPT ![t] = "wait"]
    /\ sent' = [sent EXCEPT ![t] = @ + 1]
    /\ UNCHANGED <<kind, ptr, sema, free, mem, queueVars, request, step, cur,
                   last, done, fault>>

\* RemoteThreadCtrlSema.Wait() returns.
SemaWait(t) ==
    /\ pc[t] = "wait" /\ sema > 0
    /\ sema' = sema - 1
    /\ IF kind = "omx"
       THEN pc' = [pc EXCEPT ![t] = "alloc"] /\ UNCHANGED ptr
       ELSE /\ pc' = [pc EXCEPT ![t] = "queue"]
            /\ ptr' = [ptr EXCEPT ![t] = [thread |-> t, num |-> sent[t]]]
    /\ UNCHANGED <<kind, sent, free, mem, queueVars, request, step, cur, last,
                   done, fault>>

\* iMemoryPool->allocate, whose result is written through unchecked.
Allocate(t) ==
    /\ pc[t] = "alloc"
    /\ pc' = [pc EXCEPT ![t] = "queue"]
    /\ IF free = <<>>
       THEN /\ ptr' = [ptr EXCEPT ![t] = None]
            /\ fault' = TRUE
            /\ UNCHANGED <<free, mem>>
       ELSE /\ ptr' = [ptr EXCEPT ![t] = Last(free)]
            /\ free' = Front(free)
            /\ mem' = [mem EXCEPT ![Last(free)] = [thread |-> t, num |-> sent[t]]]
            /\ UNCHANGED fault
    /\ UNCHANGED <<kind, sent, sema, queueVars, request, step, cur, last, done>>

\* Queue under the mutex, and the return of ReceiveEvent.
Queue(t) ==
    /\ pc[t] = "queue"
    /\ pc' = [pc EXCEPT ![t] = "idle"]
    /\ ptr' = [ptr EXCEPT ![t] = None]
    /\ IF numElem >= Depth
       THEN sema' = sema + 1 /\ UNCHANGED <<queueVars, request, fault>>
       ELSE /\ ring' = [ring EXCEPT ![indexIn] = ptr[t]]
            /\ indexIn' = Wrap(indexIn)
            /\ numElem' = numElem + 1
            /\ IF numElem' = 1 THEN PendComplete ELSE UNCHANGED <<request, fault>>
            /\ UNCHANGED <<sema, indexOut>>
    /\ UNCHANGED <<kind, sent, free, mem, step, cur, last, done>>

-----------------------------------------------------------------------------
(***************************************************************************)
(* The node thread.  RunOrder is the order of the steps of one pass.       *)
(***************************************************************************)

\* Mutant: the place is given back before the chunk is.
SignalFirst ==
    IF kind = "base" THEN <<"dequeue", "signal", "process">>
    ELSE <<"dequeue", "process", "signal", "dealloc">>

\* Mutant: the chunk is given back before the node has seen it.
DeallocFirst ==
    IF kind = "base" THEN <<"dequeue", "signal", "process">>
    ELSE <<"dequeue", "dealloc", "signal", "process">>

RunOrder ==
    IF kind = "base" THEN <<"dequeue", "signal", "process">>
    ELSE <<"dequeue", "process", "dealloc", "signal">>

\* The step after s: an omx Run goes round again until it took the last
\* event, a base Run ends.
StepAfter(s) ==
    LET i == CHOOSE i \in DOMAIN RunOrder : RunOrder[i] = s
    IN  IF i < Len(RunOrder) THEN RunOrder[i + 1]
        ELSE IF kind = "omx" /\ ~last THEN "dequeue" ELSE "off"

\* The scheduler takes the object from its ready queue and calls Run.
StartRun ==
    /\ step = "off" /\ request = "ready"
    /\ step' = "dequeue"
    /\ request' = "none"
    /\ UNCHANGED <<kind, threadVars, sema, free, mem, queueVars, cur, last, done,
                   fault>>

\* Mutant: Run, not DeQueue, looks whether there is more.
RearmAlways ==
    IF kind = "base" /\ numElem' # 0 THEN RunIfNotReady ELSE PendForExec

\* What DeQueue does to the request once numElem has been decremented: the
\* base object arms itself again or runs again, the omx one only arms itself
\* after the last event.
Rearm ==
    IF numElem' = 0 THEN PendForExec
    ELSE IF kind = "base" THEN RunIfNotReady
    ELSE UNCHANGED <<request, fault>>

\* DeQueue under the mutex.  An empty ring ends the Run.
DeQueue ==
    /\ step = "dequeue"
    /\ IF numElem = 0
       THEN step' = "off" /\ UNCHANGED <<queueVars, request, fault, cur, last>>
       ELSE /\ cur' = ring[indexOut]
            /\ indexOut' = Wrap(indexOut)
            /\ numElem' = numElem - 1
            /\ last' = (numElem' = 0)
            /\ Rearm
            /\ step' = StepAfter("dequeue")
            /\ UNCHANGED <<ring, indexIn>>
    /\ UNCHANGED <<kind, threadVars, sema, free, mem, done>>

\* ProcessEvent: the node is called with the event.
ProcessEvent ==
    /\ step = "process"
    /\ done' = LET e == EventAt(cur) IN [done EXCEPT ![e.thread] = Append(@, e.num)]
    /\ step' = StepAfter("process")
    /\ cur' = IF kind = "base" THEN None ELSE cur
    /\ UNCHANGED <<kind, threadVars, sema, free, mem, queueVars, request, last,
                   fault>>

\* iMemoryPool->deallocate.
Deallocate ==
    /\ step = "dealloc"
    /\ free' = Append(free, cur)
    /\ step' = StepAfter("dealloc")
    /\ UNCHANGED <<kind, threadVars, sema, mem, queueVars, request, cur, last,
                   done, fault>>

\* Mutant: the semaphore is only signalled when the ring was full.
SemaSignalWhenFull ==
    /\ step = "signal"
    /\ sema' = IF numElem = Depth - 1 THEN sema + 1 ELSE sema
    /\ step' = StepAfter("signal")
    /\ UNCHANGED <<kind, threadVars, free, mem, queueVars, request, cur, last,
                   done, fault>>

\* RemoteThreadCtrlSema.Signal()
SemaSignal ==
    /\ step = "signal"
    /\ sema' = sema + 1
    /\ step' = StepAfter("signal")
    /\ UNCHANGED <<kind, threadVars, free, mem, queueVars, request, cur, last,
                   done, fault>>

-----------------------------------------------------------------------------
Init ==
    /\ kind \in {"base", "omx"}
    /\ pc = [t \in Threads |-> "idle"]
    /\ sent = [t \in Threads |-> 0]
    /\ ptr = [t \in Threads |-> None]
    /\ sema = Depth
    /\ free = [i \in 1..Depth |-> [chunk |-> i]]
    /\ mem = [c \in Chunks |-> None]
    /\ ring = [i \in Slots |-> None]
    /\ indexIn = 0 /\ indexOut = 0 /\ numElem = 0
    /\ request = "pending"  \* the constructor ends with PendForExec
    /\ step = "off" /\ cur = None /\ last = FALSE
    /\ done = [t \in Threads |-> <<>>]
    /\ fault = FALSE

NodeThread == StartRun \/ DeQueue \/ ProcessEvent \/ Deallocate \/ SemaSignal

Inside(t) == SemaWait(t) \/ Allocate(t) \/ Queue(t)

Next == NodeThread \/ (\E t \in Threads : ReceiveEvent(t) \/ Inside(t))

Spec == Init /\ [][Next]_vars

\* Every thread runs.  Calls are finitely many, so a thread waiting for the
\* semaphore needs no fairness among the waiters.
FairSpec ==
    /\ Spec
    /\ WF_vars(NodeThread)
    /\ \A t \in Threads : WF_vars(Inside(t))

-----------------------------------------------------------------------------
(***************************************************************************)
(* Properties.                                                             *)
(***************************************************************************)

Holds(t) == pc[t] \in {"alloc", "queue"}
Holders == {t \in Threads : Holds(t)}

\* Run has taken an event and not yet given its place back.
RunHolds ==
    IF kind = "base" THEN step = "signal"
    ELSE step \in {"process", "dealloc", "signal"}

\* The events in the ring, the oldest first.
Contents == [i \in 1..numElem |-> EventAt(ring[(indexOut + i - 1) % Depth])]

TypeOK ==
    /\ kind \in {"base", "omx"}
    /\ pc \in [Threads -> {"idle", "wait", "alloc", "queue"}]
    /\ sent \in [Threads -> 0..MaxEvents]
    /\ ptr \in [Threads -> Pointers]
    /\ sema \in 0..Depth
    /\ free \in Seq(Chunks) /\ Len(free) <= Depth
    /\ mem \in [Chunks -> Events \cup {None}]
    /\ ring \in [Slots -> Pointers]
    /\ indexIn \in Slots /\ indexOut \in Slots /\ numElem \in 0..Depth
    /\ indexIn = (indexOut + numElem) % Depth
    /\ request \in {"none", "pending", "ready"}
    /\ step \in {"off", "dequeue", "process", "dealloc", "signal"}
    /\ cur \in Pointers /\ last \in BOOLEAN /\ fault \in BOOLEAN

\* The request follows the ring, although it is completed by whichever
\* foreign thread fills the empty ring and re-armed by the node thread: an
\* idle object with an event is ready, one without waits to be completed, a
\* Run that is about to take an event finds one, and neither PendForExec nor
\* PendComplete ever meets a request in the wrong state (Queue and DeQueue,
\* threadsafe_callback_ao.cpp).
RequestFollowsRing ==
    /\ step = "off" => request = (IF numElem > 0 THEN "ready" ELSE "pending")
    /\ step = "dequeue" => numElem > 0 /\ request = "none"
    /\ ~fault

\* The semaphore counts the free places exactly, so that a thread it let in
\* finds room in the ring and, in the omx kind, a chunk in a pool that is no
\* larger than the ring ("there is no need to allocate more mempool items
\* than the queue depth", pvmf_omx_basedec_callbacks.cpp).
PlaceForWhoeverIsIn ==
    LET allocating == {t \in Threads : pc[t] = "alloc"}
    IN  /\ sema + numElem + Cardinality(Holders) + (IF RunHolds THEN 1 ELSE 0)
            = Depth
        /\ kind = "omx" => Len(free) >= sema + Cardinality(allocating)

\* What the object promises: events go from the callers to the node in the
\* order they were queued, none lost, duplicated or overwritten while it
\* waits, whatever chunk or entry it waits in.
Channel ==
    INSTANCE MediaChannel WITH
        Msg <- Events,
        chan <- (IF step = "process" \/ (kind = "base" /\ step = "signal")
                 THEN <<EventAt(cur)>> ELSE <<>>) \o Contents

CarriesEvents == Channel!Reliable

\* A callback is never stuck: a thread blocked because the ring is full is
\* let in, and the node is called with every event.
EveryEventProcessed ==
    \A t \in Threads : \A n \in 1..MaxEvents :
        sent[t] >= n ~> Contains(done[t], n) /\ (sent[t] > n \/ pc[t] = "idle")
=============================================================================
