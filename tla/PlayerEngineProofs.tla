------------------------- MODULE PlayerEngineProofs -------------------------
(***************************************************************************)
(* Proofs about PlayerEngine, for every set of datapaths, every mix of     *)
(* commands and every number of commands, failures and synchronous calls.  *)
(***************************************************************************)
EXTENDS PlayerEngine, TLAPS, SequenceTheorems, FiniteSetTheorems,
        FunctionTheorems, WellFoundedInduction

-----------------------------------------------------------------------------
(***************************************************************************)
(* The thread-safe queue.  iQueueReadySem is up exactly while the request  *)
(* of the queue's active object is pending, so that whoever gets past the  *)
(* semaphore may complete the request.                                     *)
(***************************************************************************)
SemGuardsRequest ==
    /\ tsqReq \in {"pending", "ready"} /\ tsqStep \in {"off", "drain"}
    /\ tsqSem = IF tsqReq = "pending" THEN 1 ELSE 0
    /\ DOMAIN pc = Callers

QueueInv == SemGuardsRequest /\ QueueIsSignalled /\ (\E S : tsq \in Seq(S))

\* Every step of the engine, its queue and its callers keeps the invariant.
LEMMA QueueStep == QueueInv /\ [Next]_vars => QueueInv'
<1> SUFFICES ASSUME QueueInv, [Next]_vars
             PROVE  QueueInv'
  OBVIOUS
<1> USE DEF QueueInv, SemGuardsRequest, QueueIsSignalled
<1>1. PICK S : tsq \in Seq(S)
  OBVIOUS
<1>2. ASSUME UNCHANGED <<tsqVars, pc>>
      PROVE  QueueInv'
  BY <1>2 DEF tsqVars
<1>3. ASSUME UNCHANGED tsqVars,
             \E t \in Callers, x \in {"idle", "push"} :
                 pc[t] # "signal" /\ pc' = [pc EXCEPT ![t] = x]
      PROVE  QueueInv'
  BY <1>3 DEF tsqVars
<1>4. CASE Run \/ NodeAnswers \/ SourceError \/ SourceDone(FALSE)
           \/ (\E d \in Datapaths : DatapathDone(d, FALSE))
           \/ UNCHANGED vars
  <2>1. UNCHANGED <<tsqVars, pc>>
    BY <1>4 DEF Run, NodeAnswers, SourceError, SourceDone, DatapathDone,
                NodeDone, CancelDone, callVars, vars, tsqVars
  <2> QED BY <1>2, <2>1
<1>5. ASSUME NEW type \in ApiTypes, NEW arg \in Args(type), IssueCommand(type, arg)
      PROVE  QueueInv'
  <2>1. UNCHANGED tsqVars /\ pc["app"] = "idle"
        /\ (pc' = pc \/ pc' = [pc EXCEPT !["app"] = "push"])
    BY <1>5 DEF IssueCommand
  <2> QED BY <1>2, <1>3, <2>1 DEF Callers
<1>6. CASE SyncCall \/ SyncReturn
  <2>1. UNCHANGED tsqVars /\ pc["sync"] # "signal"
        /\ \E x \in {"idle", "push"} : pc' = [pc EXCEPT !["sync"] = x]
    BY <1>6 DEF SyncCall, SyncReturn
  <2> QED BY <1>3, <2>1 DEF Callers
<1>7. ASSUME NEW t \in Callers, AddToQueue(t)
      PROVE  QueueInv'
  <2>1. /\ tsq' = Append(tsq, hand[t]) /\ pc[t] = "push"
        /\ pc' = [pc EXCEPT ![t] = IF Len(tsq') = 1 THEN "signal" ELSE Queued(t)]
        /\ UNCHANGED <<tsqSem, tsqReq, tsqStep, fault>>
    BY <1>7 DEF AddToQueue
  <2>2. tsq' \in Seq(S \cup {hand[t]})
    <3>1. tsq \in Seq(S \cup {hand[t]})
      BY <1>1, SeqMonotonic
    <3> QED BY <2>1, <3>1
  <2>3. Len(tsq') = Len(tsq) + 1 /\ Len(tsq) \in Nat
    BY <1>1, <2>1
  <2>4. tsq = <<>> => pc'[t] = "signal"
    BY <2>1, <2>3
  <2>5. \A u \in Callers \ {t} : pc'[u] = pc[u]
    BY <2>1
  <2> QED BY <2>1, <2>2, <2>4, <2>5
<1>8. ASSUME NEW t \in Callers, SignalQueue(t)
      PROVE  QueueInv'
  <2>1. tsqReq = "pending" /\ tsqSem = 1
    BY <1>8 DEF SignalQueue
  <2>2. /\ tsqReq' = "ready" /\ tsqSem' = 0 /\ tsq' = tsq /\ tsqStep' = tsqStep
    BY <1>8, <2>1 DEF SignalQueue
  <2>3. ~fault'
    BY <1>8, <2>1, Zenon DEF SignalQueue
  <2>4. DOMAIN pc' = Callers
    BY <1>8 DEF SignalQueue
  <2> QED BY <1>1, <2>2, <2>3, <2>4
<1>9. CASE QueueRun
  BY <1>9 DEF QueueRun, callVars
<1>10. CASE DeQueue
  <2>1. CASE tsq = <<>>
    BY <1>10, <2>1 DEF DeQueue, callVars
  <2>2. CASE tsq # <<>>
    <3>1. tsq' \in Seq(S)
      BY <1>1, <1>10, <2>2 DEF DeQueue
    <3> QED BY <1>10, <2>2, <3>1 DEF DeQueue, callVars
  <2> QED BY <2>1, <2>2
<1> QED
  BY <1>4, <1>5, <1>6, <1>7, <1>8, <1>9, <1>10
  DEF Next, EngineThread, CallerStep

(***************************************************************************)
(* Commands of other threads are not stranded in the thread-safe queue,    *)
(* and nobody completes a request that is not pending, however the two     *)
(* callers and the queue's Run interleave.                                 *)
(***************************************************************************)
THEOREM QueueCorrect == Spec => []QueueIsSignalled
<1>1. Init => QueueInv
  <2> SUFFICES ASSUME Init PROVE QueueInv
    OBVIOUS
  <2>1. tsq \in Seq({})
    BY DEF Init
  <2> QED BY <2>1 DEF Init, QueueInv, SemGuardsRequest, QueueIsSignalled
<1>2. QueueInv => QueueIsSignalled
  BY DEF QueueInv
<1> QED BY <1>1, <1>2, QueueStep, PTL DEF Spec

-----------------------------------------------------------------------------
(***************************************************************************)
(* The phases of the engine.  What may be outstanding on the nodes is      *)
(* fixed by the engine's state and by whether cancels are under way; the   *)
(* predicates take the engine e and the set K of cancels as arguments, so  *)
(* that the handlers, which are functions on the engine, can be reasoned   *)
(* about one at a time.                                                    *)
(***************************************************************************)
Ordinary == {"pause", "stop", "reset", "quick", "cancel", "cancelAll", "sync"}
Command == [type : Ordinary \cup EHTypes, id : Nat, arg : Int]

Members == {"state", "pending", "current", "toCancel", "numCancel", "numDp", "ctx",
            "ready", "src", "dp", "nextId", "answered"}

\* The types of the members; answered and ready have their own invariants.
IsEngine(e) ==
    /\ DOMAIN e = Members
    /\ e.state \in States /\ e.pending \subseteq Command
    /\ e.current \in Command \cup {None} /\ e.toCancel \in Command \cup {None}
    /\ e.numCancel \in Int /\ e.numDp \in Int
    /\ e.ctx \subseteq Context
    /\ e.src \in {"none", "created", "active"}
    /\ e.dp \in [Datapaths -> {"none", "down", "idle", "active"}]
    /\ e.nextId \in Nat

ErrorPending(e) == \E c \in e.pending : c.type \in EHTypes
DatapathsOnly(e) == \A c \in e.ctx : c.who # Src
Ops(e) == {c.op : c \in {x \in e.ctx : x.who # Src}}
Whos(e) == {c.who : c \in e.ctx}
Asked == {"DPPause", "DPStop", "DPTeardown", "DPReset"}
ResetTypes == {"reset", "cancel", "cancelAll"}

\* Nobody is asked for two things at a time, and while the source node is
\* asked for something no datapath is.
OneEach(C) ==
    /\ IsFiniteSet(C)
    /\ \A c, d \in C : c.who = d.who => c = d
    /\ \A c \in C : c.who = Src => C = {c}

NoCancel(e, K) == K = {} /\ e.numCancel = 0 /\ e.toCancel = None

\* Nothing is outstanding.
QuietPhase(e, K) ==
    /\ NoCancel(e, K) /\ e.ctx = {}
    /\ e.state = "IDLE" => e.src # "active"
    /\ ErrorPending(e) => e.state = "IDLE"
    /\ ErrorPending(e) \/ e.current.type \in ResetTypes \cup {"none"}

\* A pause or a stop is being carried out.
WorkingPhase(e, K, type, ops) ==
    /\ NoCancel(e, K) /\ e.ctx # {} /\ e.current.type = type
    /\ ~ErrorPending(e)
    /\ Ops(e) \subseteq ops
    /\ DatapathsOnly(e) => e.numDp = Cardinality(e.ctx)

\* An error is to be handled; datapaths may still answer.
ErrorPhase(e, K) ==
    /\ NoCancel(e, K) /\ ErrorPending(e) /\ DatapathsOnly(e)
    /\ Ops(e) \subseteq Asked
    /\ e.ctx # {} => e.numDp >= Cardinality(e.ctx)

\* The cancels of what was outstanding are being answered, for a cancel
\* command (toCancel is the command it met) or for an error.
CancelPhase(e, K) ==
    /\ IsFiniteSet(K) /\ e.numCancel = Cardinality(K) /\ Ops(e) \subseteq Asked
    /\ \A c \in e.ctx : c.who = Src => K = {Src}
    /\ e.toCancel = None =>
           /\ ErrorPending(e) /\ DatapathsOnly(e) /\ K \subseteq Whos(e)
           /\ e.numDp >= Cardinality(e.ctx)

\* The source node, then the datapaths, decoders and sinks are being reset.
ResetPhase(e, K) ==
    /\ NoCancel(e, K) /\ e.ctx # {}
    /\ DatapathsOnly(e) =>
           /\ e.numDp = Cardinality(e.ctx) /\ e.src # "active"
           /\ Ops(e) \subseteq {"DPReset", "DecReset", "SinkReset"}
           /\ \A c \in e.ctx : c.op = "DecReset" => e.dp[c.who] \in {"active", "idle"}

Phases(e, K) ==
    /\ OneEach(e.ctx)
    /\ e.state \in Quiet => QuietPhase(e, K)
    /\ e.state = "PAUSING" => WorkingPhase(e, K, "pause", {"DPPause"})
    /\ e.state = "STOPPING" => WorkingPhase(e, K, "stop", {"DPStop", "DPTeardown", "DPReset"})
    /\ e.state = "ERROR" => ErrorPhase(e, K)
    /\ e.state = "RESETTING" =>
           /\ ErrorPending(e) \/ e.current.type \in ResetTypes
           /\ K # {} => CancelPhase(e, K)
           /\ K = {} => ResetPhase(e, K)

-----------------------------------------------------------------------------
(***************************************************************************)
(* Sets of contexts.                                                       *)
(***************************************************************************)

\* With one context for each, there are as many contexts as asked ones.
LEMMA ContextCount ==
    ASSUME NEW C, NEW S, \A c \in C : c.who \in S, \A s \in S : \E c \in C : c.who = s,
           \A c, d \in C : c.who = d.who => c = d,
           IsFiniteSet(C) \/ IsFiniteSet(S)
    PROVE  IsFiniteSet(C) /\ IsFiniteSet(S) /\ Cardinality(C) = Cardinality(S)
<1> DEFINE f == [c \in C |-> c.who]
<1>1. f \in Bijection(C, S)
  <2>1. f \in [C -> S]
    OBVIOUS
  <2>2. \A a, b \in C : f[a] = f[b] => a = b
    OBVIOUS
  <2>3. \A t \in S : \E s \in C : f[s] = t
    OBVIOUS
  <2> HIDE DEF f
  <2> QED BY <2>1, <2>2, <2>3 DEF Bijection, Injection, Surjection, IsInjective
<1>2. ExistsBijection(C, S)
  BY <1>1 DEF ExistsBijection
<1>3. ExistsBijection(S, C)
  BY <1>2, Fun_ExistsBijSymmetric
<1> QED BY <1>2, <1>3, FS_Bijection

\* A context goes.
LEMMA ContextGone ==
    ASSUME NEW C, NEW c \in C, OneEach(C)
    PROVE  /\ OneEach(C \ {c})
           /\ Cardinality(C) \in Nat /\ Cardinality(C \ {c}) = Cardinality(C) - 1
           /\ Cardinality(C) # 0
           /\ Cardinality(C) = 1 => C = {c}
           /\ c.who \notin {d.who : d \in C \ {c}}
<1>1. IsFiniteSet(C \ {c}) /\ Cardinality(C \ {c}) = Cardinality(C) - 1
  BY FS_RemoveElement DEF OneEach
<1>2. Cardinality(C) \in Nat /\ Cardinality(C \ {c}) \in Nat
  BY <1>1, FS_CardinalityType DEF OneEach
<1>3. Cardinality(C) = 1 => C = {c}
  <2> SUFFICES ASSUME Cardinality(C) = 1 PROVE C = {c}
    OBVIOUS
  <2>1. Cardinality(C \ {c}) = 0
    BY <1>1
  <2>2. C \ {c} = {}
    BY <1>1, <2>1, FS_EmptySet
  <2> QED BY <2>2
<1>4. OneEach(C \ {c})
  BY <1>1 DEF OneEach
<1>5. c.who \notin {d.who : d \in C \ {c}}
  BY DEF OneEach
<1> QED BY <1>1, <1>2, <1>3, <1>4, <1>5

\* One context alone.
LEMMA ContextAlone ==
    ASSUME NEW c
    PROVE  OneEach({c}) /\ Cardinality({c}) = 1
BY FS_Singleton DEF OneEach

\* No context at all.
LEMMA NoContext == OneEach({}) /\ Cardinality({}) = 0
BY FS_EmptySet DEF OneEach

\* The contexts made for a set of datapaths.
LEMMA ContextsFor ==
    ASSUME NEW D \in SUBSET Datapaths, NEW C \in SUBSET Context,
           \A c \in C : c.who \in D, \A d \in D : \E c \in C : c.who = d,
           \A c, d \in C : c.who = d.who => c = d
    PROVE  OneEach(C) /\ Cardinality(C) = Cardinality(D) /\ \A c \in C : c.who # Src
<1>1. IsFiniteSet(D)
  BY DatapathsAssumption, FS_Subset
<1>2. IsFiniteSet(C) /\ Cardinality(C) = Cardinality(D)
  BY <1>1, ContextCount
<1> QED BY <1>2, DatapathsAssumption DEF OneEach

-----------------------------------------------------------------------------
(***************************************************************************)
(* What the functions on the engine leave alone and what they set.         *)
(***************************************************************************)

\* Every non-empty set of naturals has a least member.
LEMMA LeastNat ==
    ASSUME NEW S \in SUBSET Nat, S # {}
    PROVE  \E m \in S : \A n \in S : m <= n
<1> DEFINE R == OpToRel(<, Nat)
<1>1. \A m, n \in Nat : n < m => <<n, m>> \in R
  BY DEF OpToRel
<1>2. PICK m \in S : \A n \in Nat : <<n, m>> \in R => n \notin S
  <2> HIDE DEF R
  <2>1. IsWellFoundedOn(R, Nat)
    BY NatLessThanWellFounded DEF R
  <2> QED BY <2>1, WFMin
<1> HIDE DEF R
<1>3. m \in Nat
  OBVIOUS
<1>4. \A n \in Nat : n < m => n \notin S
  BY <1>1, <1>2, <1>3, Zenon
<1>5. \A n \in S : m <= n
  BY <1>3, <1>4
<1> QED BY <1>5

\* There are four priorities.
LEMMA PriorityType ==
    ASSUME NEW c \in Command
    PROVE  /\ GetPriority(c) \in Nat
           /\ c.type \in {"sync"} \cup EHTypes <=> GetPriority(c) < 3
           /\ c.type \in {"cancel", "cancelAll"} => GetPriority(c) = 3
BY DEF GetPriority, Command, Ordinary, EHTypes

\* The pending queue has a top whenever it is not empty.
LEMMA TopIsFirst ==
    ASSUME NEW q \in SUBSET Command, q # {}
    PROVE  /\ Top(q) \in q
           /\ \A d \in q : \/ GetPriority(Top(q)) < GetPriority(d)
                           \/ GetPriority(Top(q)) = GetPriority(d) /\ Top(q).id <= d.id
<1> DEFINE P == {GetPriority(c) : c \in q}
<1>1. P \in SUBSET Nat /\ P # {}
  BY PriorityType
<1>2. PICK p \in P : \A n \in P : p <= n
  <2> HIDE DEF P
  <2> QED BY <1>1, LeastNat
<1> DEFINE I == {c.id : c \in {x \in q : GetPriority(x) = p}}
<1>3. I \in SUBSET Nat /\ I # {}
  BY DEF Command
<1>4. PICK i \in I : \A n \in I : i <= n
  <2> HIDE DEF I
  <2> QED BY <1>3, LeastNat
<1>5. PICK c \in q : GetPriority(c) = p /\ c.id = i
  OBVIOUS
<1>6. \A d \in q : p < GetPriority(d) \/ p = GetPriority(d)
  <2> TAKE d \in q
  <2>1. GetPriority(d) \in P /\ GetPriority(d) \in Nat /\ p \in Nat
    BY <1>1, PriorityType
  <2> HIDE DEF P
  <2> QED BY <1>2, <2>1
<1>7. \A d \in q : GetPriority(d) = p => c.id <= d.id
  BY <1>4, <1>5
<1>8. \A d \in q : \/ GetPriority(c) < GetPriority(d)
                   \/ GetPriority(c) = GetPriority(d) /\ c.id <= d.id
  BY <1>5, <1>6, <1>7
<1> QED BY <1>5, <1>8 DEF Top

\* An error handling command that is looked for is found unless a synchronous
\* command hides it.
LEMMA ErrorOnTop ==
    ASSUME NEW e, IsEngine(e)
    PROVE  /\ CheckForPendingErrorHandlingCmd(e) => ErrorPending(e)
           /\ ErrorPending(e) /\ ~CheckForPendingErrorHandlingCmd(e) =>
                  e.pending # {} /\ Top(e.pending).type = "sync"
<1>1. e.pending \in SUBSET Command
  BY DEF IsEngine
<1>2. CheckForPendingErrorHandlingCmd(e) => ErrorPending(e)
  BY <1>1, TopIsFirst DEF CheckForPendingErrorHandlingCmd, ErrorPending
<1>3. ASSUME ErrorPending(e), ~CheckForPendingErrorHandlingCmd(e)
      PROVE  e.pending # {} /\ Top(e.pending).type = "sync"
  <2>1. PICK d \in e.pending : d.type \in EHTypes
    BY <1>3 DEF ErrorPending
  <2> DEFINE t == Top(e.pending)
  <2>2. /\ t \in e.pending
        /\ GetPriority(t) < GetPriority(d) \/ GetPriority(t) = GetPriority(d)
    BY <1>1, <2>1, TopIsFirst
  <2>3. t \in Command /\ d \in Command
    BY <1>1, <2>1, <2>2
  <2> HIDE DEF t
  <2>4. GetPriority(t) < 3
    BY <2>1, <2>2, <2>3, PriorityType
  <2>5. t.type \in {"sync"} \cup EHTypes
    BY <2>3, <2>4, PriorityType
  <2> QED BY <1>3, <2>1, <2>2, <2>5 DEF CheckForPendingErrorHandlingCmd, t
<1> QED BY <1>2, <1>3

\* EngineCommandCompleted frees the engine for the next command.
LEMMA Completed ==
    ASSUME NEW e, IsEngine(e), NEW f,
           f = EngineCommandCompleted(e, TRUE) \/ f = EngineCommandCompleted(e, FALSE)
    PROVE  /\ IsEngine(f)
           /\ f.state = e.state /\ f.pending = e.pending /\ f.current = None
           /\ f.toCancel = e.toCancel /\ f.numCancel = e.numCancel
           /\ f.numDp = e.numDp /\ f.ctx = e.ctx /\ f.dp = e.dp
           /\ f.nextId = e.nextId /\ f.src \in {e.src, "none"}
           /\ f.answered = Answer(e.answered, e.current.id)
<1>1. CASE f = EngineCommandCompleted(e, TRUE)
  BY <1>1 DEF IsEngine, Members, EngineCommandCompleted
<1>2. CASE f = EngineCommandCompleted(e, FALSE)
  BY <1>2 DEF IsEngine, Members, EngineCommandCompleted
<1> QED BY <1>1, <1>2

\* The same, of the engine that EngineCommandCompleted returns.
LEMMA CompletedAs ==
    ASSUME NEW e, IsEngine(e), NEW r \in BOOLEAN
    PROVE  LET f == EngineCommandCompleted(e, r)
           IN  /\ IsEngine(f)
               /\ f.state = e.state /\ f.pending = e.pending /\ f.current = None
               /\ f.toCancel = e.toCancel /\ f.numCancel = e.numCancel
               /\ f.numDp = e.numDp /\ f.ctx = e.ctx /\ f.dp = e.dp
               /\ f.nextId = e.nextId /\ f.src \in {e.src, "none"}
               /\ f.answered = Answer(e.answered, e.current.id)
BY Completed

\* A command answered out of turn leaves the current one in place.
LEMMA OutOfTurn ==
    ASSUME NEW e, IsEngine(e), NEW c \in Command, NEW f, f = AnswerOutOfTurn(e, c)
    PROVE  /\ IsEngine(f)
           /\ f.state = e.state /\ f.pending = e.pending /\ f.current = e.current
           /\ f.toCancel = e.toCancel /\ f.numCancel = e.numCancel
           /\ f.numDp = e.numDp /\ f.ctx = e.ctx /\ f.dp = e.dp
           /\ f.nextId = e.nextId /\ f.src = e.src
           /\ f.answered = Answer(e.answered, c.id)
<1> DEFINE g == [e EXCEPT !.current = c]
           h == EngineCommandCompleted(g, FALSE)
<1>1. /\ IsEngine(g) /\ g.current = c
      /\ g.state = e.state /\ g.pending = e.pending
      /\ g.toCancel = e.toCancel /\ g.numCancel = e.numCancel
      /\ g.numDp = e.numDp /\ g.ctx = e.ctx /\ g.dp = e.dp
      /\ g.nextId = e.nextId /\ g.src = e.src
      /\ g.answered = e.answered /\ g.ready = e.ready
  BY DEF IsEngine, Members
<1>2. f = [h EXCEPT !.current = e.current]
  BY DEF AnswerOutOfTurn
<1> HIDE DEF g
<1>3. /\ IsEngine(h)
      /\ h.state = e.state /\ h.pending = e.pending
      /\ h.toCancel = e.toCancel /\ h.numCancel = e.numCancel
      /\ h.numDp = e.numDp /\ h.ctx = e.ctx /\ h.dp = e.dp
      /\ h.nextId = e.nextId /\ h.src = e.src
      /\ h.answered = Answer(e.answered, c.id)
  BY <1>1 DEF EngineCommandCompleted, IsEngine, Members
<1> HIDE DEF h
<1> QED BY <1>2, <1>3 DEF IsEngine, Members

\* AddCommandToQueue.
LEMMA CommandAdded ==
    ASSUME NEW e, IsEngine(e), NEW c \in Command, NEW f, f = AddCommandToQueue(e, c)
    PROVE  /\ IsEngine(f)
           /\ f.state = IF c.type \in EHTypes THEN "ERROR" ELSE e.state
           /\ f.pending = e.pending \cup {c} /\ f.current = e.current
           /\ f.toCancel = e.toCancel /\ f.numCancel = e.numCancel
           /\ f.numDp = e.numDp /\ f.ctx = e.ctx /\ f.dp = e.dp
           /\ f.nextId = e.nextId /\ f.src = e.src
           /\ f.answered = e.answered
BY DEF IsEngine, Members, AddCommandToQueue, States

\* AddErrorHandlingCmd: the error is to be handled afterwards, whether the
\* command is new or another one was found on top.
LEMMA ErrorAdded ==
    ASSUME NEW e, IsEngine(e), NEW type \in EHTypes, NEW f,
           f = AddErrorHandlingCmd(e, type)
    PROVE  /\ IsEngine(f) /\ ErrorPending(f)
           /\ f.current = e.current
           /\ f.toCancel = e.toCancel /\ f.numCancel = e.numCancel
           /\ f.numDp = e.numDp /\ f.ctx = e.ctx /\ f.dp = e.dp
           /\ f.src = e.src /\ f.answered = e.answered
           /\ \/ /\ CheckForPendingErrorHandlingCmd(e) /\ f = e
              \/ /\ ~CheckForPendingErrorHandlingCmd(e)
                 /\ f.state = "ERROR" /\ f.nextId = e.nextId + 1
                 /\ f.pending = e.pending \cup {[type |-> type, id |-> e.nextId, arg |-> -1]}
<1>1. CASE CheckForPendingErrorHandlingCmd(e)
  BY <1>1, ErrorOnTop DEF AddErrorHandlingCmd
<1>2. CASE ~CheckForPendingErrorHandlingCmd(e)
  <2> DEFINE c == [type |-> type, id |-> e.nextId, arg |-> -1]
             g == [e EXCEPT !.nextId = @ + 1]
  <2>1. c \in Command /\ c.type = type
    BY DEF IsEngine, Command
  <2>2. /\ IsEngine(g) /\ g.state = e.state /\ g.pending = e.pending
        /\ g.current = e.current
        /\ g.toCancel = e.toCancel /\ g.numCancel = e.numCancel
        /\ g.numDp = e.numDp /\ g.ctx = e.ctx /\ g.dp = e.dp
        /\ g.src = e.src /\ g.answered = e.answered /\ g.nextId = e.nextId + 1
    BY DEF IsEngine, Members
  <2>3. f = AddCommandToQueue(g, c)
    BY <1>2 DEF AddErrorHandlingCmd
  <2> HIDE DEF c, g
  <2>4. /\ IsEngine(f) /\ f.state = "ERROR" /\ f.pending = e.pending \cup {c}
        /\ f.current = e.current
        /\ f.toCancel = e.toCancel /\ f.numCancel = e.numCancel
        /\ f.numDp = e.numDp /\ f.ctx = e.ctx /\ f.dp = e.dp
        /\ f.src = e.src /\ f.answered = e.answered /\ f.nextId = e.nextId + 1
    BY <2>1, <2>2, <2>3, CommandAdded
  <2>5. ErrorPending(f)
    BY <2>1, <2>4 DEF ErrorPending
  <2> QED BY <1>2, <2>4, <2>5 DEF c
<1> QED BY <1>1, <1>2

\* Issue asks somebody for something.
LEMMA Issued ==
    ASSUME NEW e, IsEngine(e), NEW w, NEW op, [who |-> w, op |-> op] \in Context,
           NEW f, f = Issue(e, w, op)
    PROVE  /\ IsEngine(f) /\ f.ctx = e.ctx \cup {[who |-> w, op |-> op]}
           /\ f.state = e.state /\ f.pending = e.pending /\ f.current = e.current
           /\ f.toCancel = e.toCancel /\ f.numCancel = e.numCancel
           /\ f.numDp = e.numDp /\ f.dp = e.dp
           /\ f.nextId = e.nextId /\ f.src = e.src
           /\ f.answered = e.answered /\ f.ready = e.ready
BY DEF IsEngine, Members, Issue

\* IssueToAll asks every datapath, and counts them.
LEMMA IssuedToAll ==
    ASSUME NEW e, IsEngine(e), NEW op \in Asked, NEW f, f = IssueToAll(e, op)
    PROVE  /\ IsEngine(f)
           /\ f.ctx = e.ctx \cup {[who |-> d, op |-> op] : d \in Datapaths}
           /\ f.numDp = Cardinality(Datapaths)
           /\ f.state = e.state /\ f.pending = e.pending /\ f.current = e.current
           /\ f.toCancel = e.toCancel /\ f.numCancel = e.numCancel
           /\ f.dp = e.dp /\ f.nextId = e.nextId /\ f.src = e.src
           /\ f.answered = e.answered /\ f.ready = e.ready
<1>1. Cardinality(Datapaths) \in Int
  BY DatapathsAssumption, FS_CardinalityType
<1>2. {[who |-> d, op |-> op] : d \in Datapaths} \subseteq Context
  BY DEF Context, Asked
<1> DEFINE C == {[who |-> d, op |-> op] : d \in Datapaths}
<1>3. f = [e EXCEPT !.ctx = @ \cup C, !.numDp = Cardinality(Datapaths)]
  BY DEF IssueToAll
<1> HIDE DEF C
<1>4. C \subseteq Context
  BY <1>2 DEF C
<1>5. /\ IsEngine(f)
      /\ f.ctx = e.ctx \cup C
      /\ f.numDp = Cardinality(Datapaths)
      /\ f.state = e.state /\ f.pending = e.pending /\ f.current = e.current
      /\ f.toCancel = e.toCancel /\ f.numCancel = e.numCancel
      /\ f.dp = e.dp /\ f.nextId = e.nextId /\ f.src = e.src
      /\ f.answered = e.answered /\ f.ready = e.ready
  BY <1>1, <1>3, <1>4 DEF IsEngine, Members
<1> QED BY <1>5 DEF C

\* What IssueToAll asks for.
LEMMA ContextsOfAll ==
    ASSUME NEW op \in Asked
    PROVE  LET C == {[who |-> d, op |-> op] : d \in Datapaths}
           IN  /\ OneEach(C) /\ Cardinality(C) = Cardinality(Datapaths)
               /\ \A c \in C : c.who # Src /\ c.op = op
               /\ Datapaths # {} => C # {}
<1> DEFINE C == {[who |-> d, op |-> op] : d \in Datapaths}
<1>1. C \subseteq Context
  BY DEF Context, Asked
<1>2. \A x \in C : x.who \in Datapaths /\ x.op = op
  OBVIOUS
<1>3. \A d \in Datapaths : [who |-> d, op |-> op] \in C
  OBVIOUS
<1>4. \A x, y \in C : x.who = y.who => x = y
  OBVIOUS
<1> HIDE DEF C
<1>5. \A d \in Datapaths : \E x \in C : x.who = d
  BY <1>3
<1>6. Datapaths # {} => C # {}
  BY <1>3
<1>7. OneEach(C) /\ Cardinality(C) = Cardinality(Datapaths) /\ \A c \in C : c.who # Src
  BY <1>1, <1>2, <1>4, <1>5, ContextsFor
<1> QED BY <1>2, <1>6, <1>7 DEF C

\* ResetSource.
LEMMA SourceAsked ==
    ASSUME NEW e, IsEngine(e), NEW f, f = ResetSource(e)
    PROVE  /\ IsEngine(f) /\ f.ctx = e.ctx \cup {[who |-> Src, op |-> "SrcReset"]}
           /\ f.state = "RESETTING" /\ f.pending = e.pending /\ f.current = e.current
           /\ f.toCancel = e.toCancel /\ f.numCancel = e.numCancel
           /\ f.numDp = e.numDp /\ f.dp = e.dp
           /\ f.nextId = e.nextId /\ f.src = e.src
           /\ f.answered = e.answered /\ f.ready = e.ready
<1> DEFINE g == [e EXCEPT !.state = "RESETTING"]
<1>1. [who |-> Src, op |-> "SrcReset"] \in Context
  BY DEF Context
<1>2. /\ IsEngine(g) /\ g.ctx = e.ctx
      /\ g.state = "RESETTING" /\ g.pending = e.pending /\ g.current = e.current
      /\ g.toCancel = e.toCancel /\ g.numCancel = e.numCancel
      /\ g.numDp = e.numDp /\ g.dp = e.dp
      /\ g.nextId = e.nextId /\ g.src = e.src
      /\ g.answered = e.answered /\ g.ready = e.ready
  BY DEF IsEngine, Members, States
<1>3. f = Issue(g, Src, "SrcReset")
  BY DEF ResetSource
<1> HIDE DEF g
<1> QED BY <1>1, <1>2, <1>3, Issued

\* FreeEngineContext takes one context away.
LEMMA Freed ==
    ASSUME NEW e, IsEngine(e), NEW c, NEW f, f = FreeEngineContext(e, c)
    PROVE  /\ IsEngine(f) /\ f.ctx = e.ctx \ {c}
           /\ f.state = e.state /\ f.pending = e.pending /\ f.current = e.current
           /\ f.toCancel = e.toCancel /\ f.numCancel = e.numCancel
           /\ f.numDp = e.numDp /\ f.dp = e.dp
           /\ f.nextId = e.nextId /\ f.src = e.src
           /\ f.answered = e.answered /\ f.ready = e.ready
BY DEF IsEngine, Members, FreeEngineContext

\* Counting down the datapaths.
LEMMA CountedDown ==
    ASSUME NEW e, IsEngine(e), NEW f, f = [e EXCEPT !.numDp = @ - 1]
    PROVE  /\ IsEngine(f) /\ f.numDp = e.numDp - 1
           /\ f.state = e.state /\ f.pending = e.pending /\ f.current = e.current
           /\ f.toCancel = e.toCancel /\ f.numCancel = e.numCancel
           /\ f.ctx = e.ctx /\ f.dp = e.dp
           /\ f.nextId = e.nextId /\ f.src = e.src
           /\ f.answered = e.answered /\ f.ready = e.ready
BY DEF IsEngine, Members

\* The engine becomes idle and is scheduled.
LEMMA Idled ==
    ASSUME NEW e, IsEngine(e), NEW f, f = ToIdle(e)
    PROVE  /\ IsEngine(f) /\ f.state = "IDLE"
           /\ f.pending = e.pending /\ f.current = e.current
           /\ f.toCancel = e.toCancel /\ f.numCancel = e.numCancel
           /\ f.numDp = e.numDp /\ f.ctx = e.ctx /\ f.dp = e.dp
           /\ f.nextId = e.nextId /\ f.src = e.src /\ f.answered = e.answered
BY DEF IsEngine, Members, ToIdle, States, Quiet

-----------------------------------------------------------------------------
(***************************************************************************)
(* The answers of the datapaths.                                           *)
(***************************************************************************)

\* Cancels are under way only in RESETTING.
LEMMA CancelState ==
    ASSUME NEW e, NEW K, IsEngine(e), Phases(e, K)
    PROVE  /\ e.state # "RESETTING" => NoCancel(e, K)
           /\ e.toCancel # None => e.state = "RESETTING" /\ K # {}
BY DEF Phases, IsEngine, States, Quiet, QuietPhase, WorkingPhase, ErrorPhase,
       ResetPhase, NoCancel

\* HandleDatapathPause and HandleDatapathStop: the datapath phase goes on, the
\* last answer hands over to the source node, a failure to error handling.
LEMMA PauseOrStopAnswered ==
    ASSUME NEW e, NEW K, IsEngine(e), Phases(e, K), NEW c \in e.ctx,
           c.who \in Datapaths, NEW ok \in BOOLEAN, NEW srcOp \in {"SrcPause", "SrcStop"},
           e.state \in {"PAUSING", "STOPPING"}, NEW f,
           f = FreeEngineContext(HandleDatapathPauseOrStop(e, srcOp, ok), c)
    PROVE  IsEngine(f) /\ Phases(f, K)
<1> DEFINE g == [e EXCEPT !.numDp = @ - 1]
<1>1. /\ IsEngine(g) /\ g.numDp = e.numDp - 1
      /\ g.state = e.state /\ g.pending = e.pending /\ g.current = e.current
      /\ g.toCancel = e.toCancel /\ g.numCancel = e.numCancel
      /\ g.ctx = e.ctx /\ g.dp = e.dp /\ g.src = e.src
  BY CountedDown
<1>2. f = FreeEngineContext(IF ~ok THEN AddErrorHandlingCmd(g, "ehCommand")
                            ELSE IF g.numDp = 0 THEN Issue(g, Src, srcOp) ELSE g, c)
  BY DEF HandleDatapathPauseOrStop
<1> HIDE DEF g
<1> DEFINE type == IF e.state = "PAUSING" THEN "pause" ELSE "stop"
           ops == IF e.state = "PAUSING" THEN {"DPPause"}
                  ELSE {"DPStop", "DPTeardown", "DPReset"}
<1>3. WorkingPhase(e, K, type, ops) /\ OneEach(e.ctx)
  BY DEF Phases
<1>4. DatapathsOnly(e) /\ NoCancel(e, K) /\ ~ErrorPending(e) /\ e.current.type = type
      /\ Ops(e) \subseteq ops /\ e.numDp = Cardinality(e.ctx)
  BY <1>3, DatapathsAssumption DEF WorkingPhase, OneEach, DatapathsOnly
<1>5. /\ OneEach(e.ctx \ {c}) /\ Cardinality(e.ctx) \in Nat
      /\ Cardinality(e.ctx \ {c}) = Cardinality(e.ctx) - 1
      /\ Cardinality(e.ctx) = 1 => e.ctx = {c}
  BY <1>3, ContextGone
<1>6. ASSUME ~ok PROVE IsEngine(f) /\ Phases(f, K)
  <2> DEFINE h == AddErrorHandlingCmd(g, "ehCommand")
  <2>1. ~CheckForPendingErrorHandlingCmd(g)
    BY <1>1, <1>4, ErrorOnTop DEF ErrorPending
  <2>2. /\ IsEngine(h) /\ ErrorPending(h) /\ h.state = "ERROR"
        /\ h.toCancel = e.toCancel /\ h.numCancel = e.numCancel
        /\ h.numDp = e.numDp - 1 /\ h.ctx = e.ctx
    BY <1>1, <2>1, ErrorAdded DEF EHTypes
  <2>3. f = FreeEngineContext(h, c)
    BY <1>2, <1>6
  <2> HIDE DEF h
  <2>4. /\ IsEngine(f) /\ ErrorPending(f) /\ f.state = "ERROR"
        /\ f.toCancel = e.toCancel /\ f.numCancel = e.numCancel
        /\ f.numDp = e.numDp - 1 /\ f.ctx = e.ctx \ {c}
    BY <2>2, <2>3, Freed DEF ErrorPending
  <2>5. DatapathsOnly(f) /\ Ops(f) \subseteq Asked
    BY <1>4, <2>4 DEF DatapathsOnly, Ops, Asked
  <2>6. ErrorPhase(f, K)
    BY <1>4, <1>5, <2>4, <2>5 DEF ErrorPhase, NoCancel
  <2> QED BY <1>5, <2>4, <2>6 DEF Phases, Quiet
<1>7. ASSUME ok, g.numDp = 0 PROVE IsEngine(f) /\ Phases(f, K)
  <2> DEFINE h == Issue(g, Src, srcOp)
             s == [who |-> Src, op |-> srcOp]
  <2>1. s \in Context /\ s.who = Src /\ s # c
    BY DatapathsAssumption DEF Context
  <2>2. /\ IsEngine(h) /\ h.ctx = e.ctx \cup {s}
        /\ h.state = e.state /\ h.pending = e.pending /\ h.current = e.current
        /\ h.toCancel = e.toCancel /\ h.numCancel = e.numCancel
    BY <1>1, <2>1, Issued
  <2>3. f = FreeEngineContext(h, c)
    BY <1>2, <1>7
  <2> HIDE DEF h, s
  <2>4. /\ IsEngine(f) /\ f.ctx = (e.ctx \cup {s}) \ {c}
        /\ f.state = e.state /\ f.pending = e.pending /\ f.current = e.current
        /\ f.toCancel = e.toCancel /\ f.numCancel = e.numCancel
    BY <2>2, <2>3, Freed
  <2>5. f.ctx = {s}
    <3>1. Cardinality(e.ctx) = 1
      BY <1>1, <1>4, <1>5, <1>7
    <3> QED BY <1>5, <2>1, <2>4, <3>1
  <2>6. OneEach(f.ctx)
    BY <2>5, ContextAlone
  <2>7. Ops(f) = {} /\ ~DatapathsOnly(f)
    BY <2>1, <2>5 DEF Ops, DatapathsOnly
  <2>8. WorkingPhase(f, K, type, ops)
    BY <1>4, <2>4, <2>5, <2>7 DEF WorkingPhase, NoCancel, ErrorPending
  <2> QED BY <2>4, <2>6, <2>8 DEF Phases, Quiet
<1>8. ASSUME ok, g.numDp # 0 PROVE IsEngine(f) /\ Phases(f, K)
  <2>1. f = FreeEngineContext(g, c)
    BY <1>2, <1>8
  <2>2. /\ IsEngine(f) /\ f.ctx = e.ctx \ {c} /\ f.numDp = e.numDp - 1
        /\ f.state = e.state /\ f.pending = e.pending /\ f.current = e.current
        /\ f.toCancel = e.toCancel /\ f.numCancel = e.numCancel
    BY <1>1, <2>1, Freed
  <2>3. f.ctx # {}
    <3> SUFFICES ASSUME e.ctx = {c} PROVE FALSE
      BY <2>2
    <3> QED BY <1>1, <1>4, <1>8, ContextAlone
  <2>4. Ops(f) \subseteq ops
    BY <1>4, <2>2 DEF Ops
  <2>5. WorkingPhase(f, K, type, ops)
    BY <1>4, <1>5, <2>2, <2>3, <2>4 DEF WorkingPhase, NoCancel, ErrorPending
  <2> QED BY <1>5, <2>2, <2>5 DEF Phases, Quiet
<1> QED BY <1>6, <1>7, <1>8

\* HandleDatapathTeardown: the datapath is reset next.
LEMMA TeardownAnswered ==
    ASSUME NEW e, NEW K, IsEngine(e), Phases(e, K), NEW c \in e.ctx,
           c.who \in Datapaths, NEW ok \in BOOLEAN, e.state = "STOPPING",
           c.op = "DPTeardown",
           NEW f, f = FreeEngineContext(HandleDatapathTeardown(e, c.who, ok), c)
    PROVE  IsEngine(f) /\ Phases(f, K)
<1> DEFINE ops == {"DPStop", "DPTeardown", "DPReset"}
<1>3. WorkingPhase(e, K, "stop", ops) /\ OneEach(e.ctx)
  BY DEF Phases
<1>4. DatapathsOnly(e) /\ NoCancel(e, K) /\ ~ErrorPending(e) /\ e.current.type = "stop"
      /\ Ops(e) \subseteq ops /\ e.numDp = Cardinality(e.ctx)
  BY <1>3, DatapathsAssumption DEF WorkingPhase, OneEach, DatapathsOnly
<1>5. /\ OneEach(e.ctx \ {c}) /\ Cardinality(e.ctx) \in Nat
      /\ Cardinality(e.ctx \ {c}) = Cardinality(e.ctx) - 1
      /\ c.who \notin {d.who : d \in e.ctx \ {c}}
  BY <1>3, ContextGone
<1>6. ASSUME ~ok PROVE IsEngine(f) /\ Phases(f, K)
  <2> DEFINE h == AddErrorHandlingCmd(e, "ehCommand")
  <2>1. ~CheckForPendingErrorHandlingCmd(e)
    BY <1>4, ErrorOnTop DEF ErrorPending
  <2>2. /\ IsEngine(h) /\ ErrorPending(h) /\ h.state = "ERROR"
        /\ h.toCancel = e.toCancel /\ h.numCancel = e.numCancel
        /\ h.numDp = e.numDp /\ h.ctx = e.ctx
    BY <2>1, ErrorAdded DEF EHTypes
  <2>3. f = FreeEngineContext(h, c)
    BY <1>6 DEF HandleDatapathTeardown
  <2> HIDE DEF h
  <2>4. /\ IsEngine(f) /\ ErrorPending(f) /\ f.state = "ERROR"
        /\ f.toCancel = e.toCancel /\ f.numCancel = e.numCancel
        /\ f.numDp = e.numDp /\ f.ctx = e.ctx \ {c}
    BY <2>2, <2>3, Freed DEF ErrorPending
  <2>5. DatapathsOnly(f) /\ Ops(f) \subseteq Asked
    BY <1>4, <2>4 DEF DatapathsOnly, Ops, Asked
  <2>6. ErrorPhase(f, K)
    BY <1>4, <1>5, <2>4, <2>5 DEF ErrorPhase, NoCancel
  <2> QED BY <1>5, <2>4, <2>6 DEF Phases, Quiet
<1>7. ASSUME ok PROVE IsEngine(f) /\ Phases(f, K)
  <2> DEFINE h == Issue(e, c.who, "DPReset")
             r == [who |-> c.who, op |-> "DPReset"]
  <2>1. r \in Context /\ r.who = c.who /\ r.op = "DPReset" /\ r # c
    BY DEF Context
  <2>2. /\ IsEngine(h) /\ h.ctx = e.ctx \cup {r} /\ h.numDp = e.numDp
        /\ h.state = e.state /\ h.pending = e.pending /\ h.current = e.current
        /\ h.toCancel = e.toCancel /\ h.numCancel = e.numCancel
    BY <2>1, Issued
  <2>3. f = FreeEngineContext(h, c)
    BY <1>7 DEF HandleDatapathTeardown
  <2> HIDE DEF h, r
  <2>4. /\ IsEngine(f) /\ f.ctx = (e.ctx \cup {r}) \ {c} /\ f.numDp = e.numDp
        /\ f.state = e.state /\ f.pending = e.pending /\ f.current = e.current
        /\ f.toCancel = e.toCancel /\ f.numCancel = e.numCancel
    BY <2>2, <2>3, Freed
  <2>5. f.ctx = (e.ctx \ {c}) \cup {r} /\ r \notin e.ctx \ {c}
    BY <1>5, <2>1, <2>4
  <2>6. IsFiniteSet(f.ctx) /\ Cardinality(f.ctx) = Cardinality(e.ctx)
    <3>1. IsFiniteSet(e.ctx \ {c})
      BY <1>5 DEF OneEach
    <3>2. /\ IsFiniteSet(f.ctx)
          /\ Cardinality(f.ctx) = Cardinality(e.ctx \ {c}) + 1
      BY <2>5, <3>1, FS_AddElement
    <3> QED BY <1>5, <3>2
  <2>7. DatapathsOnly(f)
    BY <1>4, <2>1, <2>5, DatapathsAssumption DEF DatapathsOnly
  <2>8. OneEach(f.ctx)
    <3>1. \A x, y \in f.ctx : x.who = y.who => x = y
      BY <1>5, <2>1, <2>5 DEF OneEach
    <3> QED BY <2>6, <2>7, <3>1 DEF OneEach, DatapathsOnly
  <2>9. Ops(f) \subseteq ops
    BY <1>4, <2>1, <2>5 DEF Ops
  <2>10. WorkingPhase(f, K, "stop", ops)
    BY <1>4, <2>4, <2>5, <2>6, <2>9 DEF WorkingPhase, NoCancel, ErrorPending
  <2> QED BY <2>4, <2>8, <2>10 DEF Phases, Quiet
<1> QED BY <1>6, <1>7

\* One reset less to wait for, and the datapath is down.
LEMMA CountedDownReset ==
    ASSUME NEW e, IsEngine(e), NEW d \in Datapaths,
           NEW f, f = DatapathDown(e, d)
    PROVE  /\ IsEngine(f) /\ f.numDp = e.numDp - 1
           /\ f.dp[d] = "down" /\ \A x \in Datapaths \ {d} : f.dp[x] = e.dp[x]
           /\ f.state = e.state /\ f.pending = e.pending /\ f.current = e.current
           /\ f.toCancel = e.toCancel /\ f.numCancel = e.numCancel
           /\ f.ctx = e.ctx /\ f.nextId = e.nextId /\ f.src = e.src
           /\ f.answered = e.answered /\ f.ready = e.ready
<1> DEFINE p == [e.dp EXCEPT ![d] = "down"]
<1>1. /\ p \in [Datapaths -> {"none", "down", "idle", "active"}]
      /\ p[d] = "down" /\ \A x \in Datapaths \ {d} : p[x] = e.dp[x]
  BY DEF IsEngine
<1>2. f = [e EXCEPT !.numDp = @ - 1, !.dp = p]
  BY DEF DatapathDown
<1> HIDE DEF p
<1> QED BY <1>1, <1>2 DEF IsEngine, Members

\* The engine's state alone.
LEMMA StateSet ==
    ASSUME NEW e, IsEngine(e), NEW s \in States, NEW f, f = [e EXCEPT !.state = s]
    PROVE  /\ IsEngine(f) /\ f.state = s
           /\ f.pending = e.pending /\ f.current = e.current
           /\ f.toCancel = e.toCancel /\ f.numCancel = e.numCancel
           /\ f.numDp = e.numDp /\ f.ctx = e.ctx /\ f.dp = e.dp
           /\ f.nextId = e.nextId /\ f.src = e.src
           /\ f.answered = e.answered /\ f.ready = e.ready
BY DEF IsEngine, Members

\* HandleDatapathReset: the last reset ends the stop or the reset; one that
\* comes while an error's cancels are under way is never the last.
LEMMA ResetAnswered ==
    ASSUME NEW e, NEW K, IsEngine(e), Phases(e, K), NEW c \in e.ctx,
           c.who \in Datapaths, c.who \notin K, e.state \in {"STOPPING", "RESETTING"},
           e.toCancel = None, NEW f, f = FreeEngineContext(HandleDatapathReset(e, c.who), c)
    PROVE  IsEngine(f) /\ Phases(f, K)
<1> DEFINE g == DatapathDown(e, c.who)
<1>1. /\ IsEngine(g) /\ g.numDp = e.numDp - 1
      /\ g.dp[c.who] = "down" /\ \A x \in Datapaths \ {c.who} : g.dp[x] = e.dp[x]
      /\ g.state = e.state /\ g.pending = e.pending /\ g.current = e.current
      /\ g.toCancel = e.toCancel /\ g.numCancel = e.numCancel
      /\ g.ctx = e.ctx /\ g.src = e.src
  BY CountedDownReset
<1>2. f = FreeEngineContext(
             IF g.numDp # 0 THEN g
             ELSE IF g.state = "RESETTING" THEN ToIdle(g)
             ELSE EngineCommandCompleted([g EXCEPT !.state = "INITIALIZED"], FALSE), c)
  BY DEF HandleDatapathReset
<1> HIDE DEF g
<1>3. OneEach(e.ctx)
  BY DEF Phases
<1>4. DatapathsOnly(e)
  BY <1>3, DatapathsAssumption DEF OneEach, DatapathsOnly
<1>5. /\ OneEach(e.ctx \ {c}) /\ Cardinality(e.ctx) \in Nat
      /\ Cardinality(e.ctx \ {c}) = Cardinality(e.ctx) - 1
      /\ Cardinality(e.ctx) = 1 => e.ctx = {c}
      /\ c.who \notin {d.who : d \in e.ctx \ {c}}
  BY <1>3, ContextGone
<1>6. ASSUME NEW h, IsEngine(h), h.ctx = e.ctx, f = FreeEngineContext(h, c)
      PROVE  /\ IsEngine(f) /\ f.ctx = e.ctx \ {c} /\ f.numDp = h.numDp
             /\ f.state = h.state /\ f.pending = h.pending /\ f.current = h.current
             /\ f.toCancel = h.toCancel /\ f.numCancel = h.numCancel
             /\ f.src = h.src /\ f.dp = h.dp
  BY <1>6, Freed
<1>7. CASE e.state = "STOPPING"
  <2> DEFINE ops == {"DPStop", "DPTeardown", "DPReset"}
  <2>1. /\ WorkingPhase(e, K, "stop", ops)
        /\ NoCancel(e, K) /\ ~ErrorPending(e) /\ e.current.type = "stop"
        /\ Ops(e) \subseteq ops /\ e.numDp = Cardinality(e.ctx)
    BY <1>4, <1>7 DEF Phases, WorkingPhase
  <2>2. CASE g.numDp # 0
    <3>1. f = FreeEngineContext(g, c)
      BY <1>2, <2>2
    <3>2. /\ IsEngine(f) /\ f.ctx = e.ctx \ {c} /\ f.numDp = e.numDp - 1
          /\ f.state = e.state /\ f.pending = e.pending /\ f.current = e.current
          /\ f.toCancel = e.toCancel /\ f.numCancel = e.numCancel
      BY <1>1, <1>6, <3>1
    <3>3. f.ctx # {}
      <4> SUFFICES ASSUME e.ctx = {c} PROVE FALSE
        BY <3>2
      <4>1. Cardinality(e.ctx) = 1
        BY ContextAlone
      <4> QED BY <1>1, <2>1, <2>2, <4>1
    <3>4. Ops(f) \subseteq ops
      BY <2>1, <3>2 DEF Ops
    <3>5. WorkingPhase(f, K, "stop", ops)
      BY <1>5, <2>1, <3>2, <3>3, <3>4 DEF WorkingPhase, NoCancel, ErrorPending
    <3> QED BY <1>5, <1>7, <3>2, <3>5 DEF Phases, Quiet
  <2>3. CASE g.numDp = 0
    <3> DEFINE i == [g EXCEPT !.state = "INITIALIZED"]
               h == EngineCommandCompleted(i, FALSE)
    <3>1. /\ IsEngine(i) /\ i.state = "INITIALIZED" /\ i.pending = e.pending
          /\ i.toCancel = e.toCancel /\ i.numCancel = e.numCancel /\ i.ctx = e.ctx
      BY <1>1, StateSet DEF States, Quiet
    <3>2. f = FreeEngineContext(h, c)
      BY <1>1, <1>2, <1>7, <2>3
    <3> HIDE DEF i
    <3>3. /\ IsEngine(h) /\ h.state = "INITIALIZED" /\ h.pending = e.pending
          /\ h.current = None
          /\ h.toCancel = e.toCancel /\ h.numCancel = e.numCancel /\ h.ctx = e.ctx
      BY <3>1, CompletedAs
    <3> HIDE DEF h
    <3>4. /\ IsEngine(f) /\ f.state = "INITIALIZED" /\ f.pending = e.pending
          /\ f.current = None /\ f.ctx = e.ctx \ {c}
          /\ f.toCancel = e.toCancel /\ f.numCancel = e.numCancel
      BY <1>6, <3>2, <3>3
    <3>5. Cardinality(e.ctx) = 1
      BY <1>1, <1>5, <2>1, <2>3
    <3>6. f.ctx = {}
      BY <1>5, <3>4, <3>5
    <3>7. QuietPhase(f, K)
      BY <2>1, <3>4, <3>6 DEF QuietPhase, NoCancel, ErrorPending, None
    <3> QED BY <3>4, <3>6, <3>7, NoContext DEF Phases, Quiet
  <2> QED BY <2>2, <2>3
<1>8. CASE e.state = "RESETTING" /\ K = {}
  <2>1. /\ ResetPhase(e, K)
        /\ NoCancel(e, K) /\ (ErrorPending(e) \/ e.current.type \in ResetTypes)
        /\ e.src # "active"
        /\ Ops(e) \subseteq {"DPReset", "DecReset", "SinkReset"}
        /\ e.numDp = Cardinality(e.ctx)
        /\ \A x \in e.ctx : x.op = "DecReset" => e.dp[x.who] \in {"active", "idle"}
    BY <1>4, <1>8 DEF Phases, ResetPhase
  <2>2. CASE g.numDp # 0
    <3>1. f = FreeEngineContext(g, c)
      BY <1>2, <2>2
    <3>2. /\ IsEngine(f) /\ f.ctx = e.ctx \ {c} /\ f.numDp = e.numDp - 1
          /\ f.state = e.state /\ f.pending = e.pending /\ f.current = e.current
          /\ f.toCancel = e.toCancel /\ f.numCancel = e.numCancel
          /\ f.src = e.src /\ f.dp = g.dp
      BY <1>1, <1>6, <3>1
    <3>3. f.ctx # {}
      <4> SUFFICES ASSUME e.ctx = {c} PROVE FALSE
        BY <3>2
      <4>1. Cardinality(e.ctx) = 1
        BY ContextAlone
      <4> QED BY <1>1, <2>1, <2>2, <4>1
    <3>4. Ops(f) \subseteq {"DPReset", "DecReset", "SinkReset"}
      BY <2>1, <3>2 DEF Ops
    <3>5. \A x \in f.ctx : x.op = "DecReset" => f.dp[x.who] \in {"active", "idle"}
      <4> TAKE x \in f.ctx
      <4> HAVE x.op = "DecReset"
      <4>1. x \in e.ctx /\ x.who # c.who
        BY <1>5, <3>2
      <4>2. x.who \in Datapaths
        BY <1>4, <4>1 DEF DatapathsOnly, IsEngine, Context
      <4> QED BY <1>1, <2>1, <3>2, <4>1, <4>2
    <3>6. ResetPhase(f, K)
      BY <1>5, <2>1, <3>2, <3>3, <3>4, <3>5 DEF ResetPhase, NoCancel
    <3> QED BY <1>5, <1>8, <2>1, <3>2, <3>6 DEF Phases, Quiet, ErrorPending
  <2>3. CASE g.numDp = 0
    <3> DEFINE h == ToIdle(g)
    <3>1. f = FreeEngineContext(h, c)
      BY <1>1, <1>2, <1>8, <2>3
    <3>2. /\ IsEngine(h) /\ h.state = "IDLE" /\ h.pending = e.pending
          /\ h.current = e.current /\ h.src = e.src
          /\ h.toCancel = e.toCancel /\ h.numCancel = e.numCancel /\ h.ctx = e.ctx
      BY <1>1, Idled
    <3> HIDE DEF h
    <3>4. /\ IsEngine(f) /\ f.state = "IDLE" /\ f.pending = e.pending
          /\ f.current = e.current /\ f.ctx = e.ctx \ {c} /\ f.src = e.src
          /\ f.toCancel = e.toCancel /\ f.numCancel = e.numCancel
      BY <1>6, <3>1, <3>2
    <3>5. Cardinality(e.ctx) = 1
      BY <1>1, <1>5, <2>1, <2>3
    <3>6. f.ctx = {}
      BY <1>5, <3>4, <3>5
    <3>7. QuietPhase(f, K)
      BY <2>1, <3>4, <3>6 DEF QuietPhase, NoCancel, ErrorPending
    <3> QED BY <3>4, <3>6, <3>7, NoContext DEF Phases, Quiet
  <2> QED BY <2>2, <2>3
<1>9. CASE e.state = "RESETTING" /\ K # {}
  <2>1. /\ CancelPhase(e, K) /\ (ErrorPending(e) \/ e.current.type \in ResetTypes)
        /\ IsFiniteSet(K) /\ e.numCancel = Cardinality(K) /\ Ops(e) \subseteq Asked
        /\ \A x \in e.ctx : x.who = Src => K = {Src}
        /\ ErrorPending(e) /\ K \subseteq Whos(e) /\ e.numDp >= Cardinality(e.ctx)
    BY <1>9 DEF Phases, CancelPhase
  <2>2. Cardinality(e.ctx) # 1
    BY <1>5, <1>9, <2>1 DEF Whos
  <2>3. Cardinality(e.ctx) # 0
    BY <1>3, ContextGone
  <2>4. g.numDp # 0
    BY <1>1, <1>5, <2>1, <2>2, <2>3 DEF IsEngine
  <2>5. f = FreeEngineContext(g, c)
    BY <1>2, <2>4
  <2>6. /\ IsEngine(f) /\ f.ctx = e.ctx \ {c} /\ f.numDp = e.numDp - 1
        /\ f.state = e.state /\ f.pending = e.pending /\ f.current = e.current
        /\ f.toCancel = e.toCancel /\ f.numCancel = e.numCancel
    BY <1>1, <1>6, <2>5
  <2>7. Ops(f) \subseteq Asked /\ DatapathsOnly(f)
    BY <1>4, <2>1, <2>6 DEF Ops, DatapathsOnly
  <2>8. K \subseteq Whos(f)
    BY <2>1, <2>6 DEF Whos
  <2>9. f.numDp >= Cardinality(f.ctx)
    BY <1>5, <2>1, <2>6 DEF IsEngine
  <2>10. CancelPhase(f, K)
    BY <2>1, <2>6, <2>7, <2>8, <2>9 DEF CancelPhase, ErrorPending
  <2> QED BY <1>5, <1>9, <2>1, <2>6, <2>10 DEF Phases, Quiet, ErrorPending
<1> QED BY <1>7, <1>8, <1>9

\* An answer that is ignored: an error waits to be handled, or cancels are
\* under way.
LEMMA AnswerIgnored ==
    ASSUME NEW e, NEW K, IsEngine(e), Phases(e, K), NEW c \in e.ctx,
           \/ e.state = "ERROR"
           \/ e.state = "RESETTING" /\ K # {} /\ (e.toCancel = None => c.who \notin K),
           NEW f, f = FreeEngineContext(e, c)
    PROVE  IsEngine(f) /\ Phases(f, K)
<1>1. /\ IsEngine(f) /\ f.ctx = e.ctx \ {c} /\ f.numDp = e.numDp
      /\ f.state = e.state /\ f.pending = e.pending /\ f.current = e.current
      /\ f.toCancel = e.toCancel /\ f.numCancel = e.numCancel
  BY Freed
<1>2. /\ OneEach(e.ctx \ {c}) /\ Cardinality(e.ctx) \in Nat
      /\ Cardinality(e.ctx \ {c}) = Cardinality(e.ctx) - 1
  BY ContextGone DEF Phases
<1>3. /\ ErrorPending(e) <=> ErrorPending(f)
      /\ DatapathsOnly(e) => DatapathsOnly(f)
      /\ Ops(f) \subseteq Ops(e)
  BY <1>1 DEF ErrorPending, DatapathsOnly, Ops
<1>4. e.numDp >= Cardinality(e.ctx) => f.numDp >= Cardinality(f.ctx)
  BY <1>1, <1>2 DEF IsEngine
<1>5. CASE e.state = "ERROR"
  <2>1. ErrorPhase(e, K)
    BY <1>5 DEF Phases
  <2>2. ErrorPhase(f, K)
    BY <1>1, <1>3, <1>4, <2>1 DEF ErrorPhase, NoCancel
  <2> QED BY <1>1, <1>2, <1>5, <2>2 DEF Phases, Quiet
<1>6. CASE e.state = "RESETTING" /\ K # {} /\ (e.toCancel = None => c.who \notin K)
  <2>1. CancelPhase(e, K) /\ (ErrorPending(e) \/ e.current.type \in ResetTypes)
    BY <1>6 DEF Phases
  <2>2. ASSUME e.toCancel = None PROVE K \subseteq Whos(f)
    <3>1. K \subseteq Whos(e) /\ c.who \notin K
      BY <1>6, <2>1, <2>2 DEF CancelPhase
    <3> QED BY <1>1, <3>1 DEF Whos
  <2>3. CancelPhase(f, K)
    BY <1>1, <1>3, <1>4, <2>1, <2>2 DEF CancelPhase
  <2> QED BY <1>1, <1>2, <1>3, <1>6, <2>1, <2>3 DEF Phases, Quiet
<1> QED BY <1>5, <1>6

\* The state of a datapath that has no decoder to reset does not matter to
\* the phase.
LEMMA DatapathMarked ==
    ASSUME NEW e, NEW K, IsEngine(e), Phases(e, K), NEW c \in e.ctx,
           c.who \in Datapaths, c.op \in Asked,
           NEW f, f = [e EXCEPT !.dp[c.who] = IF c.op = "DPReset" THEN "idle" ELSE @]
    PROVE  /\ IsEngine(f) /\ Phases(f, K)
           /\ f.state = e.state /\ f.ctx = e.ctx /\ f.toCancel = e.toCancel
           /\ f.pending = e.pending /\ f.current = e.current
           /\ f.nextId = e.nextId /\ f.answered = e.answered /\ f.ready = e.ready
<1> DEFINE p == [e.dp EXCEPT ![c.who] = IF c.op = "DPReset" THEN "idle" ELSE @]
<1>1. /\ p \in [Datapaths -> {"none", "down", "idle", "active"}]
      /\ \A x \in Datapaths \ {c.who} : p[x] = e.dp[x]
  BY DEF IsEngine
<1>2. f = [e EXCEPT !.dp = p]
  OBVIOUS
<1> HIDE DEF p
<1>3. /\ IsEngine(f) /\ f.dp = p
      /\ f.state = e.state /\ f.pending = e.pending /\ f.current = e.current
      /\ f.toCancel = e.toCancel /\ f.numCancel = e.numCancel
      /\ f.numDp = e.numDp /\ f.ctx = e.ctx /\ f.src = e.src
      /\ f.nextId = e.nextId /\ f.answered = e.answered /\ f.ready = e.ready
  BY <1>1, <1>2 DEF IsEngine, Members
<1>4. /\ ErrorPending(f) <=> ErrorPending(e)
      /\ DatapathsOnly(f) <=> DatapathsOnly(e)
      /\ Ops(f) = Ops(e) /\ Whos(f) = Whos(e)
      /\ NoCancel(f, K) <=> NoCancel(e, K)
  BY <1>3 DEF ErrorPending, DatapathsOnly, Ops, Whos, NoCancel
<1>5. /\ QuietPhase(e, K) => QuietPhase(f, K)
      /\ WorkingPhase(e, K, "pause", {"DPPause"}) => WorkingPhase(f, K, "pause", {"DPPause"})
      /\ WorkingPhase(e, K, "stop", {"DPStop", "DPTeardown", "DPReset"}) =>
             WorkingPhase(f, K, "stop", {"DPStop", "DPTeardown", "DPReset"})
      /\ ErrorPhase(e, K) => ErrorPhase(f, K)
      /\ CancelPhase(e, K) => CancelPhase(f, K)
  BY <1>3, <1>4 DEF QuietPhase, WorkingPhase, ErrorPhase, CancelPhase
<1>6. ASSUME ResetPhase(e, K) PROVE ResetPhase(f, K)
  <2>1. ASSUME DatapathsOnly(e), NEW x \in e.ctx, x.op = "DecReset"
        PROVE  f.dp[x.who] \in {"active", "idle"}
    <3>1. x.who \in Datapaths
      BY <2>1 DEF DatapathsOnly, IsEngine, Context
    <3>2. x.who # c.who
      BY <2>1 DEF Phases, OneEach, Asked
    <3> QED BY <1>1, <1>3, <1>6, <2>1, <3>1, <3>2 DEF ResetPhase
  <2> QED BY <1>3, <1>4, <1>6, <2>1 DEF ResetPhase
<1> QED BY <1>3, <1>4, <1>5, <1>6 DEF Phases

\* HandlePlayerDatapathEvent keeps the phases.
LEMMA DatapathAnswered ==
    ASSUME NEW e, NEW K, IsEngine(e), Phases(e, K), NEW c \in e.ctx,
           c.who \in Datapaths, c.who \notin K, c.op \in Asked, NEW ok \in BOOLEAN,
           NEW f, f = FreeEngineContext(HandlePlayerDatapathEvent(e, c, ok), c)
    PROVE  IsEngine(f) /\ Phases(f, K)
<1>1. CASE e.toCancel # None
  <2>1. e.state = "RESETTING" /\ K # {}
    BY <1>1, CancelState
  <2>2. f = FreeEngineContext(e, c)
    BY <1>1 DEF HandlePlayerDatapathEvent
  <2> QED BY <2>1, <2>2, AnswerIgnored
<1> HIDE DEF HandlePlayerDatapathEvent
<1>2. CASE e.toCancel = None /\ e.state = "PAUSING" /\ c.op = "DPPause"
  <2>1. f = FreeEngineContext(HandleDatapathPauseOrStop(e, "SrcPause", ok), c)
    BY <1>2 DEF HandlePlayerDatapathEvent
  <2> QED BY <1>2, <2>1, PauseOrStopAnswered
<1>3. CASE e.toCancel = None /\ e.state = "STOPPING" /\ c.op = "DPStop"
  <2>1. f = FreeEngineContext(HandleDatapathPauseOrStop(e, "SrcStop", ok), c)
    BY <1>3 DEF HandlePlayerDatapathEvent
  <2> QED BY <1>3, <2>1, PauseOrStopAnswered
<1>4. CASE e.toCancel = None /\ e.state = "STOPPING" /\ c.op = "DPTeardown"
  <2>1. f = FreeEngineContext(HandleDatapathTeardown(e, c.who, ok), c)
    BY <1>4 DEF HandlePlayerDatapathEvent
  <2> QED BY <1>4, <2>1, TeardownAnswered
<1>5. CASE e.toCancel = None /\ e.state \in {"STOPPING", "RESETTING"} /\ c.op = "DPReset"
  <2>1. f = FreeEngineContext(HandleDatapathReset(e, c.who), c)
    BY <1>5 DEF HandlePlayerDatapathEvent
  <2> QED BY <1>5, <2>1, ResetAnswered
<1>6. CASE /\ e.toCancel = None /\ ~(e.state = "PAUSING" /\ c.op = "DPPause")
           /\ ~(e.state = "STOPPING" /\ c.op \in {"DPStop", "DPTeardown", "DPReset"})
           /\ ~(e.state = "RESETTING" /\ c.op = "DPReset")
  <2>1. f = FreeEngineContext(e, c)
    BY <1>6 DEF HandlePlayerDatapathEvent
  <2>2. c.op \in Ops(e) /\ e.ctx # {}
    BY DatapathsAssumption DEF Ops
  <2>3. e.state \notin {"PAUSING", "STOPPING"} \cup Quiet
    BY <1>6, <2>2 DEF Phases, WorkingPhase, QuietPhase
  <2>4. e.state = "RESETTING" => K # {}
    <3> SUFFICES ASSUME e.state = "RESETTING", K = {} PROVE FALSE
      OBVIOUS
    <3>1. ResetPhase(e, K)
      BY DEF Phases
    <3>2. DatapathsOnly(e)
      BY DatapathsAssumption DEF Phases, OneEach, DatapathsOnly
    <3>3. Ops(e) \subseteq {"DPReset", "DecReset", "SinkReset"}
      BY <3>1, <3>2 DEF ResetPhase
    <3> QED BY <1>6, <2>2, <3>3 DEF Asked
  <2>5. e.state \in {"ERROR", "RESETTING"}
    BY <2>3 DEF IsEngine, States
  <2> QED BY <2>1, <2>4, <2>5, AnswerIgnored
<1> QED BY <1>1, <1>2, <1>3, <1>4, <1>5, <1>6

-----------------------------------------------------------------------------
(***************************************************************************)
(* The answers of the source node, of decoders and sinks, and of cancels.  *)
(***************************************************************************)

\* HandleSourceNodeReset: what is reset next is one context for every
\* datapath that still has its nodes.
LEMMA SourceResetAnswered ==
    ASSUME NEW e, NEW K, IsEngine(e), Phases(e, K), NEW c \in e.ctx,
           c.who = Src, e.state = "RESETTING", K = {},
           NEW f, f = FreeEngineContext(HandleSourceNodeReset(e), c)
    PROVE  IsEngine(f) /\ Phases(f, K)
<1> DEFINE op(d) == IF e.dp[d] = "active" THEN "DPReset"
                    ELSE IF d \in Decoded THEN "DecReset" ELSE "SinkReset"
           up == {d \in Datapaths : e.dp[d] \in {"active", "idle"}}
           C == {[who |-> d, op |-> op(d)] : d \in up}
           h == [e EXCEPT !.src = "created", !.numDp = Cardinality(up), !.ctx = @ \cup C]
<1>1. f = FreeEngineContext(IF up = {} THEN ToIdle(h) ELSE h, c)
  BY DEF HandleSourceNodeReset
<1>2. /\ C \subseteq Context
      /\ \A x \in C : /\ x.who \in up /\ x.op \in {"DPReset", "DecReset", "SinkReset"}
                      /\ e.dp[x.who] \in {"active", "idle"}
      /\ \A d \in up : \E x \in C : x.who = d
      /\ \A x, y \in C : x.who = y.who => x = y
  <2>1. \A d \in up : /\ op(d) \in {"DPReset", "DecReset", "SinkReset"}
                      /\ d \in Datapaths /\ e.dp[d] \in {"active", "idle"}
    OBVIOUS
  <2> HIDE DEF op, up
  <2>2. \A x \in C : \E d \in up : x = [who |-> d, op |-> op(d)]
    OBVIOUS
  <2>3. \A d \in up : [who |-> d, op |-> op(d)] \in C
    OBVIOUS
  <2> HIDE DEF C
  <2>4. \A x \in C : x.who \in up /\ x = [who |-> x.who, op |-> op(x.who)]
    BY <2>2
  <2>5. C \subseteq Context
    BY <2>1, <2>2 DEF Context
  <2>6. \A x \in C : /\ x.who \in up /\ x.op \in {"DPReset", "DecReset", "SinkReset"}
                     /\ e.dp[x.who] \in {"active", "idle"}
    BY <2>1, <2>2
  <2>7. \A d \in up : \E x \in C : x.who = d
    BY <2>3
  <2>8. \A x, y \in C : x.who = y.who => x = y
    <3> SUFFICES ASSUME NEW x \in C, NEW y \in C, x.who = y.who PROVE x = y
      OBVIOUS
    <3> QED BY <2>4, Zenon
  <2> QED BY <2>5, <2>6, <2>7, <2>8
<1>3. up \in SUBSET Datapaths
  OBVIOUS
<1> HIDE DEF op
<1>4. IsFiniteSet(up) /\ Cardinality(up) \in Int
  BY <1>3, DatapathsAssumption, FS_Subset, FS_CardinalityType
<1> HIDE DEF C, up
<1>5. OneEach(C) /\ Cardinality(C) = Cardinality(up) /\ \A x \in C : x.who # Src
  BY <1>2, <1>3, ContextsFor
<1>6. e.ctx = {c} /\ NoCancel(e, K) /\ (ErrorPending(e) \/ e.current.type \in ResetTypes)
  BY DEF Phases, OneEach, ResetPhase
<1>7. /\ IsEngine(h) /\ h.src = "created" /\ h.numDp = Cardinality(up) /\ h.ctx = {c} \cup C
      /\ h.state = e.state /\ h.pending = e.pending /\ h.current = e.current
      /\ h.toCancel = e.toCancel /\ h.numCancel = e.numCancel /\ h.dp = e.dp
  BY <1>2, <1>4, <1>6 DEF IsEngine, Members
<1> HIDE DEF h
<1>8. CASE up = {}
  <2> DEFINE i == ToIdle(h)
  <2>1. /\ IsEngine(i) /\ i.src = "created" /\ i.ctx = {c} \cup C
        /\ i.state = "IDLE" /\ i.pending = e.pending /\ i.current = e.current
        /\ i.toCancel = e.toCancel /\ i.numCancel = e.numCancel
    BY <1>7, Idled
  <2>2. f = FreeEngineContext(i, c)
    BY <1>1, <1>8
  <2> HIDE DEF i
  <2>3. C = {}
    BY <1>2, <1>8
  <2>4. /\ IsEngine(f) /\ f.src = "created" /\ f.ctx = {}
        /\ f.state = "IDLE" /\ f.pending = e.pending /\ f.current = e.current
        /\ f.toCancel = e.toCancel /\ f.numCancel = e.numCancel
    BY <2>1, <2>2, <2>3, Freed
  <2>5. QuietPhase(f, K)
    BY <1>6, <2>4 DEF QuietPhase, NoCancel, ErrorPending
  <2> QED BY <2>4, <2>5, NoContext DEF Phases, Quiet
<1>9. CASE up # {}
  <2>1. f = FreeEngineContext(h, c)
    BY <1>1, <1>9
  <2>2. /\ IsEngine(f) /\ f.src = "created" /\ f.numDp = Cardinality(up)
        /\ f.ctx = ({c} \cup C) \ {c}
        /\ f.state = e.state /\ f.pending = e.pending /\ f.current = e.current
        /\ f.toCancel = e.toCancel /\ f.numCancel = e.numCancel /\ f.dp = e.dp
    BY <1>7, <2>1, Freed
  <2>3. f.ctx = C /\ C # {}
    BY <1>2, <1>5, <1>9, <2>2
  <2>4. Ops(f) \subseteq {"DPReset", "DecReset", "SinkReset"}
    BY <1>2, <2>3 DEF Ops
  <2>5. ResetPhase(f, K)
    BY <1>2, <1>5, <1>6, <2>2, <2>3, <2>4 DEF ResetPhase, NoCancel
  <2> QED BY <1>5, <1>6, <2>2, <2>3, <2>5 DEF Phases, Quiet, ErrorPending
<1> QED BY <1>8, <1>9

\* A failure of the source node, or a stop without datapaths.
LEMMA SourceFailed ==
    ASSUME NEW e, NEW K, IsEngine(e), Phases(e, K), NEW c \in e.ctx,
           c.who = Src, e.state \in {"PAUSING", "STOPPING"},
           NEW f, f = FreeEngineContext(AddErrorHandlingCmd(e, "ehCommand"), c)
    PROVE  IsEngine(f) /\ Phases(f, K)
<1>1. e.ctx = {c} /\ NoCancel(e, K) /\ ~ErrorPending(e)
  BY DEF Phases, OneEach, WorkingPhase
<1> DEFINE h == AddErrorHandlingCmd(e, "ehCommand")
<1>2. ~CheckForPendingErrorHandlingCmd(e)
  BY <1>1, ErrorOnTop
<1>3. /\ IsEngine(h) /\ ErrorPending(h) /\ h.state = "ERROR"
      /\ h.toCancel = e.toCancel /\ h.numCancel = e.numCancel /\ h.ctx = e.ctx
  BY <1>2, ErrorAdded DEF EHTypes
<1>4. f = FreeEngineContext(h, c)
  OBVIOUS
<1> HIDE DEF h
<1>5. /\ IsEngine(f) /\ ErrorPending(f) /\ f.state = "ERROR" /\ f.ctx = {}
      /\ f.toCancel = e.toCancel /\ f.numCancel = e.numCancel
  BY <1>1, <1>3, <1>4, Freed DEF ErrorPending
<1>6. ErrorPhase(f, K)
  BY <1>1, <1>5 DEF ErrorPhase, NoCancel, DatapathsOnly, Ops
<1> QED BY <1>5, <1>6, NoContext DEF Phases, Quiet

\* NodeCommandCompleted for the source node keeps the phases.
LEMMA SourceAnswered ==
    ASSUME NEW e, NEW K, IsEngine(e), Phases(e, K), NEW c \in e.ctx, c.who = Src,
           NEW ok \in BOOLEAN,
           NEW f, f = FreeEngineContext(SourceCommandCompleted(e, ok), c)
    PROVE  IsEngine(f) /\ Phases(f, K)
<1>1. CASE e.toCancel # None
  <2>1. e.state = "RESETTING" /\ K # {}
    BY <1>1, CancelState
  <2>2. f = FreeEngineContext(e, c)
    BY <1>1 DEF SourceCommandCompleted
  <2> QED BY <1>1, <2>1, <2>2, AnswerIgnored
<1>2. CASE e.toCancel = None /\ e.state = "PAUSING"
  <2>1. f = FreeEngineContext(HandleSourceNodePause(e, ok), c)
    BY <1>2 DEF SourceCommandCompleted
  <2>2. CASE ok
    <3> DEFINE i == [e EXCEPT !.state = "PAUSED"]
               h == EngineCommandCompleted(i, FALSE)
    <3>1. /\ IsEngine(i) /\ i.state = "PAUSED" /\ i.pending = e.pending
          /\ i.toCancel = e.toCancel /\ i.numCancel = e.numCancel /\ i.ctx = e.ctx
      BY StateSet DEF States, Quiet
    <3>2. f = FreeEngineContext(h, c)
      BY <2>1, <2>2 DEF HandleSourceNodePause
    <3> HIDE DEF i
    <3>3. /\ IsEngine(h) /\ h.state = "PAUSED" /\ h.pending = e.pending
          /\ h.current = None
          /\ h.toCancel = e.toCancel /\ h.numCancel = e.numCancel /\ h.ctx = e.ctx
      BY <3>1, CompletedAs
    <3> HIDE DEF h
    <3>4. /\ IsEngine(f) /\ f.state = "PAUSED" /\ f.pending = e.pending
          /\ f.current = None /\ f.ctx = e.ctx \ {c}
          /\ f.toCancel = e.toCancel /\ f.numCancel = e.numCancel
      BY <3>2, <3>3, Freed
    <3>5. e.ctx = {c} /\ NoCancel(e, K) /\ ~ErrorPending(e)
      BY <1>2 DEF Phases, OneEach, WorkingPhase
    <3>6. f.ctx = {}
      BY <3>4, <3>5
    <3>7. QuietPhase(f, K)
      BY <3>4, <3>5, <3>6 DEF QuietPhase, NoCancel, ErrorPending, None
    <3> QED BY <3>4, <3>6, <3>7, NoContext DEF Phases, Quiet
  <2>3. CASE ~ok
    <3>1. f = FreeEngineContext(AddErrorHandlingCmd(e, "ehCommand"), c)
      BY <2>1, <2>3 DEF HandleSourceNodePause
    <3> QED BY <1>2, <3>1, SourceFailed
  <2> QED BY <2>2, <2>3
<1>3. CASE e.toCancel = None /\ e.state = "STOPPING"
  <2>1. f = FreeEngineContext(HandleSourceNodeStop(e, ok), c)
    BY <1>3 DEF SourceCommandCompleted
  <2>2. CASE ok /\ Datapaths # {}
    <3> DEFINE h == IssueToAll(e, "DPTeardown")
               C == {[who |-> d, op |-> "DPTeardown"] : d \in Datapaths}
               ops == {"DPStop", "DPTeardown", "DPReset"}
    <3>1. /\ IsEngine(h) /\ h.ctx = e.ctx \cup C /\ h.numDp = Cardinality(Datapaths)
          /\ h.state = e.state /\ h.pending = e.pending /\ h.current = e.current
          /\ h.toCancel = e.toCancel /\ h.numCancel = e.numCancel
      BY IssuedToAll DEF Asked
    <3>2. f = FreeEngineContext(h, c)
      BY <2>1, <2>2 DEF HandleSourceNodeStop
    <3> HIDE DEF h
    <3>3. C # {} /\ \A x \in C : x.op = "DPTeardown"
      BY <2>2, ContextsOfAll DEF Asked
    <3>4. OneEach(C) /\ Cardinality(C) = Cardinality(Datapaths) /\ \A x \in C : x.who # Src
      BY ContextsOfAll DEF Asked
    <3> HIDE DEF C
    <3>5. /\ IsEngine(f) /\ f.ctx = (e.ctx \cup C) \ {c} /\ f.numDp = Cardinality(Datapaths)
          /\ f.state = e.state /\ f.pending = e.pending /\ f.current = e.current
          /\ f.toCancel = e.toCancel /\ f.numCancel = e.numCancel
      BY <3>1, <3>2, Freed
    <3>6. /\ e.ctx = {c} /\ NoCancel(e, K) /\ ~ErrorPending(e) /\ e.current.type = "stop"
      BY <1>3 DEF Phases, OneEach, WorkingPhase
    <3>7. f.ctx = C
      BY <3>4, <3>5, <3>6
    <3>8. Ops(f) \subseteq ops
      BY <3>3, <3>7 DEF Ops
    <3>9. WorkingPhase(f, K, "stop", ops)
      BY <3>3, <3>4, <3>5, <3>6, <3>7, <3>8 DEF WorkingPhase, NoCancel, ErrorPending
    <3> QED BY <1>3, <3>4, <3>5, <3>7, <3>9 DEF Phases, Quiet
  <2>3. CASE ~(ok /\ Datapaths # {})
    <3>1. f = FreeEngineContext(AddErrorHandlingCmd(e, "ehCommand"), c)
      BY <2>1, <2>3 DEF HandleSourceNodeStop
    <3> QED BY <1>3, <3>1, SourceFailed
  <2> QED BY <2>2, <2>3
<1>4. CASE e.toCancel = None /\ e.state = "RESETTING"
  <2>1. f = FreeEngineContext(HandleSourceNodeReset(e), c)
    BY <1>4 DEF SourceCommandCompleted
  <2>2. K = {}
    BY <1>4 DEF Phases, CancelPhase, DatapathsOnly
  <2> QED BY <1>4, <2>1, <2>2, SourceResetAnswered
<1>5. CASE e.state \in Quiet \cup {"ERROR"}
  BY <1>5 DEF Phases, QuietPhase, ErrorPhase, DatapathsOnly, Quiet
<1> QED BY <1>1, <1>2, <1>3, <1>4, <1>5 DEF IsEngine, States

\* Decoders and sinks are reset after the source node only.
LEMMA NodePhase ==
    ASSUME NEW e, NEW K, IsEngine(e), Phases(e, K), NEW c \in e.ctx,
           c.who \in Datapaths, c.op \in {"DecReset", "SinkReset"}
    PROVE  e.state = "RESETTING" /\ K = {} /\ DatapathsOnly(e) /\ OneEach(e.ctx)
<1>1. c.op \in Ops(e) /\ e.ctx # {}
  BY DatapathsAssumption DEF Ops
<1>2. e.state \notin Quiet \cup {"PAUSING", "STOPPING", "ERROR"}
  BY <1>1 DEF Phases, QuietPhase, WorkingPhase, ErrorPhase, Asked
<1>3. e.state = "RESETTING"
  BY <1>2 DEF IsEngine, States
<1>4. K = {}
  BY <1>1, <1>3 DEF Phases, CancelPhase, Asked
<1> QED BY <1>3, <1>4, DatapathsAssumption DEF Phases, OneEach, DatapathsOnly

\* HandleDecNodeReset and HandleSinkNodeReset keep the phases.
LEMMA NodeAnswered ==
    ASSUME NEW e, NEW K, IsEngine(e), Phases(e, K), NEW c \in e.ctx,
           c.who \in Datapaths, c.op \in {"DecReset", "SinkReset"},
           NEW f, f = FreeEngineContext(IF c.op = "DecReset" THEN HandleDecNodeReset(e, c.who)
                                        ELSE HandleSinkNodeReset(e, c.who), c)
    PROVE  IsEngine(f) /\ Phases(f, K)
<1>1. e.state = "RESETTING" /\ K = {} /\ DatapathsOnly(e) /\ OneEach(e.ctx)
  BY NodePhase
<1>2. /\ ResetPhase(e, K)
      /\ NoCancel(e, K) /\ (ErrorPending(e) \/ e.current.type \in ResetTypes)
      /\ e.src # "active"
      /\ Ops(e) \subseteq {"DPReset", "DecReset", "SinkReset"}
      /\ e.numDp = Cardinality(e.ctx)
      /\ \A x \in e.ctx : x.op = "DecReset" => e.dp[x.who] \in {"active", "idle"}
  BY <1>1 DEF Phases, ResetPhase
<1>3. CASE c.op = "SinkReset"
  <2>1. HandleSinkNodeReset(e, c.who) = HandleDatapathReset(e, c.who)
    <3>1. DatapathDown(e, c.who).state = "RESETTING"
      BY <1>1, CountedDownReset
    <3> QED BY <3>1 DEF HandleSinkNodeReset, HandleDatapathReset
  <2>2. e.toCancel = None /\ c.who \notin K
    BY <1>1, <1>2 DEF NoCancel
  <2> QED BY <1>1, <1>3, <2>1, <2>2, ResetAnswered
<1>4. CASE c.op = "DecReset"
  <2> DEFINE g == [e EXCEPT !.numDp = @ - 1]
             sinks == {x \in Datapaths : e.dp[x] \in {"active", "idle"}}
             C == {[who |-> x, op |-> "SinkReset"] : x \in sinks}
             h == [g EXCEPT !.numDp = Cardinality(sinks), !.ctx = @ \cup C]
  <2>1. f = FreeEngineContext(IF g.numDp # 0 THEN g ELSE h, c)
    BY <1>4 DEF HandleDecNodeReset
  <2>2. /\ IsEngine(g) /\ g.numDp = e.numDp - 1
        /\ g.state = e.state /\ g.pending = e.pending /\ g.current = e.current
        /\ g.toCancel = e.toCancel /\ g.numCancel = e.numCancel
        /\ g.ctx = e.ctx /\ g.dp = e.dp /\ g.src = e.src
    BY CountedDown
  <2> HIDE DEF g
  <2>3. /\ OneEach(e.ctx \ {c}) /\ Cardinality(e.ctx) \in Nat
        /\ Cardinality(e.ctx \ {c}) = Cardinality(e.ctx) - 1
        /\ Cardinality(e.ctx) = 1 => e.ctx = {c}
    BY <1>1, ContextGone
  <2>4. CASE g.numDp # 0
    <3>1. f = FreeEngineContext(g, c)
      BY <2>1, <2>4
    <3>2. /\ IsEngine(f) /\ f.ctx = e.ctx \ {c} /\ f.numDp = e.numDp - 1
          /\ f.state = e.state /\ f.pending = e.pending /\ f.current = e.current
          /\ f.toCancel = e.toCancel /\ f.numCancel = e.numCancel
          /\ f.src = e.src /\ f.dp = e.dp
      BY <2>2, <3>1, Freed
    <3>3. f.ctx # {}
      <4> SUFFICES ASSUME e.ctx = {c} PROVE FALSE
        BY <3>2
      <4>1. Cardinality(e.ctx) = 1
        BY ContextAlone
      <4> QED BY <1>2, <2>2, <2>4, <4>1
    <3>4. Ops(f) \subseteq {"DPReset", "DecReset", "SinkReset"}
      BY <1>2, <3>2 DEF Ops
    <3>5. ResetPhase(f, K)
      BY <1>2, <2>3, <3>2, <3>3, <3>4 DEF ResetPhase, NoCancel
    <3> QED BY <1>1, <1>2, <2>3, <3>2, <3>5 DEF Phases, Quiet, ErrorPending
  <2>5. CASE g.numDp = 0
    <3>1. f = FreeEngineContext(h, c)
      BY <2>1, <2>5
    <3>2. sinks \in SUBSET Datapaths /\ c.who \in sinks
      BY <1>2, <1>4
    <3>3. Cardinality(sinks) \in Int
      <4> HIDE DEF sinks
      <4> QED BY <3>2, DatapathsAssumption, FS_Subset, FS_CardinalityType
    <3> HIDE DEF sinks
    <3>4. /\ C \subseteq Context
          /\ \A x \in C : x.who \in sinks /\ x.op = "SinkReset"
          /\ \A x, y \in C : x.who = y.who => x = y
      BY <3>2 DEF Context
    <3>5. \A d \in sinks : [who |-> d, op |-> "SinkReset"] \in C
      OBVIOUS
    <3> HIDE DEF C
    <3>6. \A d \in sinks : \E x \in C : x.who = d
      BY <3>5
    <3>7. OneEach(C) /\ Cardinality(C) = Cardinality(sinks) /\ \A x \in C : x.who # Src
      BY <3>2, <3>4, <3>6, ContextsFor
    <3>8. /\ IsEngine(h) /\ h.ctx = e.ctx \cup C /\ h.numDp = Cardinality(sinks)
          /\ h.state = e.state /\ h.pending = e.pending /\ h.current = e.current
          /\ h.toCancel = e.toCancel /\ h.numCancel = e.numCancel
          /\ h.dp = e.dp /\ h.src = e.src
      BY <2>2, <3>3, <3>4 DEF IsEngine, Members
    <3> HIDE DEF h
    <3>9. /\ IsEngine(f) /\ f.ctx = (e.ctx \cup C) \ {c} /\ f.numDp = Cardinality(sinks)
          /\ f.state = e.state /\ f.pending = e.pending /\ f.current = e.current
          /\ f.toCancel = e.toCancel /\ f.numCancel = e.numCancel
          /\ f.dp = e.dp /\ f.src = e.src
      BY <3>1, <3>8, Freed
    <3>10. e.ctx = {c}
      <4>1. Cardinality(e.ctx) = 1
        BY <1>2, <2>2, <2>3, <2>5
      <4> QED BY <2>3, <4>1
    <3>11. f.ctx = C /\ C # {}
      BY <1>4, <3>2, <3>4, <3>6, <3>9, <3>10
    <3>12. Ops(f) \subseteq {"DPReset", "DecReset", "SinkReset"}
      BY <3>4, <3>11 DEF Ops
    <3>13. ResetPhase(f, K)
      BY <1>2, <3>4, <3>7, <3>9, <3>11, <3>12 DEF ResetPhase, NoCancel
    <3> QED BY <1>1, <1>2, <3>7, <3>9, <3>11, <3>13 DEF Phases, Quiet, ErrorPending
  <2> QED BY <2>4, <2>5
<1> QED BY <1>3, <1>4

\* ResetSource starts the resets with nothing else outstanding.
LEMMA ResetBegun ==
    ASSUME NEW e, IsEngine(e), e.ctx = {}, e.numCancel = 0, e.toCancel = None,
           ErrorPending(e) \/ e.current.type \in ResetTypes,
           NEW f, f = ResetSource(e)
    PROVE  IsEngine(f) /\ Phases(f, {})
<1> DEFINE s == [who |-> Src, op |-> "SrcReset"]
<1>1. s.who = Src
  OBVIOUS
<1>2. /\ IsEngine(f) /\ f.numCancel = 0 /\ f.toCancel = None
      /\ f.state = "RESETTING" /\ f.pending = e.pending /\ f.current = e.current
      /\ f.ctx = {} \cup {s}
  BY SourceAsked
<1> HIDE DEF s
<1>3. f.ctx = {s}
  BY <1>2
<1>4. ~DatapathsOnly(f)
  BY <1>1, <1>3 DEF DatapathsOnly
<1>5. ResetPhase(f, {})
  BY <1>2, <1>3, <1>4 DEF ResetPhase, NoCancel
<1>6. ErrorPending(f) \/ f.current.type \in ResetTypes
  BY <1>2 DEF ErrorPending
<1>7. OneEach(f.ctx)
  BY <1>3, ContextAlone
<1> QED BY <1>2, <1>5, <1>6, <1>7 DEF Phases, Quiet

\* The engine after the answer to the cancel of w, as CancelDone has it.
CancelCounted(e, w) ==
    [e EXCEPT !.numCancel = @ - 1,
              !.ctx = IF w = Src THEN {c \in @ : c.who # Src} ELSE @]
AfterCancel(e, w) ==
    IF CancelCounted(e, w).numCancel # 0 THEN CancelCounted(e, w)
    ELSE ResetSource(RemoveDatapathContextFromList(
                         [CancelCounted(e, w) EXCEPT !.toCancel = None]))

\* CancelDone: the cancels are counted down, and the last one is followed by
\* the reset of the source node, with nothing else outstanding.
LEMMA CancelAnswered ==
    ASSUME NEW e, NEW K, IsEngine(e), Phases(e, K), NEW w \in K,
           NEW f, f = AfterCancel(e, w)
    PROVE  IsEngine(f) /\ Phases(f, K \ {w})
<1>0. PICK g : /\ g = CancelCounted(e, w)
               /\ f = IF g.numCancel # 0 THEN g
                      ELSE ResetSource(RemoveDatapathContextFromList(
                                           [g EXCEPT !.toCancel = None]))
  BY DEF AfterCancel
<1> DEFINE C == IF w = Src THEN {c \in e.ctx : c.who # Src} ELSE e.ctx
<1>1. e.state = "RESETTING"
  BY CancelState DEF NoCancel
<1>2. /\ CancelPhase(e, K) /\ (ErrorPending(e) \/ e.current.type \in ResetTypes)
      /\ OneEach(e.ctx)
      /\ IsFiniteSet(K) /\ e.numCancel = Cardinality(K) /\ Ops(e) \subseteq Asked
      /\ \A c \in e.ctx : c.who = Src => K = {Src}
  BY <1>1 DEF Phases, CancelPhase
<1>3. /\ IsFiniteSet(K \ {w}) /\ Cardinality(K \ {w}) = e.numCancel - 1
  BY <1>2, FS_RemoveElement
<1>4. C \subseteq e.ctx /\ \A c \in C : c.who # Src
  BY <1>2
<1>5. OneEach(C)
  <2>1. IsFiniteSet(C)
    BY <1>2, <1>4, FS_Subset DEF OneEach
  <2> QED BY <1>2, <1>4, <2>1 DEF OneEach
<1>6. g = [e EXCEPT !.numCancel = @ - 1, !.ctx = C]
  BY <1>0 DEF CancelCounted
<1>12. DatapathsOnly(e) => C = e.ctx
  BY DEF DatapathsOnly
<1> HIDE DEF C
<1>7. /\ IsEngine(g) /\ g.numCancel = Cardinality(K \ {w}) /\ g.ctx = C
      /\ g.state = "RESETTING" /\ g.pending = e.pending /\ g.current = e.current
      /\ g.toCancel = e.toCancel /\ g.numDp = e.numDp
  <2>1. /\ DOMAIN g = Members /\ g.numCancel = e.numCancel - 1 /\ g.ctx = C
        /\ g.state = e.state /\ g.pending = e.pending /\ g.current = e.current
        /\ g.toCancel = e.toCancel /\ g.numDp = e.numDp
        /\ g.src = e.src /\ g.dp = e.dp /\ g.nextId = e.nextId
    BY <1>6 DEF IsEngine, Members
  <2>2. IsEngine(g)
    BY <1>4, <2>1 DEF IsEngine
  <2> QED BY <1>1, <1>3, <2>1, <2>2
<1>8. CASE g.numCancel # 0
  <2>1. f = g
    BY <1>0, <1>8
  <2>2. K \ {w} # {}
    BY <1>7, <1>8, FS_EmptySet
  <2>3. Ops(g) \subseteq Asked
    BY <1>2, <1>4, <1>7 DEF Ops
  <2>4. ASSUME g.toCancel = None
        PROVE  /\ ErrorPending(g) /\ DatapathsOnly(g) /\ K \ {w} \subseteq Whos(g)
               /\ g.numDp >= Cardinality(g.ctx)
    <3>1. /\ ErrorPending(e) /\ DatapathsOnly(e) /\ K \subseteq Whos(e)
          /\ e.numDp >= Cardinality(e.ctx)
      BY <1>2, <1>7, <2>4 DEF CancelPhase
    <3> QED BY <1>7, <1>12, <3>1 DEF ErrorPending, DatapathsOnly, Whos
  <2>5. CancelPhase(g, K \ {w})
    BY <1>3, <1>4, <1>7, <2>3, <2>4 DEF CancelPhase
  <2>6. ErrorPending(g) \/ g.current.type \in ResetTypes
    BY <1>2, <1>7 DEF ErrorPending
  <2> QED BY <1>5, <1>7, <2>1, <2>2, <2>5, <2>6 DEF Phases, Quiet
<1>9. CASE g.numCancel = 0
  <2> DEFINE h == [g EXCEPT !.toCancel = None]
             i == RemoveDatapathContextFromList(h)
  <2>1. /\ IsEngine(h) /\ h.numCancel = 0 /\ h.ctx = C /\ h.toCancel = None
        /\ h.state = "RESETTING" /\ h.pending = e.pending /\ h.current = e.current
    BY <1>7, <1>9 DEF IsEngine, Members
  <2>2. f = ResetSource(i)
    BY <1>0, <1>9
  <2> HIDE DEF h
  <2>3. /\ IsEngine(i) /\ i.numCancel = 0 /\ i.toCancel = None
        /\ i.state = "RESETTING" /\ i.pending = e.pending /\ i.current = e.current
        /\ i.ctx = {}
    BY <1>4, <2>1 DEF IsEngine, Members, RemoveDatapathContextFromList
  <2> HIDE DEF i
  <2>4. K \ {w} = {}
    BY <1>3, <1>7, <1>9, FS_EmptySet
  <2>5. ErrorPending(i) \/ i.current.type \in ResetTypes
    BY <1>2, <2>3 DEF ErrorPending
  <2> QED BY <2>2, <2>3, <2>4, <2>5, ResetBegun
<1> QED BY <1>8, <1>9

\* HandleSourceNodeErrorEvent turns any phase but the resets and those of the
\* source node into the error phase.
LEMMA ErrorReported ==
    ASSUME NEW e, NEW K, IsEngine(e), Phases(e, K), e.state # "RESETTING",
           DatapathsOnly(e), NEW f, f = AddErrorHandlingCmd(e, "ehGeneral")
    PROVE  IsEngine(f) /\ Phases(f, K)
<1>1. /\ IsEngine(f) /\ ErrorPending(f)
      /\ f.toCancel = e.toCancel /\ f.numCancel = e.numCancel
      /\ f.numDp = e.numDp /\ f.ctx = e.ctx
      /\ f = e \/ f.state = "ERROR"
  BY ErrorAdded DEF EHTypes
<1>2. NoCancel(e, K) /\ OneEach(e.ctx)
  BY CancelState DEF Phases
<1>3. Cardinality(e.ctx) \in Nat
  BY <1>2, FS_CardinalityType DEF OneEach
<1>4. /\ Ops(e) \subseteq Asked
      /\ e.ctx # {} => e.numDp >= Cardinality(e.ctx)
  <2>1. CASE e.state \in Quiet
    BY <2>1 DEF Phases, QuietPhase, Ops
  <2>2. CASE e.state = "ERROR"
    BY <2>2 DEF Phases, ErrorPhase
  <2>3. CASE e.state \in {"PAUSING", "STOPPING"}
    BY <1>3, <2>3 DEF Phases, WorkingPhase, Asked
  <2> QED BY <2>1, <2>2, <2>3 DEF IsEngine, States
<1>5. CASE f.state = "ERROR"
  <2>1. ErrorPhase(f, K)
    BY <1>1, <1>2, <1>4 DEF ErrorPhase, NoCancel, DatapathsOnly, Ops
  <2> QED BY <1>1, <1>2, <1>5, <2>1 DEF Phases, Quiet
<1> QED BY <1>1, <1>5

\* What keeps the nodes, the current command and the pending errors as they
\* are keeps the phase.
LEMMA PhaseKept ==
    ASSUME NEW e, NEW K, Phases(e, K), NEW f,
           f.state = e.state, f.current = e.current, f.toCancel = e.toCancel,
           f.numCancel = e.numCancel, f.numDp = e.numDp, f.ctx = e.ctx,
           f.dp = e.dp, f.src = e.src, ErrorPending(f) <=> ErrorPending(e)
    PROVE  Phases(f, K)
<1>1. /\ DatapathsOnly(f) <=> DatapathsOnly(e)
      /\ Ops(f) = Ops(e) /\ Whos(f) = Whos(e)
      /\ NoCancel(f, K) <=> NoCancel(e, K)
  BY DEF DatapathsOnly, Ops, Whos, NoCancel
<1>2. /\ QuietPhase(e, K) => QuietPhase(f, K)
      /\ WorkingPhase(e, K, "pause", {"DPPause"}) => WorkingPhase(f, K, "pause", {"DPPause"})
      /\ WorkingPhase(e, K, "stop", {"DPStop", "DPTeardown", "DPReset"}) =>
             WorkingPhase(f, K, "stop", {"DPStop", "DPTeardown", "DPReset"})
      /\ ErrorPhase(e, K) => ErrorPhase(f, K)
      /\ CancelPhase(e, K) => CancelPhase(f, K)
      /\ ResetPhase(e, K) => ResetPhase(f, K)
  BY <1>1 DEF QuietPhase, WorkingPhase, ErrorPhase, CancelPhase, ResetPhase
<1> QED BY <1>1, <1>2 DEF Phases

-----------------------------------------------------------------------------
(***************************************************************************)
(* Run.  The functions below are called outside RESETTING, when no cancel  *)
(* is under way.  Afterwards one may be, for everybody who owes an answer. *)
(***************************************************************************)
CancelsOf(e) == IF e.numCancel > 0 THEN Whos(e) ELSE {}

\* DoCancelPendingNodeDatapathCommand starts the cancels: as many as there
\* are contexts, since nobody has two.
LEMMA CancelBegun ==
    ASSUME NEW e, IsEngine(e), OneEach(e.ctx), e.ctx # {}, e.state = "RESETTING",
           Ops(e) \subseteq Asked, ErrorPending(e) \/ e.current.type \in ResetTypes,
           e.toCancel = None => /\ ErrorPending(e) /\ DatapathsOnly(e)
                                /\ e.numDp >= Cardinality(e.ctx),
           NEW f, f = DoCancelPendingNodeDatapathCommand(e)
    PROVE  IsEngine(f) /\ Phases(f, CancelsOf(f))
<1> DEFINE n == Cardinality(e.ctx)
<1>1. IsFiniteSet(e.ctx) /\ \A c, d \in e.ctx : c.who = d.who => c = d
  BY DEF OneEach
<1>2. n \in Nat /\ n # 0
  BY <1>1, FS_CardinalityType, FS_EmptySet
<1>3. IsFiniteSet(Whos(e)) /\ Cardinality(Whos(e)) = n
  <2>1. (\A c \in e.ctx : c.who \in Whos(e)) /\ (\A s \in Whos(e) : \E c \in e.ctx : c.who = s)
    BY DEF Whos
  <2> QED BY <1>1, <2>1, ContextCount
<1>4. f = [e EXCEPT !.numCancel = n]
  BY DEF DoCancelPendingNodeDatapathCommand
<1> HIDE DEF n
<1>5. /\ IsEngine(f) /\ f.numCancel = n
      /\ f.state = "RESETTING" /\ f.pending = e.pending /\ f.current = e.current
      /\ f.toCancel = e.toCancel /\ f.numDp = e.numDp /\ f.ctx = e.ctx
  BY <1>2, <1>4 DEF IsEngine, Members
<1>6. CancelsOf(f) = Whos(e) /\ Whos(e) # {}
  <2>1. n > 0
    BY <1>2
  <2>2. Whos(f) = Whos(e)
    BY <1>5 DEF Whos
  <2>3. Whos(e) # {}
    BY DEF Whos
  <2> QED BY <1>5, <2>1, <2>2, <2>3 DEF CancelsOf
<1>7. Ops(f) \subseteq Asked /\ (ErrorPending(f) <=> ErrorPending(e))
      /\ (DatapathsOnly(f) <=> DatapathsOnly(e)) /\ Whos(f) = Whos(e)
  BY <1>5 DEF Ops, ErrorPending, DatapathsOnly, Whos
<1>8. \A c \in f.ctx : c.who = Src => Whos(e) = {Src}
  BY <1>5 DEF OneEach, Whos
<1>9. CancelPhase(f, Whos(e))
  BY <1>3, <1>5, <1>7, <1>8 DEF CancelPhase
<1> QED BY <1>5, <1>6, <1>7, <1>9 DEF Phases, Quiet

\* An engine that has nothing outstanding and is not cancelling is settled.
LEMMA Settled ==
    ASSUME NEW e, IsEngine(e), e.state \in Quiet, e.ctx = {}, e.numCancel = 0,
           e.toCancel = None, e.state = "IDLE" => e.src # "active",
           ErrorPending(e) => e.state = "IDLE",
           ErrorPending(e) \/ e.current.type \in ResetTypes \cup {"none"}
    PROVE  Phases(e, {}) /\ CancelsOf(e) = {}
<1>1. QuietPhase(e, {})
  BY DEF QuietPhase, NoCancel
<1> QED BY <1>1, NoContext DEF Phases, Quiet, CancelsOf

\* DoErrorHandling.
LEMMA ErrorHandled ==
    ASSUME NEW e, IsEngine(e), Phases(e, {}), e.state # "RESETTING",
           CheckForPendingErrorHandlingCmd(e), NEW f, f = DoErrorHandling(e)
    PROVE  IsEngine(f) /\ Phases(f, CancelsOf(f))
<1>1. ErrorPending(e) /\ NoCancel(e, {}) /\ OneEach(e.ctx)
  BY ErrorOnTop, CancelState DEF Phases
<1>2. e.state \in {"ERROR", "IDLE"}
  BY <1>1 DEF Phases, QuietPhase, WorkingPhase, IsEngine, States
<1>3. CASE e.ctx # {}
  <2> DEFINE g == [e EXCEPT !.state = "RESETTING"]
  <2>1. /\ IsEngine(g) /\ g.state = "RESETTING"
        /\ g.pending = e.pending /\ g.current = e.current
        /\ g.toCancel = e.toCancel /\ g.numDp = e.numDp /\ g.ctx = e.ctx
    BY StateSet DEF States
  <2>2. f = DoCancelPendingNodeDatapathCommand(g)
    BY <1>3 DEF DoErrorHandling
  <2> HIDE DEF g
  <2>3. ErrorPhase(e, {})
    BY <1>2, <1>3 DEF Phases, QuietPhase, Quiet
  <2>4. /\ Ops(g) \subseteq Asked /\ ErrorPending(g) /\ DatapathsOnly(g)
        /\ g.numDp >= Cardinality(g.ctx)
    BY <1>3, <2>1, <2>3 DEF ErrorPhase, Ops, ErrorPending, DatapathsOnly
  <2> QED BY <1>1, <1>3, <2>1, <2>2, <2>4, CancelBegun
<1>4. CASE e.ctx = {} /\ e.src = "active"
  <2>1. f = ResetSource(e)
    BY <1>4 DEF DoErrorHandling
  <2>2. IsEngine(f) /\ Phases(f, {})
    BY <1>1, <1>4, <2>1, ResetBegun DEF NoCancel
  <2>3. f.numCancel = 0
    BY <1>1, <2>1, SourceAsked DEF NoCancel
  <2> QED BY <2>2, <2>3 DEF CancelsOf
<1>5. CASE e.ctx = {} /\ e.src # "active"
  <2> DEFINE p == [d \in Datapaths |-> "none"]
             g == [e EXCEPT !.state = "IDLE", !.dp = p]
             h == IF g.current # None THEN EngineCommandCompleted(g, TRUE)
                  ELSE [g EXCEPT !.src = "none"]
             i == [h EXCEPT !.pending = @ \ {Top(@)}]
  <2>1. f = RunIfNotReady(i)
    BY <1>5 DEF DoErrorHandling
  <2>2. p \in [Datapaths -> {"none", "down", "idle", "active"}]
    OBVIOUS
  <2> HIDE DEF p
  <2>3. /\ IsEngine(g) /\ g.state = "IDLE" /\ g.pending = e.pending
        /\ g.current = e.current /\ g.toCancel = e.toCancel
        /\ g.numCancel = e.numCancel /\ g.ctx = e.ctx /\ g.src = e.src
    BY <2>2 DEF IsEngine, Members, States, Quiet
  <2> HIDE DEF g
  <2>4. /\ IsEngine(h) /\ h.state = "IDLE" /\ h.pending = e.pending
        /\ h.current = None /\ h.toCancel = e.toCancel
        /\ h.numCancel = e.numCancel /\ h.ctx = e.ctx /\ h.src # "active"
    <3>1. CASE g.current # None
      <4>1. h = EngineCommandCompleted(g, TRUE)
        BY <3>1
      <4> HIDE DEF h
      <4>2. /\ IsEngine(h) /\ h.state = g.state /\ h.pending = g.pending
            /\ h.current = None /\ h.toCancel = g.toCancel
            /\ h.numCancel = g.numCancel /\ h.ctx = g.ctx /\ h.src \in {g.src, "none"}
        BY <2>3, <4>1, Completed
      <4> QED BY <1>5, <2>3, <4>2
    <3>2. CASE g.current = None
      BY <2>3, <3>2 DEF IsEngine, Members
    <3> QED BY <3>1, <3>2
  <2> HIDE DEF h
  <2>5. /\ IsEngine(i) /\ i.state = "IDLE"
        /\ i.current = None /\ i.toCancel = e.toCancel
        /\ i.numCancel = e.numCancel /\ i.ctx = e.ctx /\ i.src # "active"
    BY <2>4 DEF IsEngine, Members
  <2> HIDE DEF i
  <2>6. /\ IsEngine(f) /\ f.state = "IDLE"
        /\ f.current = None /\ f.toCancel = e.toCancel
        /\ f.numCancel = e.numCancel /\ f.ctx = e.ctx /\ f.src # "active"
    BY <2>1, <2>5 DEF IsEngine, Members, RunIfNotReady
  <2> QED BY <1>1, <1>5, <2>6, Settled DEF Quiet, NoCancel, None
<1> QED BY <1>3, <1>4, <1>5

\* EngineCommandCompleted in a settled engine.
LEMMA CompletedSettled ==
    ASSUME NEW e, IsEngine(e), e.state \in Quiet, e.ctx = {}, e.numCancel = 0,
           e.toCancel = None, e.state = "IDLE" => e.src # "active",
           ErrorPending(e) => e.state = "IDLE",
           NEW f, f = EngineCommandCompleted(e, TRUE) \/ f = EngineCommandCompleted(e, FALSE)
    PROVE  IsEngine(f) /\ Phases(f, CancelsOf(f))
<1>1. /\ IsEngine(f)
      /\ f.state = e.state /\ f.pending = e.pending /\ f.current = None
      /\ f.toCancel = e.toCancel /\ f.numCancel = e.numCancel
      /\ f.ctx = e.ctx /\ f.src \in {e.src, "none"}
  BY Completed
<1>2. (ErrorPending(f) <=> ErrorPending(e)) /\ None.type = "none"
  BY <1>1 DEF ErrorPending, None
<1>3. Phases(f, {}) /\ CancelsOf(f) = {}
  BY <1>1, <1>2, Settled
<1> QED BY <1>1, <1>3

\* DoPause and DoStop ask the datapaths or, if there is none, the source node.
LEMMA Begun ==
    ASSUME NEW e, IsEngine(e), e.ctx = {}, e.numCancel = 0, e.toCancel = None,
           ~ErrorPending(e), NEW f,
           \/ e.current.type = "pause" /\ f = Begin(e, "DPPause", "SrcPause", "PAUSING")
           \/ e.current.type = "stop" /\ f = Begin(e, "DPStop", "SrcStop", "STOPPING")
    PROVE  IsEngine(f) /\ Phases(f, CancelsOf(f))
<1>1. PICK dpOp \in {"DPPause", "DPStop"}, srcOp \in {"SrcPause", "SrcStop"},
           state \in {"PAUSING", "STOPPING"} :
           /\ f = Begin(e, dpOp, srcOp, state)
           /\ state = "PAUSING" => e.current.type = "pause" /\ dpOp = "DPPause"
           /\ state = "STOPPING" => e.current.type = "stop" /\ dpOp = "DPStop"
  OBVIOUS
<1>2. CASE Datapaths = {}
  <2> DEFINE s == [who |-> Src, op |-> srcOp]
             g == Issue(e, Src, srcOp)
  <2>1. s \in Context /\ s.who = Src
    BY DEF Context
  <2>2. f = [g EXCEPT !.state = state]
    BY <1>1, <1>2 DEF Begin
  <2>3. /\ IsEngine(g) /\ g.ctx = {} \cup {s} /\ g.pending = e.pending
        /\ g.current = e.current /\ g.numCancel = 0 /\ g.toCancel = None
    BY <2>1, Issued
  <2> HIDE DEF g, s
  <2>4. /\ IsEngine(f) /\ f.state = state /\ f.ctx = {s} /\ f.pending = e.pending
        /\ f.current = e.current /\ f.numCancel = 0 /\ f.toCancel = None
    BY <2>2, <2>3, StateSet DEF States
  <2>5. Ops(f) = {} /\ ~DatapathsOnly(f) /\ ~ErrorPending(f) /\ CancelsOf(f) = {}
    BY <2>1, <2>4 DEF Ops, DatapathsOnly, ErrorPending, CancelsOf
  <2>6. OneEach(f.ctx)
    BY <2>4, ContextAlone
  <2>7. \A type, ops : f.current.type = type => WorkingPhase(f, {}, type, ops)
    BY <2>4, <2>5 DEF WorkingPhase, NoCancel
  <2> QED BY <1>1, <2>4, <2>5, <2>6, <2>7 DEF Phases, Quiet
<1>3. CASE Datapaths # {}
  <2> DEFINE C == {[who |-> d, op |-> dpOp] : d \in Datapaths}
             g == IssueToAll(e, dpOp)
  <2>1. dpOp \in Asked
    BY DEF Asked
  <2>2. /\ OneEach(C) /\ Cardinality(C) = Cardinality(Datapaths)
        /\ C # {} /\ \A x \in C : x.op = dpOp
    BY <1>3, <2>1, ContextsOfAll
  <2>3. f = [g EXCEPT !.state = state]
    BY <1>1, <1>3 DEF Begin
  <2>4. /\ IsEngine(g) /\ g.ctx = {} \cup C /\ g.pending = e.pending
        /\ g.current = e.current /\ g.numCancel = 0 /\ g.toCancel = None
        /\ g.numDp = Cardinality(Datapaths)
    BY <2>1, IssuedToAll
  <2> HIDE DEF g, C
  <2>5. /\ IsEngine(f) /\ f.state = state /\ f.ctx = C /\ f.pending = e.pending
        /\ f.current = e.current /\ f.numCancel = 0 /\ f.toCancel = None
        /\ f.numDp = Cardinality(Datapaths)
    BY <2>3, <2>4, StateSet DEF States
  <2>6. Ops(f) \subseteq {dpOp} /\ ~ErrorPending(f) /\ CancelsOf(f) = {}
    BY <2>2, <2>5 DEF Ops, ErrorPending, CancelsOf
  <2>7. \A type, ops : f.current.type = type /\ dpOp \in ops => WorkingPhase(f, {}, type, ops)
    BY <2>2, <2>5, <2>6 DEF WorkingPhase, NoCancel
  <2> QED BY <1>1, <2>2, <2>5, <2>6, <2>7 DEF Phases, Quiet
<1> QED BY <1>2, <1>3

\* The switch of Run over a command that has become current.
LEMMA Processed ==
    ASSUME NEW e, IsEngine(e), e.state \in Quiet, e.ctx = {}, e.numCancel = 0,
           e.toCancel = None, e.state = "IDLE" => e.src # "active", ~ErrorPending(e),
           e.current.type \in {"pause", "stop", "reset", "quick", "sync"},
           NEW f, f = Process(e)
    PROVE  IsEngine(f) /\ Phases(f, CancelsOf(f))
<1>1. CASE e.current.type = "pause"
  <2>1. f = DoPause(e)
    BY <1>1 DEF Process
  <2>2. CASE e.state = "STARTED"
    BY <1>1, <2>1, <2>2, Begun DEF DoPause
  <2>3. CASE e.state # "STARTED"
    BY <2>1, <2>3, CompletedSettled DEF DoPause
  <2> QED BY <2>2, <2>3
<1>2. CASE e.current.type = "stop"
  <2>1. f = DoStop(e)
    BY <1>2 DEF Process
  <2>2. CASE e.state \in {"STARTED", "PAUSED"}
    BY <1>2, <2>1, <2>2, Begun DEF DoStop
  <2>3. CASE e.state \notin {"STARTED", "PAUSED"}
    BY <2>1, <2>3, CompletedSettled DEF DoStop
  <2> QED BY <2>2, <2>3
<1>3. CASE e.current.type = "reset"
  <2>1. f = DoReset(e)
    BY <1>3 DEF Process
  <2>2. CASE e.src = "active"
    <3>1. f = ResetSource(e)
      BY <2>1, <2>2 DEF DoReset
    <3>2. IsEngine(f) /\ Phases(f, {})
      BY <1>3, <3>1, ResetBegun DEF ResetTypes
    <3>3. f.numCancel = 0
      BY <3>1, SourceAsked
    <3> QED BY <3>2, <3>3 DEF CancelsOf
  <2>3. CASE e.src # "active"
    <3> DEFINE p == [d \in Datapaths |-> "none"]
               g == [e EXCEPT !.state = "IDLE", !.dp = p]
    <3>1. f = EngineCommandCompleted(g, TRUE)
      BY <2>1, <2>3 DEF DoReset
    <3>2. p \in [Datapaths -> {"none", "down", "idle", "active"}]
      OBVIOUS
    <3> HIDE DEF p
    <3>3. /\ IsEngine(g) /\ g.state = "IDLE" /\ g.pending = e.pending
          /\ g.toCancel = e.toCancel
          /\ g.numCancel = e.numCancel /\ g.ctx = e.ctx /\ g.src = e.src
      BY <3>2 DEF IsEngine, Members, States, Quiet
    <3> HIDE DEF g
    <3> QED BY <2>3, <3>1, <3>3, CompletedSettled DEF Quiet
  <2> QED BY <2>2, <2>3
<1>4. CASE e.current.type = "quick"
  <2>1. f = EngineCommandCompleted(e, FALSE)
    BY <1>4 DEF Process
  <2> QED BY <2>1, CompletedSettled
<1>5. CASE e.current.type = "sync"
  <2>1. f = [e EXCEPT !.current = None, !.ready = @ \/ e.pending # {}]
    BY <1>5 DEF Process
  <2>2. /\ IsEngine(f) /\ f.current = None
        /\ f.state = e.state /\ f.pending = e.pending
        /\ f.toCancel = e.toCancel /\ f.numCancel = e.numCancel
        /\ f.ctx = e.ctx /\ f.src = e.src
    BY <2>1 DEF IsEngine, Members
  <2>3. ~ErrorPending(f) /\ None.type = "none"
    BY <2>2 DEF ErrorPending, None
  <2> QED BY <2>2, <2>3, Settled
<1> QED BY <1>1, <1>2, <1>3, <1>4, <1>5

\* DoCancelAllCommands.
LEMMA AllCancelled ==
    ASSUME NEW e, IsEngine(e), Phases(e, {}), e.state # "RESETTING", ~ErrorPending(e),
           NEW c \in Command, c.type \in {"cancel", "cancelAll"},
           NEW f, f = DoCancelAllCommands(e, c)
    PROVE  IsEngine(f) /\ Phases(f, CancelsOf(f))
<1> DEFINE older == CancelledBy(e, c)
           now == older \cup (IF e.current = None THEN {} ELSE {e.current})
           g == [e EXCEPT !.state = "RESETTING", !.toCancel = e.current,
                          !.pending = @ \ older, !.answered = AnswerAll(@, now),
                          !.ready = @ \/ CancelSchedules(e, older), !.current = c]
<1>1. f = IF g.toCancel = None
          THEN IF g.src = "active" THEN ResetSource(g)
               ELSE EngineCommandCompleted([g EXCEPT !.state = "IDLE"], TRUE)
          ELSE IF g.ctx # {} THEN DoCancelPendingNodeDatapathCommand(g)
          ELSE ResetSource([g EXCEPT !.toCancel = None])
  BY DEF DoCancelAllCommands
<1> HIDE DEF older, now
<1>2. /\ IsEngine(g) /\ g.state = "RESETTING" /\ g.toCancel = e.current /\ g.current = c
      /\ g.pending \subseteq e.pending /\ g.numCancel = e.numCancel
      /\ g.ctx = e.ctx /\ g.src = e.src /\ g.numDp = e.numDp
  BY DEF IsEngine, Members, States
<1> HIDE DEF g
<1>3. ~ErrorPending(g) /\ c.type \in ResetTypes
  BY <1>2 DEF ErrorPending, ResetTypes
<1>4. NoCancel(e, {}) /\ OneEach(e.ctx) /\ e.state # "ERROR"
  BY CancelState DEF Phases, ErrorPhase
<1>5. CASE g.toCancel = None
  <2>1. e.state \in Quiet
    BY <1>2, <1>4, <1>5 DEF Phases, WorkingPhase, None, IsEngine, States
  <2>2. e.ctx = {}
    BY <2>1 DEF Phases, QuietPhase
  <2>3. CASE g.src = "active"
    <3>1. f = ResetSource(g)
      BY <1>1, <1>5, <2>3
    <3>2. IsEngine(f) /\ Phases(f, {})
      BY <1>2, <1>3, <1>4, <1>5, <2>2, <3>1, ResetBegun DEF NoCancel
    <3>3. f.numCancel = 0
      BY <1>2, <1>4, <3>1, SourceAsked DEF NoCancel
    <3> QED BY <3>2, <3>3 DEF CancelsOf
  <2>4. CASE g.src # "active"
    <3> DEFINE h == [g EXCEPT !.state = "IDLE"]
    <3>1. f = EngineCommandCompleted(h, TRUE)
      BY <1>1, <1>5, <2>4
    <3>2. /\ IsEngine(h) /\ h.state = "IDLE" /\ h.pending = g.pending
          /\ h.toCancel = g.toCancel /\ h.numCancel = g.numCancel
          /\ h.ctx = g.ctx /\ h.src = g.src
      BY <1>2, StateSet DEF States, Quiet
    <3> HIDE DEF h
    <3> QED BY <1>2, <1>4, <1>5, <2>2, <2>4, <3>1, <3>2, CompletedSettled DEF Quiet, NoCancel
  <2> QED BY <2>3, <2>4
<1>6. CASE g.toCancel # None /\ g.ctx # {}
  <2>1. f = DoCancelPendingNodeDatapathCommand(g)
    BY <1>1, <1>6
  <2>2. Ops(e) \subseteq Asked
    BY <1>2, <1>4, <1>6 DEF Phases, QuietPhase, WorkingPhase, Asked, IsEngine, States
  <2>3. Ops(g) \subseteq Asked
    BY <1>2, <2>2 DEF Ops
  <2> QED BY <1>2, <1>3, <1>4, <1>6, <2>1, <2>3, CancelBegun
<1>7. CASE g.toCancel # None /\ g.ctx = {}
  <2> DEFINE h == [g EXCEPT !.toCancel = None]
  <2>1. f = ResetSource(h)
    BY <1>1, <1>7
  <2>2. /\ IsEngine(h) /\ h.pending = g.pending /\ h.current = c
        /\ h.toCancel = None /\ h.numCancel = 0 /\ h.ctx = {}
    BY <1>2, <1>4, <1>7 DEF IsEngine, Members, NoCancel
  <2> HIDE DEF h
  <2>3. IsEngine(f) /\ Phases(f, {})
    BY <1>3, <2>1, <2>2, ResetBegun
  <2>4. f.numCancel = 0
    BY <2>1, <2>2, SourceAsked
  <2> QED BY <2>3, <2>4 DEF CancelsOf
<1> QED BY <1>5, <1>6, <1>7

\* What keeps the phase outside RESETTING starts no cancel.
LEMMA PhaseKeptInRun ==
    ASSUME NEW e, Phases(e, {}), NoCancel(e, {}), NEW f, IsEngine(f),
           f.state = e.state, f.current = e.current, f.toCancel = e.toCancel,
           f.numCancel = e.numCancel, f.numDp = e.numDp, f.ctx = e.ctx,
           f.dp = e.dp, f.src = e.src, ErrorPending(f) <=> ErrorPending(e)
    PROVE  IsEngine(f) /\ Phases(f, {}) /\ CancelsOf(f) = {}
BY PhaseKept DEF CancelsOf, NoCancel

\* DoCancelCommand.
LEMMA OneCancelled ==
    ASSUME NEW e, IsEngine(e), Phases(e, {}), NoCancel(e, {}), ~ErrorPending(e),
           NEW c \in Command, NEW f, f = DoCancelCommand(e, c)
    PROVE  IsEngine(f) /\ Phases(f, {}) /\ CancelsOf(f) = {}
<1> DEFINE named == {d \in e.pending : d.id = c.arg}
<1>1. CASE named = {}
  <2>1. f = AnswerOutOfTurn(e, c)
    BY <1>1 DEF DoCancelCommand
  <2>2. /\ IsEngine(f)
        /\ f.state = e.state /\ f.pending = e.pending /\ f.current = e.current
        /\ f.toCancel = e.toCancel /\ f.numCancel = e.numCancel
        /\ f.numDp = e.numDp /\ f.ctx = e.ctx /\ f.dp = e.dp /\ f.src = e.src
    BY <2>1, OutOfTurn
  <2>3. ErrorPending(f) <=> ErrorPending(e)
    BY <2>2 DEF ErrorPending
  <2> QED BY <2>2, <2>3, PhaseKeptInRun
<1>2. CASE named # {}
  <2> DEFINE d == CHOOSE d \in named : TRUE
             g == [e EXCEPT !.pending = @ \ {d}]
             h == AnswerOutOfTurn(g, d)
  <2>1. d \in named
    BY <1>2
  <2>2. d \in Command
    BY <2>1 DEF IsEngine
  <2>3. f = AnswerOutOfTurn(h, c)
    BY <1>2 DEF DoCancelCommand
  <2> HIDE DEF d
  <2>4. /\ IsEngine(g)
        /\ g.state = e.state /\ g.pending \subseteq e.pending /\ g.current = e.current
        /\ g.toCancel = e.toCancel /\ g.numCancel = e.numCancel
        /\ g.numDp = e.numDp /\ g.ctx = e.ctx /\ g.dp = e.dp /\ g.src = e.src
    BY DEF IsEngine, Members
  <2> HIDE DEF g
  <2>5. /\ IsEngine(h)
        /\ h.state = g.state /\ h.pending = g.pending /\ h.current = g.current
        /\ h.toCancel = g.toCancel /\ h.numCancel = g.numCancel
        /\ h.numDp = g.numDp /\ h.ctx = g.ctx /\ h.dp = g.dp /\ h.src = g.src
    BY <2>2, <2>4, OutOfTurn
  <2> HIDE DEF h
  <2>6. /\ IsEngine(f)
        /\ f.state = h.state /\ f.pending = h.pending /\ f.current = h.current
        /\ f.toCancel = h.toCancel /\ f.numCancel = h.numCancel
        /\ f.numDp = h.numDp /\ f.ctx = h.ctx /\ f.dp = h.dp /\ f.src = h.src
    BY <2>3, <2>5, OutOfTurn
  <2>7. ErrorPending(f) <=> ErrorPending(e)
    BY <2>4, <2>5, <2>6 DEF ErrorPending
  <2> QED BY <2>4, <2>5, <2>6, <2>7, PhaseKeptInRun
<1> QED BY <1>1, <1>2

\* Run keeps the phases; the cancels it starts are those of all contexts.
LEMMA RunPhases ==
    ASSUME NEW e, NEW K, IsEngine(e), Phases(e, K), NEW f, f = RunStep(e)
    PROVE  /\ IsEngine(f)
           /\ Phases(f, IF f.numCancel > 0 /\ e.numCancel = 0 THEN Whos(f) ELSE K)
<1>1. CASE e.state = "RESETTING"
  <2>1. f = e
    BY <1>1 DEF RunStep
  <2> QED BY <2>1
<1>2. ASSUME e.state # "RESETTING", IsEngine(f), Phases(f, CancelsOf(f))
      PROVE  Phases(f, IF f.numCancel > 0 /\ e.numCancel = 0 THEN Whos(f) ELSE K)
  BY <1>2, CancelState DEF NoCancel, CancelsOf
<1>3. CASE e.state # "RESETTING" /\ CheckForPendingErrorHandlingCmd(e)
  <2>1. f = DoErrorHandling(e)
    BY <1>3 DEF RunStep
  <2>2. Phases(e, {})
    BY <1>3, CancelState DEF NoCancel
  <2> QED BY <1>2, <1>3, <2>1, <2>2, ErrorHandled
<1>4. CASE e.state # "RESETTING" /\ ~CheckForPendingErrorHandlingCmd(e)
  <2> DEFINE a == IF e.current.type \in ResetTypes THEN FinishReset(e) ELSE e
             c == Top(a.pending)
             g == [a EXCEPT !.pending = @ \ {c}]
             h == [g EXCEPT !.current = c]
  <2>1. f = IF a.pending = {} THEN a
            ELSE IF \/ c.type = "cancelAll"
                    \/ c.type = "cancel" /\ g.current # None /\ g.current.id = c.arg
                 THEN DoCancelAllCommands(g, c)
                 ELSE IF c.type = "cancel" THEN DoCancelCommand(g, c)
                 ELSE IF a.current # None THEN a
                 ELSE Process(h)
    BY <1>4 DEF RunStep, ResetTypes
  <2>2. Phases(e, {}) /\ NoCancel(e, {})
    BY <1>4, CancelState DEF NoCancel
  <2>3. /\ IsEngine(a) /\ Phases(a, {}) /\ CancelsOf(a) = {} /\ NoCancel(a, {})
        /\ a.state = e.state /\ a.pending = e.pending
        /\ ~ErrorPending(a) /\ a.state \in Quiet => a.current = None
    <3>1. CASE e.current.type \in ResetTypes
      <4> DEFINE p == [d \in Datapaths |-> "none"]
                 b == [e EXCEPT !.dp = p]
      <4>1. a = EngineCommandCompleted(b, TRUE)
        BY <3>1 DEF FinishReset
      <4>2. p \in [Datapaths -> {"none", "down", "idle", "active"}]
        OBVIOUS
      <4> HIDE DEF p, a
      <4>3. /\ IsEngine(b)
            /\ b.state = e.state /\ b.pending = e.pending /\ b.current = e.current
            /\ b.toCancel = e.toCancel /\ b.numCancel = e.numCancel
            /\ b.numDp = e.numDp /\ b.ctx = e.ctx /\ b.src = e.src
        BY <4>2 DEF IsEngine, Members
      <4> HIDE DEF b
      <4>4. /\ IsEngine(a)
            /\ a.state = b.state /\ a.pending = b.pending /\ a.current = None
            /\ a.toCancel = b.toCancel /\ a.numCancel = b.numCancel
            /\ a.numDp = b.numDp /\ a.ctx = b.ctx /\ a.src \in {b.src, "none"}
        BY <4>1, <4>3, Completed
      <4>5. e.state \in Quiet \cup {"ERROR"}
        BY <1>4, <2>2, <3>1 DEF Phases, WorkingPhase, ResetTypes, IsEngine, States
      <4>6. (ErrorPending(a) <=> ErrorPending(e)) /\ None.type = "none" /\ NoCancel(a, {})
        BY <2>2, <4>3, <4>4 DEF ErrorPending, None, NoCancel
      <4>7. CASE e.state \in Quiet
        <5>1. QuietPhase(e, {})
          BY <2>2, <4>7 DEF Phases
        <5>2. Phases(a, {}) /\ CancelsOf(a) = {}
          BY <4>3, <4>4, <4>6, <4>7, <5>1, Settled DEF QuietPhase, NoCancel
        <5> QED BY <4>3, <4>4, <4>6, <5>2
      <4>8. CASE e.state = "ERROR"
        <5>1. ErrorPhase(e, {}) /\ OneEach(e.ctx)
          BY <2>2, <4>8 DEF Phases
        <5>2. ErrorPhase(a, {})
          BY <4>3, <4>4, <4>6, <5>1 DEF ErrorPhase, DatapathsOnly, Ops
        <5>3. Phases(a, {})
          BY <4>3, <4>4, <4>8, <5>1, <5>2 DEF Phases, Quiet
        <5>4. CancelsOf(a) = {}
          BY <4>6 DEF CancelsOf, NoCancel
        <5> QED BY <4>3, <4>4, <4>6, <5>3, <5>4
      <4> QED BY <4>5, <4>7, <4>8
    <3>2. CASE e.current.type \notin ResetTypes
      <4>1. a = e
        BY <3>2
      <4> HIDE DEF a
      <4>2. CancelsOf(a) = {}
        BY <2>2, <4>1 DEF CancelsOf, NoCancel
      <4>3. ASSUME ~ErrorPending(e), e.state \in Quiet PROVE e.current = None
        BY <2>2, <3>2, <4>3 DEF Phases, QuietPhase, IsEngine, Command, Ordinary, EHTypes
      <4> QED BY <2>2, <4>1, <4>2, <4>3
    <3> QED BY <3>1, <3>2
  <2> HIDE DEF a
  <2>4. CASE a.pending = {}
    BY <1>2, <1>4, <2>1, <2>3, <2>4
  <2>5. CASE a.pending # {}
    <3>1. c \in a.pending /\ c \in Command
      BY <2>3, <2>5, TopIsFirst DEF IsEngine
    <3>2. ErrorPending(a) => c.type = "sync"
      BY <1>4, <2>3, ErrorOnTop DEF ErrorPending
    <3>3. c.type \notin EHTypes
      BY <1>4, <2>3, <3>1 DEF CheckForPendingErrorHandlingCmd
    <3> HIDE DEF c
    <3>4. /\ IsEngine(g) /\ g.state = a.state /\ g.pending = a.pending \ {c}
          /\ g.current = a.current
          /\ g.toCancel = a.toCancel /\ g.numCancel = a.numCancel
          /\ g.numDp = a.numDp /\ g.ctx = a.ctx /\ g.dp = a.dp /\ g.src = a.src
      BY <2>3 DEF IsEngine, Members
    <3> HIDE DEF g
    <3>5. ErrorPending(g) <=> ErrorPending(a)
      BY <3>3, <3>4 DEF ErrorPending
    <3>6. Phases(g, {}) /\ CancelsOf(g) = {}
      BY <2>3, <3>4, <3>5, PhaseKeptInRun
    <3>7. NoCancel(g, {})
      BY <2>3, <3>4 DEF NoCancel
    <3>8. CASE \/ c.type = "cancelAll"
               \/ c.type = "cancel" /\ g.current # None /\ g.current.id = c.arg
      <4>1. f = DoCancelAllCommands(g, c)
        BY <2>1, <2>5, <3>8
      <4>2. ~ErrorPending(g) /\ c.type \in {"cancel", "cancelAll"}
        BY <3>2, <3>5, <3>8
      <4> QED BY <1>2, <1>4, <2>3, <3>1, <3>4, <3>6, <4>1, <4>2, AllCancelled
    <3>9. CASE c.type = "cancel" /\ ~(g.current # None /\ g.current.id = c.arg)
      <4>1. f = DoCancelCommand(g, c)
        BY <2>1, <2>5, <3>9
      <4>2. ~ErrorPending(g)
        BY <3>2, <3>5, <3>9
      <4> QED BY <1>2, <1>4, <3>1, <3>4, <3>6, <3>7, <4>1, <4>2, OneCancelled
    <3>10. CASE c.type \notin {"cancel", "cancelAll"} /\ a.current # None
      <4>1. f = a
        BY <2>1, <2>5, <3>10
      <4> QED BY <1>2, <1>4, <2>3, <4>1
    <3>11. CASE c.type \notin {"cancel", "cancelAll"} /\ a.current = None
      <4>1. f = Process(h)
        BY <2>1, <2>5, <3>11
      <4>2. /\ IsEngine(h) /\ h.state = a.state /\ h.pending = g.pending
            /\ h.current = c
            /\ h.toCancel = a.toCancel /\ h.numCancel = a.numCancel
            /\ h.numDp = a.numDp /\ h.ctx = a.ctx /\ h.dp = a.dp /\ h.src = a.src
        BY <3>1, <3>4 DEF IsEngine, Members
      <4> HIDE DEF h
      <4>3. CASE ErrorPending(a)
        <5>1. h.current.type = "sync"
          BY <3>2, <4>2, <4>3
        <5>2. f = [h EXCEPT !.current = None, !.ready = @ \/ h.pending # {}]
          BY <4>1, <5>1 DEF Process
        <5>3. /\ IsEngine(f) /\ f.current = None
              /\ f.state = h.state /\ f.pending = h.pending
              /\ f.toCancel = h.toCancel /\ f.numCancel = h.numCancel
              /\ f.numDp = h.numDp /\ f.ctx = h.ctx /\ f.dp = h.dp /\ f.src = h.src
          BY <4>2, <5>2 DEF IsEngine, Members
        <5>4. ErrorPending(f) <=> ErrorPending(a)
          BY <3>5, <4>2, <5>3 DEF ErrorPending
        <5>5. Phases(f, {}) /\ CancelsOf(f) = {}
          BY <2>3, <3>11, <4>2, <5>3, <5>4, PhaseKeptInRun
        <5> QED BY <1>2, <1>4, <5>3, <5>5
      <4>4. CASE ~ErrorPending(a)
        <5>1. a.state \in Quiet
          BY <1>4, <2>3, <3>11, <4>4
          DEF Phases, WorkingPhase, ErrorPhase, None, IsEngine, States
        <5>2. QuietPhase(a, {})
          BY <2>3, <5>1 DEF Phases
        <5>3. ~ErrorPending(h)
          BY <3>5, <4>2, <4>4 DEF ErrorPending
        <5>4. h.current.type \in {"pause", "stop", "reset", "quick", "sync"}
          BY <3>1, <3>3, <3>11, <4>2 DEF Command, Ordinary
        <5> QED BY <1>2, <1>4, <4>1, <4>2, <5>1, <5>2, <5>3, <5>4, Processed
                DEF QuietPhase, NoCancel
      <4> QED BY <4>3, <4>4
    <3> QED BY <3>8, <3>9, <3>10, <3>11
  <2> QED BY <2>4, <2>5
<1> QED BY <1>1, <1>3, <1>4

-----------------------------------------------------------------------------
(***************************************************************************)
(* The invariant of the specification.                                     *)
(***************************************************************************)
OrdinaryCommand == {c \in Command : c.type \in Ordinary}

\* What the callers hand over is never an error handling command.
CallersTyped ==
    /\ tsq \in Seq(OrdinaryCommand)
    /\ DOMAIN pc = Callers /\ DOMAIN hand = Callers
    /\ \A t \in Callers : pc[t] = "push" => hand[t] \in OrdinaryCommand
    /\ syncId \in Nat

EngineInv == IsEngine(eng) /\ Phases(eng, cancels) /\ CallersTyped

\* A command that is not an error handling one keeps the phase.
LEMMA OrdinaryAdded ==
    ASSUME NEW e, NEW K, IsEngine(e), Phases(e, K), NEW c \in OrdinaryCommand,
           NEW f, f = AddCommandToQueue(e, c)
    PROVE  IsEngine(f) /\ Phases(f, K)
<1>1. c \in Command /\ c.type \notin EHTypes
  BY DEF OrdinaryCommand, Ordinary, EHTypes
<1>2. /\ IsEngine(f) /\ f.state = e.state
      /\ f.pending = e.pending \cup {c} /\ f.current = e.current
      /\ f.toCancel = e.toCancel /\ f.numCancel = e.numCancel
      /\ f.numDp = e.numDp /\ f.ctx = e.ctx /\ f.dp = e.dp /\ f.src = e.src
  BY <1>1, CommandAdded
<1>3. ErrorPending(f) <=> ErrorPending(e)
  BY <1>1, <1>2 DEF ErrorPending
<1> QED BY <1>2, <1>3, PhaseKept

\* The engine starts settled, with its nodes running.
LEMMA EngineInit == Init => EngineInv
<1> SUFFICES ASSUME Init PROVE EngineInv
  OBVIOUS
<1> USE DEF Init
<1>1. IsEngine(eng)
  BY DEF IsEngine, Members, States, Quiet
<1>2. ~ErrorPending(eng) /\ eng.current.type = "none"
  BY DEF ErrorPending, None
<1>3. Phases(eng, {})
  BY <1>1, <1>2, Settled DEF Quiet
<1>4. CallersTyped
  BY DEF CallersTyped
<1> QED BY <1>1, <1>3, <1>4 DEF EngineInv

\* Every step of the engine, of its nodes and of its callers keeps the phases.
LEMMA EngineStep == EngineInv /\ [Next]_vars => EngineInv'
<1> SUFFICES ASSUME EngineInv, [Next]_vars PROVE EngineInv'
  OBVIOUS
<1>0. IsEngine(eng) /\ Phases(eng, cancels) /\ CallersTyped
  BY DEF EngineInv
<1>1. ASSUME UNCHANGED <<tsq, pc, hand, syncId>>, IsEngine(eng)', Phases(eng, cancels)'
      PROVE  EngineInv'
  BY <1>0, <1>1 DEF EngineInv, CallersTyped
<1>2. ASSUME UNCHANGED <<eng, cancels>>, CallersTyped'
      PROVE  EngineInv'
  BY <1>0, <1>2 DEF EngineInv
<1>3. CASE Run
  <2> DEFINE b == [eng EXCEPT !.ready = FALSE]
  <2>1. /\ eng' = RunStep(b)
        /\ cancels' = IF eng'.numCancel > 0 /\ eng.numCancel = 0
                      THEN {c.who : c \in eng'.ctx} ELSE cancels
        /\ UNCHANGED <<tsq, pc, hand, syncId>>
    BY <1>3 DEF Run, tsqVars
  <2>2. /\ IsEngine(b)
        /\ b.state = eng.state /\ b.pending = eng.pending /\ b.current = eng.current
        /\ b.toCancel = eng.toCancel /\ b.numCancel = eng.numCancel
        /\ b.numDp = eng.numDp /\ b.ctx = eng.ctx /\ b.dp = eng.dp /\ b.src = eng.src
    BY <1>0 DEF IsEngine, Members
  <2> HIDE DEF b
  <2>3. Phases(b, cancels)
    <3>1. ErrorPending(b) <=> ErrorPending(eng)
      BY <2>2 DEF ErrorPending
    <3> QED BY <1>0, <2>2, <3>1, PhaseKept
  <2>4. /\ IsEngine(eng')
        /\ Phases(eng', IF eng'.numCancel > 0 /\ b.numCancel = 0
                        THEN Whos(eng') ELSE cancels)
    BY <2>1, <2>2, <2>3, RunPhases
  <2>5. cancels' = IF eng'.numCancel > 0 /\ b.numCancel = 0 THEN Whos(eng') ELSE cancels
    BY <2>1, <2>2 DEF Whos
  <2> QED BY <1>1, <2>1, <2>4, <2>5
<1>4. ASSUME NEW d \in Datapaths, NEW ok \in BOOLEAN, DatapathDone(d, ok)
      PROVE  EngineInv'
  <2>1. PICK c \in eng.ctx :
          /\ c.who = d /\ c.op \in Asked
          /\ eng' = FreeEngineContext(
                      HandlePlayerDatapathEvent(
                        [eng EXCEPT !.dp[d] = IF c.op = "DPReset" THEN "idle" ELSE @], c, ok),
                      c)
    BY <1>4 DEF DatapathDone, Asked
  <2>2. d \notin cancels /\ UNCHANGED <<cancels, tsq, pc, hand, syncId>>
    BY <1>4 DEF DatapathDone, tsqVars, callVars
  <2> DEFINE m == [eng EXCEPT !.dp[c.who] = IF c.op = "DPReset" THEN "idle" ELSE @]
  <2>3. eng' = FreeEngineContext(HandlePlayerDatapathEvent(m, c, ok), c)
    BY <2>1
  <2>4. IsEngine(m) /\ Phases(m, cancels) /\ m.ctx = eng.ctx
    BY <1>0, <2>1, DatapathMarked
  <2> HIDE DEF m
  <2>5. IsEngine(eng') /\ Phases(eng', cancels)
    BY <2>1, <2>2, <2>3, <2>4, DatapathAnswered
  <2> QED BY <1>1, <2>2, <2>5
<1>5. ASSUME NEW d \in Datapaths, NodeDone(d)
      PROVE  EngineInv'
  <2>1. PICK c \in eng.ctx :
          /\ c.who = d /\ c.op \in {"DecReset", "SinkReset"}
          /\ eng' = FreeEngineContext(IF c.op = "DecReset" THEN HandleDecNodeReset(eng, d)
                                      ELSE HandleSinkNodeReset(eng, d), c)
    BY <1>5 DEF NodeDone
  <2>2. IsEngine(eng') /\ Phases(eng', cancels)
    BY <1>0, <2>1, NodeAnswered
  <2>3. UNCHANGED <<cancels, tsq, pc, hand, syncId>>
    BY <1>5 DEF NodeDone, tsqVars, callVars
  <2> QED BY <1>1, <2>2, <2>3
<1>6. ASSUME NEW ok \in BOOLEAN, SourceDone(ok)
      PROVE  EngineInv'
  <2>1. PICK c \in eng.ctx :
          c.who = Src /\ eng' = FreeEngineContext(SourceCommandCompleted(eng, ok), c)
    BY <1>6 DEF SourceDone
  <2>2. IsEngine(eng') /\ Phases(eng', cancels)
    BY <1>0, <2>1, SourceAnswered
  <2>3. UNCHANGED <<cancels, tsq, pc, hand, syncId>>
    BY <1>6 DEF SourceDone, tsqVars, callVars
  <2> QED BY <1>1, <2>2, <2>3
<1>7. ASSUME NEW w, CancelDone(w)
      PROVE  EngineInv'
  <2>1. /\ w \in cancels /\ cancels' = cancels \ {w} /\ eng' = AfterCancel(eng, w)
        /\ UNCHANGED <<tsq, pc, hand, syncId>>
    BY <1>7 DEF CancelDone, AfterCancel, CancelCounted, tsqVars, callVars
  <2>2. IsEngine(eng') /\ Phases(eng', cancels \ {w})
    BY <1>0, <2>1, CancelAnswered
  <2> QED BY <1>1, <2>1, <2>2
<1>8. CASE SourceError
  <2>1. /\ UNCHANGED <<cancels, tsq, pc, hand, syncId>>
        /\ eng' = IF eng.state = "RESETTING" \/ (\E c \in eng.ctx : c.who = Src) THEN eng
                  ELSE AddErrorHandlingCmd(eng, "ehGeneral")
    BY <1>8 DEF SourceError, tsqVars, callVars
  <2>2. CASE eng' = eng
    BY <1>0, <1>1, <2>1, <2>2
  <2>3. CASE /\ eng.state # "RESETTING" /\ DatapathsOnly(eng)
             /\ eng' = AddErrorHandlingCmd(eng, "ehGeneral")
    <3>1. IsEngine(eng') /\ Phases(eng', cancels)
      BY <1>0, <2>3, ErrorReported
    <3> QED BY <1>1, <2>1, <3>1
  <2> QED BY <2>1, <2>2, <2>3 DEF DatapathsOnly
<1>9. ASSUME NEW type \in ApiTypes, NEW arg \in Args(type), IssueCommand(type, arg)
      PROVE  EngineInv'
  <2> DEFINE e == [eng EXCEPT !.nextId = @ + 1]
             c == NewCommand(type, arg)
  <2>1. /\ IsEngine(e)
        /\ e.state = eng.state /\ e.pending = eng.pending /\ e.current = eng.current
        /\ e.toCancel = eng.toCancel /\ e.numCancel = eng.numCancel
        /\ e.numDp = eng.numDp /\ e.ctx = eng.ctx /\ e.dp = eng.dp /\ e.src = eng.src
    BY <1>0 DEF IsEngine, Members
  <2>2. c \in OrdinaryCommand
    <3>1. eng.nextId \in Nat /\ type \in Ordinary
      BY <1>0, ApiTypesAssumption DEF IsEngine, Ordinary
    <3>2. arg \in Int
      BY <3>1 DEF Args
    <3> QED BY <3>1, <3>2 DEF NewCommand, OrdinaryCommand, Command
  <2>3. /\ UNCHANGED <<cancels, tsq, syncId>>
        /\ \/ eng' = AddCommandToQueue(e, c) /\ UNCHANGED <<pc, hand>>
           \/ /\ eng' = e /\ pc' = [pc EXCEPT !["app"] = "push"]
              /\ hand' = [hand EXCEPT !["app"] = c]
    BY <1>9 DEF IssueCommand, tsqVars
  <2> HIDE DEF e, c
  <2>4. Phases(e, cancels)
    <3>1. ErrorPending(e) <=> ErrorPending(eng)
      BY <2>1 DEF ErrorPending
    <3> QED BY <1>0, <2>1, <3>1, PhaseKept
  <2>5. CASE eng' = AddCommandToQueue(e, c) /\ UNCHANGED <<pc, hand>>
    <3>1. IsEngine(eng') /\ Phases(eng', cancels)
      BY <2>1, <2>2, <2>4, <2>5, OrdinaryAdded
    <3> QED BY <1>1, <2>3, <2>5, <3>1
  <2>6. CASE /\ eng' = e /\ pc' = [pc EXCEPT !["app"] = "push"]
             /\ hand' = [hand EXCEPT !["app"] = c]
    <3>1. CallersTyped'
      BY <1>0, <2>2, <2>3, <2>6 DEF CallersTyped, Callers
    <3> QED BY <2>1, <2>3, <2>4, <2>6, <3>1 DEF EngineInv
  <2> QED BY <2>3, <2>5, <2>6
<1>10. CASE SyncCall
  <2>1. [type |-> "sync", id |-> syncId + 1, arg |-> -1] \in OrdinaryCommand
    BY <1>0 DEF CallersTyped, OrdinaryCommand, Command, Ordinary
  <2>2. CallersTyped'
    BY <1>0, <1>10, <2>1 DEF SyncCall, CallersTyped, Callers, tsqVars
  <2> QED BY <1>2, <1>10, <2>2 DEF SyncCall
<1>11. CASE SyncReturn
  <2>1. CallersTyped'
    BY <1>0, <1>11 DEF SyncReturn, CallersTyped, Callers, tsqVars
  <2> QED BY <1>2, <1>11, <2>1 DEF SyncReturn
<1>12. ASSUME NEW t \in Callers, AddToQueue(t)
      PROVE  EngineInv'
  <2>1. /\ tsq' = Append(tsq, hand[t]) /\ pc[t] = "push" /\ syncId' = syncId
        /\ \E x \in {"signal", "block", "idle"} : pc' = [pc EXCEPT ![t] = x]
        /\ hand' = [hand EXCEPT ![t] = None] /\ UNCHANGED <<eng, cancels>>
    BY <1>12 DEF AddToQueue, Queued
  <2>2. tsq' \in Seq(OrdinaryCommand)
    BY <1>0, <2>1 DEF CallersTyped
  <2>3. CallersTyped'
    BY <1>0, <2>1, <2>2 DEF CallersTyped
  <2> QED BY <1>2, <2>1, <2>3
<1>13. ASSUME NEW t \in Callers, SignalQueue(t)
      PROVE  EngineInv'
  <2>1. /\ tsq' = tsq /\ syncId' = syncId /\ hand' = hand
        /\ \E x \in {"block", "idle"} : pc' = [pc EXCEPT ![t] = x]
        /\ UNCHANGED <<eng, cancels>>
    BY <1>13 DEF SignalQueue, Queued
  <2>2. CallersTyped'
    BY <1>0, <2>1 DEF CallersTyped
  <2> QED BY <1>2, <2>1, <2>2
<1>14. CASE QueueRun
  BY <1>0, <1>2, <1>14 DEF QueueRun, callVars, CallersTyped
<1>15. CASE DeQueue
  <2>1. UNCHANGED <<cancels, pc, hand, syncId>>
    BY <1>15 DEF DeQueue, callVars
  <2>2. CASE tsq = <<>>
    BY <1>0, <1>1, <1>15, <2>1, <2>2 DEF DeQueue
  <2>3. CASE tsq # <<>>
    <3>1. tsq' = Tail(tsq) /\ eng' = AddCommandToQueue(eng, Head(tsq))
      BY <1>15, <2>3 DEF DeQueue
    <3>2. Head(tsq) \in OrdinaryCommand /\ Tail(tsq) \in Seq(OrdinaryCommand)
      BY <1>0, <2>3 DEF CallersTyped
    <3>3. IsEngine(eng') /\ Phases(eng', cancels)
      BY <1>0, <3>1, <3>2, OrdinaryAdded
    <3>4. CallersTyped'
      BY <1>0, <2>1, <3>1, <3>2 DEF CallersTyped
    <3> QED BY <2>1, <3>3, <3>4 DEF EngineInv
  <2> QED BY <2>2, <2>3
<1>16. CASE UNCHANGED vars
  BY <1>0, <1>1, <1>16 DEF vars
<1> QED
  BY <1>3, <1>4, <1>5, <1>6, <1>7, <1>8, <1>9, <1>10, <1>11, <1>12, <1>13, <1>14,
     <1>15, <1>16
  DEF Next, EngineThread, NodeAnswers, CallerStep

\* So the phases are an invariant, whatever the budgets.
LEMMA EngineInvariant == Spec => []EngineInv
<1> QED BY EngineInit, EngineStep, PTL DEF Spec

(***************************************************************************)
(* iNumberCancelCmdPending and iNumPendingDatapathCmd are the answers still *)
(* to come, for any number of datapaths, however failures, errors, cancels, *)
(* synchronous calls and late answers interleave.                          *)
(***************************************************************************)
THEOREM CountersCorrect == Spec => []CountersMatch
<1>1. EngineInv => CountersMatch
  <2> SUFFICES ASSUME EngineInv PROVE CountersMatch
    OBVIOUS
  <2>1. IsEngine(eng) /\ Phases(eng, cancels)
    BY DEF EngineInv
  <2>2. eng.numCancel = Cardinality(cancels)
    <3>1. CASE cancels # {}
      <4>1. eng.state = "RESETTING"
        BY <2>1, <3>1, CancelState DEF NoCancel
      <4> QED BY <2>1, <3>1, <4>1 DEF Phases, CancelPhase
    <3>2. CASE cancels = {}
      <4>1. NoCancel(eng, cancels)
        BY <2>1, <3>2, CancelState DEF Phases, ResetPhase
      <4> QED BY <3>2, <4>1, NoContext DEF NoCancel
    <3> QED BY <3>1, <3>2
  <2>3. ASSUME eng.state \in {"PAUSING", "STOPPING", "RESETTING"}, cancels = {},
               \A c \in eng.ctx : c.who # Src
        PROVE  eng.numDp = Cardinality(eng.ctx)
    BY <2>1, <2>3 DEF Phases, WorkingPhase, ResetPhase, DatapathsOnly
  <2> QED BY <2>2, <2>3 DEF CountersMatch
<1> QED BY <1>1, EngineInvariant, PTL

(***************************************************************************)
(* The states the application sees are settled: nothing is outstanding on  *)
(* a node, no cancel is under way, and an idle engine has reset its source *)
(* node.                                                                   *)
(***************************************************************************)
THEOREM QuietCorrect == Spec => []QuietStatesAreSettled
<1>1. EngineInv => QuietStatesAreSettled
  BY DEF EngineInv, Phases, QuietPhase, NoCancel, QuietStatesAreSettled
<1> QED BY <1>1, EngineInvariant, PTL

-----------------------------------------------------------------------------
(***************************************************************************)
(* What an answer does to the commands.  It leaves them alone (and, if it  *)
(* ends the resets, schedules the engine), or completes the current one,   *)
(* or, when it fails, adds an error handling command.                      *)
(***************************************************************************)
Kept(e, f) ==
    /\ f.pending = e.pending /\ f.current = e.current
    /\ f.answered = e.answered /\ f.nextId = e.nextId
    /\ \/ f.state = e.state /\ f.ready = e.ready
       \/ f.state = "IDLE" /\ f.ready

Done(e, f) ==
    /\ f.pending = e.pending /\ f.current = None /\ e.current # None
    /\ f.answered = Answer(e.answered, e.current.id) /\ f.nextId = e.nextId
    /\ f.ready \/ f.pending = {}

Erred(e, f) ==
    /\ f.state = "ERROR" /\ f.ready /\ f.current = e.current
    /\ f.answered = e.answered /\ f.nextId = e.nextId + 1
    /\ \E type \in EHTypes :
           f.pending = e.pending \cup {[type |-> type, id |-> e.nextId, arg |-> -1]}

Handled(e, f, fails) == Kept(e, f) \/ Done(e, f) \/ (fails /\ Erred(e, f))

\* A completed command leaves the engine scheduled if others wait.
LEMMA CompletedReady ==
    ASSUME NEW e, IsEngine(e), NEW f,
           f = EngineCommandCompleted(e, TRUE) \/ f = EngineCommandCompleted(e, FALSE)
    PROVE  f.ready \/ f.pending = {}
<1>1. CASE f = EngineCommandCompleted(e, TRUE)
  BY <1>1 DEF IsEngine, Members, EngineCommandCompleted
<1>2. CASE f = EngineCommandCompleted(e, FALSE)
  BY <1>2 DEF IsEngine, Members, EngineCommandCompleted
<1> QED BY <1>1, <1>2

\* So does one that is answered out of turn.
LEMMA OutOfTurnReady ==
    ASSUME NEW e, IsEngine(e), NEW c, NEW f, f = AnswerOutOfTurn(e, c)
    PROVE  f.ready \/ f.pending = {}
BY DEF IsEngine, Members, AnswerOutOfTurn, EngineCommandCompleted

\* A new command or an error schedules the engine.
LEMMA AddedReady ==
    ASSUME NEW e, IsEngine(e), NEW c, NEW f, f = AddCommandToQueue(e, c)
    PROVE  f.ready
BY DEF IsEngine, Members, AddCommandToQueue

\* The end of the resets schedules the engine.
LEMMA IdledReady ==
    ASSUME NEW e, IsEngine(e), NEW f, f = ToIdle(e)
    PROVE  f.ready
BY DEF IsEngine, Members, ToIdle

\* AddErrorHandlingCmd with no other error handling command on top.
LEMMA ErrorErred ==
    ASSUME NEW e, IsEngine(e), ~CheckForPendingErrorHandlingCmd(e), NEW type \in EHTypes,
           NEW f, f = AddErrorHandlingCmd(e, type)
    PROVE  Erred(e, f)
<1>1. f.ready
  BY DEF AddErrorHandlingCmd, AddCommandToQueue, IsEngine, Members
<1>2. /\ f.state = "ERROR" /\ f.current = e.current
      /\ f.answered = e.answered /\ f.nextId = e.nextId + 1
      /\ f.pending = e.pending \cup {[type |-> type, id |-> e.nextId, arg |-> -1]}
  BY ErrorAdded
<1> QED BY <1>1, <1>2 DEF Erred

\* Freeing the context afterwards changes none of this, nor does what was
\* done to the counters, contexts and datapaths before.
LEMMA HandledAround ==
    ASSUME NEW e, NEW a, IsEngine(a), NEW b, IsEngine(b), NEW f, NEW c, NEW fails,
           a.pending = e.pending, a.current = e.current, a.answered = e.answered,
           a.nextId = e.nextId, a.state = e.state, a.ready = e.ready,
           Handled(a, b, fails), f = FreeEngineContext(b, c)
    PROVE  Handled(e, f, fails)
<1>1. /\ f.pending = b.pending /\ f.current = b.current /\ f.answered = b.answered
      /\ f.nextId = b.nextId /\ f.state = b.state /\ f.ready = b.ready
  BY Freed
<1>2. CASE Kept(a, b)
  BY <1>1, <1>2 DEF Kept, Handled
<1>3. CASE Done(a, b)
  BY <1>1, <1>3 DEF Done, Handled
<1>4. CASE fails /\ Erred(a, b)
  BY <1>1, <1>4 DEF Erred, Handled
<1> QED BY <1>2, <1>3, <1>4 DEF Handled

\* HandleDatapathPause, HandleDatapathStop and HandleDatapathTeardown.
LEMMA WorkingHandled ==
    ASSUME NEW e, NEW K, IsEngine(e), Phases(e, K), e.state \in {"PAUSING", "STOPPING"},
           NEW c \in e.ctx, c.who \in Datapaths, NEW ok \in BOOLEAN,
           NEW srcOp \in {"SrcPause", "SrcStop"}, NEW f,
           \/ f = FreeEngineContext(HandleDatapathPauseOrStop(e, srcOp, ok), c)
           \/ f = FreeEngineContext(HandleDatapathTeardown(e, c.who, ok), c)
    PROVE  Handled(e, f, ~ok)
<1>1. ~ErrorPending(e)
  BY DEF Phases, WorkingPhase
<1>2. CASE f = FreeEngineContext(HandleDatapathPauseOrStop(e, srcOp, ok), c)
  <2> DEFINE g == [e EXCEPT !.numDp = @ - 1]
  <2>1. /\ IsEngine(g) /\ g.state = e.state /\ g.pending = e.pending
        /\ g.current = e.current /\ g.nextId = e.nextId
        /\ g.answered = e.answered /\ g.ready = e.ready
    BY CountedDown
  <2>2. PICK b : /\ f = FreeEngineContext(b, c)
                 /\ b = IF ~ok THEN AddErrorHandlingCmd(g, "ehCommand")
                        ELSE IF g.numDp = 0 THEN Issue(g, Src, srcOp) ELSE g
    BY <1>2 DEF HandleDatapathPauseOrStop
  <2> HIDE DEF g
  <2>3. ~CheckForPendingErrorHandlingCmd(g)
    BY <1>1, <2>1, ErrorOnTop DEF ErrorPending
  <2>4. IsEngine(b) /\ Handled(g, b, ~ok)
    <3>1. CASE ~ok
      <4>1. b = AddErrorHandlingCmd(g, "ehCommand")
        BY <2>2, <3>1
      <4>2. IsEngine(b) /\ Erred(g, b)
        BY <2>1, <2>3, <4>1, ErrorErred, ErrorAdded DEF EHTypes
      <4> QED BY <3>1, <4>2 DEF Handled
    <3>2. CASE ok /\ g.numDp = 0
      <4>1. b = Issue(g, Src, srcOp) /\ [who |-> Src, op |-> srcOp] \in Context
        BY <2>2, <3>2 DEF Context
      <4>2. IsEngine(b) /\ Kept(g, b)
        BY <2>1, <4>1, Issued DEF Kept
      <4> QED BY <4>2 DEF Handled
    <3>3. CASE ok /\ g.numDp # 0
      <4>1. b = g
        BY <2>2, <3>3
      <4> QED BY <2>1, <4>1 DEF Handled, Kept
    <3> QED BY <3>1, <3>2, <3>3
  <2> QED BY <2>1, <2>2, <2>4, HandledAround
<1>3. CASE f = FreeEngineContext(HandleDatapathTeardown(e, c.who, ok), c)
  <2>1. PICK b : /\ f = FreeEngineContext(b, c)
                 /\ b = IF ok THEN Issue(e, c.who, "DPReset")
                        ELSE AddErrorHandlingCmd(e, "ehCommand")
    BY <1>3 DEF HandleDatapathTeardown
  <2>2. ~CheckForPendingErrorHandlingCmd(e)
    BY <1>1, ErrorOnTop
  <2>3. IsEngine(b) /\ Handled(e, b, ~ok)
    <3>1. CASE ~ok
      <4>1. b = AddErrorHandlingCmd(e, "ehCommand")
        BY <2>1, <3>1
      <4>2. IsEngine(b) /\ Erred(e, b)
        BY <2>2, <4>1, ErrorErred, ErrorAdded DEF EHTypes
      <4> QED BY <3>1, <4>2 DEF Handled
    <3>2. CASE ok
      <4>1. b = Issue(e, c.who, "DPReset") /\ [who |-> c.who, op |-> "DPReset"] \in Context
        BY <2>1, <3>2 DEF Context
      <4>2. IsEngine(b) /\ Kept(e, b)
        BY <4>1, Issued DEF Kept
      <4> QED BY <4>2 DEF Handled
    <3> QED BY <3>1, <3>2
  <2> QED BY <2>1, <2>3, HandledAround
<1> QED BY <1>2, <1>3

\* HandleDatapathReset.
LEMMA ResetHandled ==
    ASSUME NEW e, NEW K, IsEngine(e), Phases(e, K), e.state \in {"STOPPING", "RESETTING"},
           NEW c \in e.ctx, c.who \in Datapaths, NEW fails,
           NEW f, f = FreeEngineContext(HandleDatapathReset(e, c.who), c)
    PROVE  Handled(e, f, fails)
<1> DEFINE g == DatapathDown(e, c.who)
<1>1. /\ IsEngine(g) /\ g.state = e.state /\ g.pending = e.pending
      /\ g.current = e.current /\ g.nextId = e.nextId
      /\ g.answered = e.answered /\ g.ready = e.ready
  BY CountedDownReset
<1>2. PICK b : /\ f = FreeEngineContext(b, c)
               /\ b = IF g.numDp # 0 THEN g
                      ELSE IF g.state = "RESETTING" THEN ToIdle(g)
                      ELSE EngineCommandCompleted([g EXCEPT !.state = "INITIALIZED"], FALSE)
  BY DEF HandleDatapathReset
<1> HIDE DEF g
<1>3. CASE g.numDp # 0
  <2>1. b = g
    BY <1>2, <1>3
  <2>2. Handled(g, b, fails)
    BY <2>1 DEF Handled, Kept
  <2> QED BY <1>1, <1>2, <2>1, <2>2, HandledAround
<1>4. CASE g.numDp = 0 /\ g.state = "RESETTING"
  <2>1. b = ToIdle(g)
    BY <1>2, <1>4
  <2>2. IsEngine(b) /\ Kept(g, b)
    BY <1>1, <2>1, Idled, IdledReady DEF Kept
  <2> QED BY <1>1, <1>2, <2>2, HandledAround DEF Handled
<1>5. CASE g.numDp = 0 /\ g.state # "RESETTING"
  <2> DEFINE i == [g EXCEPT !.state = "INITIALIZED"]
  <2>1. /\ IsEngine(i) /\ i.pending = e.pending /\ i.current = e.current
        /\ i.nextId = e.nextId /\ i.answered = e.answered
    BY <1>1, StateSet DEF States, Quiet
  <2>2. b = EngineCommandCompleted(i, FALSE)
    BY <1>2, <1>5
  <2> HIDE DEF i
  <2>3. /\ IsEngine(b) /\ b.pending = i.pending /\ b.current = None
        /\ b.nextId = i.nextId /\ b.answered = Answer(i.answered, i.current.id)
    BY <2>1, <2>2, CompletedAs
  <2>4. b.ready \/ b.pending = {}
    BY <2>1, <2>2, CompletedReady
  <2>5. e.current # None
    BY <1>1, <1>5 DEF Phases, WorkingPhase, None
  <2>6. Done(g, b)
    BY <1>1, <2>1, <2>3, <2>4, <2>5 DEF Done
  <2>7. Handled(g, b, fails)
    BY <2>6 DEF Handled
  <2> QED BY <1>1, <1>2, <2>3, <2>7, HandledAround
<1> QED BY <1>3, <1>4, <1>5

\* HandlePlayerDatapathEvent.
LEMMA DatapathHandled ==
    ASSUME NEW e, NEW K, IsEngine(e), Phases(e, K), NEW c \in e.ctx,
           c.who \in Datapaths, NEW ok \in BOOLEAN,
           NEW f, f = FreeEngineContext(HandlePlayerDatapathEvent(e, c, ok), c)
    PROVE  Handled(e, f, ~ok)
<1>1. CASE \/ f = FreeEngineContext(e, c)
  <2>1. Kept(e, f)
    BY <1>1, Freed DEF Kept
  <2> QED BY <2>1 DEF Handled
<1>2. CASE e.toCancel = None /\ e.state = "PAUSING" /\ c.op = "DPPause"
  <2>1. f = FreeEngineContext(HandleDatapathPauseOrStop(e, "SrcPause", ok), c)
    BY <1>2 DEF HandlePlayerDatapathEvent
  <2> QED BY <1>2, <2>1, WorkingHandled
<1>3. CASE e.toCancel = None /\ e.state = "STOPPING" /\ c.op = "DPStop"
  <2>1. f = FreeEngineContext(HandleDatapathPauseOrStop(e, "SrcStop", ok), c)
    BY <1>3 DEF HandlePlayerDatapathEvent
  <2> QED BY <1>3, <2>1, WorkingHandled
<1>4. CASE e.toCancel = None /\ e.state = "STOPPING" /\ c.op = "DPTeardown"
  <2>1. f = FreeEngineContext(HandleDatapathTeardown(e, c.who, ok), c)
    BY <1>4 DEF HandlePlayerDatapathEvent
  <2> QED BY <1>4, <2>1, WorkingHandled
<1>5. CASE e.toCancel = None /\ e.state \in {"STOPPING", "RESETTING"} /\ c.op = "DPReset"
  <2>1. f = FreeEngineContext(HandleDatapathReset(e, c.who), c)
    BY <1>5 DEF HandlePlayerDatapathEvent
  <2> QED BY <1>5, <2>1, ResetHandled
<1> QED BY <1>1, <1>2, <1>3, <1>4, <1>5 DEF HandlePlayerDatapathEvent

\* NodeCommandCompleted for the source node.  A stop without datapaths ends
\* as an error.
LEMMA SourceHandled ==
    ASSUME NEW e, NEW K, IsEngine(e), Phases(e, K), NEW c \in e.ctx, c.who = Src,
           NEW ok \in BOOLEAN,
           NEW f, f = FreeEngineContext(SourceCommandCompleted(e, ok), c)
    PROVE  Handled(e, f, ~ok \/ Datapaths = {})
<1> DEFINE fails == ~ok \/ Datapaths = {}
<1>1. ASSUME NEW b, IsEngine(b), Handled(e, b, fails), f = FreeEngineContext(b, c)
      PROVE  Handled(e, f, fails)
  BY <1>1, HandledAround
<1>2. ASSUME e.state \in {"PAUSING", "STOPPING"}, fails,
             f = FreeEngineContext(AddErrorHandlingCmd(e, "ehCommand"), c)
      PROVE  Handled(e, f, fails)
  <2> DEFINE b == AddErrorHandlingCmd(e, "ehCommand")
  <2>1. ~CheckForPendingErrorHandlingCmd(e)
    BY <1>2, ErrorOnTop DEF Phases, WorkingPhase
  <2>2. IsEngine(b) /\ Erred(e, b)
    BY <2>1, ErrorErred, ErrorAdded DEF EHTypes
  <2> HIDE DEF b
  <2> QED BY <1>1, <1>2, <2>2 DEF Handled, b
<1>3. CASE e.toCancel # None \/ e.state \notin {"PAUSING", "STOPPING", "RESETTING"}
  <2>1. f = FreeEngineContext(e, c)
    BY <1>3 DEF SourceCommandCompleted
  <2>2. Kept(e, f)
    BY <2>1, Freed DEF Kept
  <2> QED BY <2>2 DEF Handled
<1>4. CASE e.toCancel = None /\ e.state = "PAUSING"
  <2>1. f = FreeEngineContext(HandleSourceNodePause(e, ok), c)
    BY <1>4 DEF SourceCommandCompleted
  <2>2. CASE ok
    <3> DEFINE i == [e EXCEPT !.state = "PAUSED"]
               b == EngineCommandCompleted(i, FALSE)
    <3>1. /\ IsEngine(i) /\ i.pending = e.pending /\ i.current = e.current
          /\ i.nextId = e.nextId /\ i.answered = e.answered
      BY StateSet DEF States, Quiet
    <3>2. f = FreeEngineContext(b, c)
      BY <2>1, <2>2 DEF HandleSourceNodePause
    <3> HIDE DEF i
    <3>3. /\ IsEngine(b) /\ b.pending = i.pending /\ b.current = None
          /\ b.nextId = i.nextId /\ b.answered = Answer(i.answered, i.current.id)
      BY <3>1, CompletedAs
    <3>4. b.ready \/ b.pending = {}
      BY <3>1, CompletedReady
    <3> HIDE DEF b
    <3>5. e.current # None
      BY <1>4 DEF Phases, WorkingPhase, None
    <3>6. Done(e, b)
      BY <3>1, <3>3, <3>4, <3>5 DEF Done
    <3> QED BY <1>1, <3>2, <3>3, <3>6 DEF Handled
  <2>3. CASE ~ok
    BY <1>2, <1>4, <2>1, <2>3 DEF HandleSourceNodePause
  <2> QED BY <2>2, <2>3
<1>5. CASE e.toCancel = None /\ e.state = "STOPPING"
  <2>1. f = FreeEngineContext(HandleSourceNodeStop(e, ok), c)
    BY <1>5 DEF SourceCommandCompleted
  <2>2. CASE ~fails
    <3> DEFINE b == IssueToAll(e, "DPTeardown")
    <3>1. f = FreeEngineContext(b, c)
      BY <2>1, <2>2 DEF HandleSourceNodeStop
    <3>2. IsEngine(b) /\ Kept(e, b)
      BY IssuedToAll DEF Kept, Asked
    <3> HIDE DEF b
    <3> QED BY <1>1, <3>1, <3>2 DEF Handled
  <2>3. CASE fails
    BY <1>2, <1>5, <2>1, <2>3 DEF HandleSourceNodeStop
  <2> QED BY <2>2, <2>3
<1>6. CASE e.toCancel = None /\ e.state = "RESETTING"
  <2>1. PICK C, n : LET h == [e EXCEPT !.src = "created", !.numDp = n, !.ctx = C]
                    IN  f = FreeEngineContext(ToIdle(h), c) \/ f = FreeEngineContext(h, c)
    <3> DEFINE op(d) == IF e.dp[d] = "active" THEN "DPReset"
                        ELSE IF d \in Decoded THEN "DecReset" ELSE "SinkReset"
               up == {d \in Datapaths : e.dp[d] \in {"active", "idle"}}
               C == e.ctx \cup {[who |-> d, op |-> op(d)] : d \in up}
               h == [e EXCEPT !.src = "created", !.numDp = Cardinality(up), !.ctx = C]
    <3>1. f = FreeEngineContext(IF up = {} THEN ToIdle(h) ELSE h, c)
      BY <1>6 DEF SourceCommandCompleted, HandleSourceNodeReset, IsEngine, Members
    <3> QED BY <3>1
  <2> DEFINE h == [e EXCEPT !.src = "created", !.numDp = n, !.ctx = C]
             i == ToIdle(h)
  <2>2. /\ h.pending = e.pending /\ h.current = e.current /\ h.answered = e.answered
        /\ h.nextId = e.nextId /\ h.state = e.state /\ h.ready = e.ready
        /\ DOMAIN h = Members
    BY DEF IsEngine, Members
  <2>3. f = FreeEngineContext(i, c) \/ f = FreeEngineContext(h, c)
    BY <2>1
  <2> HIDE DEF h
  <2>4. /\ i.pending = e.pending /\ i.current = e.current /\ i.answered = e.answered
        /\ i.nextId = e.nextId /\ i.state = "IDLE" /\ DOMAIN i = Members
    BY <2>2 DEF ToIdle, Members
  <2>5. i.ready
    BY <2>2 DEF ToIdle, Members
  <2> HIDE DEF i
  <2>6. ASSUME NEW b, DOMAIN b = Members, f = FreeEngineContext(b, c)
        PROVE  /\ f.pending = b.pending /\ f.current = b.current /\ f.answered = b.answered
               /\ f.nextId = b.nextId /\ f.state = b.state /\ f.ready = b.ready
    BY <2>6 DEF FreeEngineContext, Members
  <2>7. Kept(e, f)
    BY <2>2, <2>3, <2>4, <2>5, <2>6 DEF Kept
  <2> QED BY <2>7 DEF Handled
<1> QED BY <1>3, <1>4, <1>5, <1>6

\* HandleDecNodeReset and HandleSinkNodeReset.
LEMMA NodeHandled ==
    ASSUME NEW e, NEW K, IsEngine(e), Phases(e, K), NEW c \in e.ctx,
           c.who \in Datapaths, c.op \in {"DecReset", "SinkReset"},
           NEW f, f = FreeEngineContext(IF c.op = "DecReset" THEN HandleDecNodeReset(e, c.who)
                                        ELSE HandleSinkNodeReset(e, c.who), c)
    PROVE  Handled(e, f, FALSE)
<1>1. e.state = "RESETTING"
  BY NodePhase
<1>2. CASE c.op = "SinkReset"
  <2> DEFINE d == DatapathDown(e, c.who)
  <2>1. d.state = "RESETTING"
    BY <1>1, CountedDownReset
  <2>2. HandleSinkNodeReset(e, c.who) = HandleDatapathReset(e, c.who)
    BY <2>1 DEF HandleSinkNodeReset, HandleDatapathReset
  <2>3. f = FreeEngineContext(HandleDatapathReset(e, c.who), c)
    BY <1>2, <2>2
  <2> QED BY <1>1, <2>3, ResetHandled
<1>3. CASE c.op = "DecReset"
  <2> DEFINE g == [e EXCEPT !.numDp = @ - 1]
             sinks == {x \in Datapaths : e.dp[x] \in {"active", "idle"}}
             C == g.ctx \cup {[who |-> x, op |-> "SinkReset"] : x \in sinks}
             h == [g EXCEPT !.numDp = Cardinality(sinks), !.ctx = C]
  <2>1. /\ g.pending = e.pending /\ g.current = e.current /\ g.answered = e.answered
        /\ g.nextId = e.nextId /\ g.state = e.state /\ g.ready = e.ready
        /\ DOMAIN g = Members
    BY DEF IsEngine, Members
  <2>2. f = FreeEngineContext(IF g.numDp # 0 THEN g ELSE h, c)
    BY <1>3, <2>1 DEF HandleDecNodeReset, Members
  <2> HIDE DEF g
  <2>3. /\ h.pending = e.pending /\ h.current = e.current /\ h.answered = e.answered
        /\ h.nextId = e.nextId /\ h.state = e.state /\ h.ready = e.ready
        /\ DOMAIN h = Members
    BY <2>1 DEF Members
  <2> HIDE DEF h
  <2>4. ASSUME NEW b, DOMAIN b = Members, f = FreeEngineContext(b, c)
        PROVE  /\ f.pending = b.pending /\ f.current = b.current /\ f.answered = b.answered
               /\ f.nextId = b.nextId /\ f.state = b.state /\ f.ready = b.ready
    BY <2>4 DEF FreeEngineContext, Members
  <2>5. Kept(e, f)
    BY <2>1, <2>2, <2>3, <2>4 DEF Kept
  <2> QED BY <2>5 DEF Handled
<1> QED BY <1>2, <1>3

\* A cancel is answered.
LEMMA CancelHandled ==
    ASSUME NEW e, NEW K, IsEngine(e), Phases(e, K), NEW w \in K, NEW n, NEW C,
           NEW g, g = [e EXCEPT !.numCancel = n, !.ctx = C],
           NEW f, f \in {g, ResetSource(RemoveDatapathContextFromList(
                                 [g EXCEPT !.toCancel = None]))}
    PROVE  Handled(e, f, FALSE)
<1>1. e.state = "RESETTING"
  BY CancelState DEF NoCancel
<1>2. /\ g.pending = e.pending /\ g.current = e.current /\ g.answered = e.answered
      /\ g.nextId = e.nextId /\ g.state = e.state /\ g.ready = e.ready
      /\ DOMAIN g = Members
  BY DEF IsEngine, Members
<1> DEFINE h == ResetSource(RemoveDatapathContextFromList([g EXCEPT !.toCancel = None]))
<1>3. /\ h.pending = e.pending /\ h.current = e.current /\ h.answered = e.answered
      /\ h.nextId = e.nextId /\ h.state = "RESETTING" /\ h.ready = e.ready
  BY <1>2 DEF ResetSource, Issue, RemoveDatapathContextFromList, Members
<1>4. f \in {g, h}
  OBVIOUS
<1> HIDE DEF h
<1>5. Kept(e, f)
  BY <1>1, <1>2, <1>3, <1>4 DEF Kept
<1> QED BY <1>5 DEF Handled

\* HandleSourceNodeErrorEvent: the error is one of the source node's own, and
\* nothing happens if one is found on top.
LEMMA ErrorHandledOnce ==
    ASSUME NEW e, IsEngine(e), NEW f, f = AddErrorHandlingCmd(e, "ehGeneral")
    PROVE  Handled(e, f, TRUE)
<1>1. CASE CheckForPendingErrorHandlingCmd(e)
  <2>1. f = e
    BY <1>1 DEF AddErrorHandlingCmd
  <2> QED BY <2>1 DEF Handled, Kept
<1>2. CASE ~CheckForPendingErrorHandlingCmd(e)
  <2>1. Erred(e, f)
    BY <1>2, ErrorErred DEF EHTypes
  <2> QED BY <2>1 DEF Handled
<1> QED BY <1>1, <1>2

-----------------------------------------------------------------------------
(***************************************************************************)
(* The ledger of the application's commands.  Between two states of the    *)
(* engine the application's commands it holds, pending or current, only    *)
(* become fewer, and those that are gone are exactly those answered.       *)
(***************************************************************************)
ApiKinds == Ordinary \ {"sync"}
ApiOf(S) == {c \in S : c.type \in ApiKinds}
Held(e) == ApiOf(e.pending \cup {e.current})

\* What is held is held once, under one id.
Accountable(e) ==
    /\ e.answered \in [0..MaxIds -> Nat]
    /\ e.current = None \/ e.current.type \in ApiKinds
    /\ e.current \notin e.pending
    /\ \A c, d \in Held(e) : c.id = d.id => c = d

Ledger(e, f) ==
    /\ Held(f) \subseteq Held(e)
    /\ f.current = None \/ f.current.type \in ApiKinds
    /\ f.current \notin f.pending
    /\ f.answered = AnswerAll(e.answered, Held(e) \ Held(f))

\* An engine that waits for nobody is scheduled or has nothing to do.
Fresh(e) ==
    e.state \in Quiet \cup {"ERROR"} => e.ready \/ (e.pending = {} /\ e.current = None)

\* Answers are counted one by one or several at a time.
LEMMA AnswersCounted ==
    ASSUME NEW A \in [0..MaxIds -> Nat]
    PROVE  /\ AnswerAll(A, {}) = A
           /\ \A c : Answer(A, c.id) = AnswerAll(A, {c})
           /\ \A S : AnswerAll(A, S) \in [0..MaxIds -> Nat]
           /\ \A S, T : (\A s \in S, t \in T : s.id # t.id) =>
                  AnswerAll(AnswerAll(A, S), T) = AnswerAll(A, S \cup T)
<1>1. AnswerAll(A, {}) = A
  BY DEF AnswerAll
<1>2. \A c : Answer(A, c.id) = AnswerAll(A, {c})
  <2> TAKE c
  <2>1. \A i \in 0..MaxIds : Answer(A, c.id)[i] = AnswerAll(A, {c})[i]
    BY DEF Answer, AnswerAll
  <2>2. /\ Answer(A, c.id) = [i \in 0..MaxIds |-> Answer(A, c.id)[i]]
        /\ AnswerAll(A, {c}) = [i \in 0..MaxIds |-> AnswerAll(A, {c})[i]]
    BY DEF Answer, AnswerAll
  <2> QED BY <2>1, <2>2
<1>3. \A S : AnswerAll(A, S) \in [0..MaxIds -> Nat]
  BY DEF AnswerAll
<1>4. ASSUME NEW S, NEW T, \A s \in S, t \in T : s.id # t.id
      PROVE  AnswerAll(AnswerAll(A, S), T) = AnswerAll(A, S \cup T)
  <2> DEFINE B == AnswerAll(A, S)
  <2>1. B \in [0..MaxIds -> Nat]
    BY <1>3
  <2>2. \A i \in 0..MaxIds : B[i] = A[i] + (IF \E s \in S : s.id = i THEN 1 ELSE 0)
    BY DEF AnswerAll
  <2> HIDE DEF B
  <2>3. \A i \in 0..MaxIds : AnswerAll(B, T)[i] = AnswerAll(A, S \cup T)[i]
    BY <1>4, <2>1, <2>2 DEF AnswerAll
  <2>4. /\ AnswerAll(B, T) = [i \in 0..MaxIds |-> AnswerAll(B, T)[i]]
        /\ AnswerAll(A, S \cup T) = [i \in 0..MaxIds |-> AnswerAll(A, S \cup T)[i]]
    BY <2>1 DEF AnswerAll
  <2>5. AnswerAll(B, T) = AnswerAll(A, S \cup T)
    BY <2>3, <2>4
  <2> QED BY <2>5 DEF B
<1> QED BY <1>1, <1>2, <1>3, <1>4

\* What the ledger covers stays accountable, and ledgers add up.
LEMMA LedgerChain ==
    ASSUME NEW e, Accountable(e), NEW f, Ledger(e, f)
    PROVE  /\ Accountable(f)
           /\ \A g : Ledger(f, g) => Ledger(e, g)
<1>1. Accountable(f)
  BY AnswersCounted DEF Accountable, Ledger
<1>2. ASSUME NEW g, Ledger(f, g) PROVE Ledger(e, g)
  <2> DEFINE S == Held(e) \ Held(f)
             T == Held(f) \ Held(g)
  <2>1. \A s \in S, t \in T : s.id # t.id
    BY DEF Accountable, Ledger
  <2>2. g.answered = AnswerAll(AnswerAll(e.answered, S), T)
    BY <1>2 DEF Ledger
  <2>3. e.answered \in [0..MaxIds -> Nat]
    BY DEF Accountable
  <2>4. S \cup T = Held(e) \ Held(g)
    BY <1>2 DEF Ledger
  <2> HIDE DEF S, T
  <2>5. g.answered = AnswerAll(e.answered, S \cup T)
    BY <2>1, <2>2, <2>3, AnswersCounted
  <2> QED BY <1>2, <2>4, <2>5 DEF Ledger
<1> QED BY <1>1, <1>2

\* Nothing is answered.
LEMMA LedgerKept ==
    ASSUME NEW e, Accountable(e), NEW f, f.pending \cap {e.current} = {},
           ApiOf(f.pending) = ApiOf(e.pending),
           f.current = e.current, f.answered = e.answered
    PROVE  Ledger(e, f)
<1>1. Held(f) = Held(e)
  BY DEF Held, ApiOf
<1>2. Held(e) \ Held(f) = {}
  BY <1>1
<1> QED BY <1>1, <1>2, AnswersCounted DEF Accountable, Ledger

\* The current command is answered.
LEMMA LedgerDone ==
    ASSUME NEW e, Accountable(e), IsEngine(e), NEW f, IsEngine(f), e.current # None,
           ApiOf(f.pending) = ApiOf(e.pending), f.current = None,
           f.answered = Answer(e.answered, e.current.id)
    PROVE  Ledger(e, f)
<1>1. None \notin f.pending /\ None.type \notin ApiKinds
  BY DEF IsEngine, Command, None, ApiKinds, Ordinary
<1>2. Held(f) = ApiOf(e.pending) /\ Held(e) \ Held(f) = {e.current}
  BY <1>1 DEF Held, ApiOf, Accountable
<1>3. Held(f) \subseteq Held(e)
  BY <1>2 DEF Held, ApiOf
<1> QED BY <1>1, <1>2, <1>3, AnswersCounted DEF Accountable, Ledger

\* A pending command is taken when there is no current one.
LEMMA LedgerTaken ==
    ASSUME NEW e, Accountable(e), IsEngine(e), e.current = None, NEW c \in e.pending,
           NEW f, IsEngine(f), f.pending = e.pending \ {c},
           \/ f.current = c /\ c.type \in ApiKinds /\ f.answered = e.answered
           \/ /\ f.current = None /\ c.type \in ApiKinds
              /\ f.answered = Answer(e.answered, c.id)
           \/ f.current = None /\ c.type \notin ApiKinds /\ f.answered = e.answered
    PROVE  Ledger(e, f)
<1>1. None \notin f.pending /\ None.type \notin ApiKinds
  BY DEF IsEngine, Command, None, ApiKinds, Ordinary
<1>2. CASE f.current = c /\ c.type \in ApiKinds /\ f.answered = e.answered
  <2>1. Held(f) = Held(e)
    BY <1>1, <1>2 DEF Held, ApiOf
  <2>2. Held(e) \ Held(f) = {}
    BY <2>1
  <2> QED BY <1>2, <2>1, <2>2, AnswersCounted DEF Accountable, Ledger
<1>3. CASE /\ f.current = None /\ c.type \in ApiKinds
           /\ f.answered = Answer(e.answered, c.id)
  <2>1. Held(f) = Held(e) \ {c} /\ Held(e) \ Held(f) = {c}
    BY <1>1, <1>3 DEF Held, ApiOf
  <2> QED BY <1>1, <1>3, <2>1, AnswersCounted DEF Accountable, Ledger
<1>4. CASE f.current = None /\ c.type \notin ApiKinds /\ f.answered = e.answered
  <2>1. Held(f) = Held(e)
    BY <1>1, <1>4 DEF Held, ApiOf
  <2>2. Held(e) \ Held(f) = {}
    BY <2>1
  <2> QED BY <1>1, <1>4, <2>1, <2>2, AnswersCounted DEF Accountable, Ledger
<1> QED BY <1>2, <1>3, <1>4

\* Pending commands are answered out of turn.
LEMMA LedgerRemoved ==
    ASSUME NEW e, Accountable(e), NEW D \in SUBSET ApiOf(e.pending),
           NEW f, f.pending = e.pending \ D, f.current = e.current,
           f.answered = AnswerAll(e.answered, D)
    PROVE  Ledger(e, f)
<1>1. Held(f) = Held(e) \ D /\ Held(e) \ Held(f) = D
  BY DEF Held, ApiOf, Accountable
<1> QED BY <1>1 DEF Accountable, Ledger

\* The current command and some pending ones are answered, another pending
\* command becomes the current one.
LEMMA LedgerReplaced ==
    ASSUME NEW e, Accountable(e), NEW c \in ApiOf(e.pending),
           NEW D \in SUBSET ApiOf(e.pending), c \notin D,
           NEW f, f.pending = (e.pending \ {c}) \ D, f.current = c,
           f.answered = AnswerAll(e.answered,
                            D \cup (IF e.current = None THEN {} ELSE {e.current}))
    PROVE  Ledger(e, f)
<1>1. None.type \notin ApiKinds
  BY DEF None, ApiKinds, Ordinary
<1>2. /\ Held(f) \subseteq Held(e)
      /\ Held(e) \ Held(f) = D \cup (IF e.current = None THEN {} ELSE {e.current})
  BY <1>1 DEF Held, ApiOf, Accountable
<1> QED BY <1>2 DEF Accountable, Ledger, ApiOf

\* DoErrorHandling: only its own command leaves the queue, and that when the
\* current command is answered.
LEMMA ErrorAccount ==
    ASSUME NEW e, IsEngine(e), Accountable(e), CheckForPendingErrorHandlingCmd(e),
           NEW f, f = DoErrorHandling(e)
    PROVE  /\ f.pending \subseteq e.pending /\ f.nextId = e.nextId
           /\ Ledger(e, f) /\ Fresh(f)
<1>1. ASSUME f.pending = e.pending, f.current = e.current, f.answered = e.answered
      PROVE  Ledger(e, f)
  BY <1>1, LedgerKept DEF Accountable
<1>2. CASE e.ctx # {}
  <2> DEFINE g == [e EXCEPT !.state = "RESETTING"]
  <2>1. /\ IsEngine(g) /\ g.state = "RESETTING" /\ g.pending = e.pending
        /\ g.current = e.current /\ g.nextId = e.nextId /\ g.answered = e.answered
    BY StateSet DEF States
  <2>2. f = [g EXCEPT !.numCancel = Cardinality(g.ctx)]
    BY <1>2 DEF DoErrorHandling, DoCancelPendingNodeDatapathCommand
  <2> HIDE DEF g
  <2>3. /\ f.state = "RESETTING" /\ f.pending = e.pending
        /\ f.current = e.current /\ f.nextId = e.nextId /\ f.answered = e.answered
    BY <2>1, <2>2 DEF IsEngine, Members
  <2> QED BY <1>1, <2>3 DEF Fresh, Quiet
<1>3. CASE e.ctx = {} /\ e.src = "active"
  <2>1. f = ResetSource(e)
    BY <1>3 DEF DoErrorHandling
  <2>2. /\ f.state = "RESETTING" /\ f.pending = e.pending
        /\ f.current = e.current /\ f.nextId = e.nextId /\ f.answered = e.answered
    BY <2>1, SourceAsked
  <2> QED BY <1>1, <2>2 DEF Fresh, Quiet
<1>4. CASE e.ctx = {} /\ e.src # "active"
  <2> DEFINE p == [d \in Datapaths |-> "none"]
             g == [e EXCEPT !.state = "IDLE", !.dp = p]
             h == IF g.current # None THEN EngineCommandCompleted(g, TRUE)
                  ELSE [g EXCEPT !.src = "none"]
             t == Top(h.pending)
             i == [h EXCEPT !.pending = @ \ {t}]
  <2>1. f = RunIfNotReady(i)
    BY <1>4 DEF DoErrorHandling
  <2>2. p \in [Datapaths -> {"none", "down", "idle", "active"}]
    OBVIOUS
  <2> HIDE DEF p
  <2>3. /\ IsEngine(g) /\ g.pending = e.pending /\ g.current = e.current
        /\ g.nextId = e.nextId /\ g.answered = e.answered
    BY <2>2 DEF IsEngine, Members, States, Quiet
  <2> HIDE DEF g
  <2>4. /\ IsEngine(h) /\ h.pending = e.pending /\ h.nextId = e.nextId
        /\ h.current = None
        /\ h.answered = IF e.current # None THEN Answer(e.answered, e.current.id)
                        ELSE e.answered
    <3>1. CASE g.current # None
      <4>1. h = EngineCommandCompleted(g, TRUE)
        BY <3>1
      <4> HIDE DEF h
      <4>2. /\ IsEngine(h) /\ h.pending = g.pending /\ h.current = None
            /\ h.nextId = g.nextId /\ h.answered = Answer(g.answered, g.current.id)
        BY <2>3, <4>1, Completed
      <4> QED BY <2>3, <3>1, <4>2
    <3>2. CASE g.current = None
      BY <2>3, <3>2 DEF IsEngine, Members
    <3> QED BY <3>1, <3>2
  <2> HIDE DEF h
  <2>5. t \in e.pending /\ t.type \notin ApiKinds
    <3>1. e.pending # {} /\ t.type \in EHTypes
      BY <2>4 DEF CheckForPendingErrorHandlingCmd
    <3>2. t \in e.pending
      BY <2>4, <3>1, TopIsFirst DEF IsEngine
    <3> QED BY <3>1, <3>2 DEF EHTypes, ApiKinds, Ordinary
  <2> HIDE DEF t
  <2>6. /\ IsEngine(i) /\ i.pending = e.pending \ {t} /\ i.nextId = e.nextId
        /\ i.current = None /\ i.answered = h.answered
    BY <2>4 DEF IsEngine, Members
  <2> HIDE DEF i
  <2>7. f.ready
    BY <2>1, <2>6 DEF RunIfNotReady, IsEngine, Members
  <2>8. /\ IsEngine(f) /\ f.pending = e.pending \ {t} /\ f.nextId = e.nextId
        /\ f.current = None /\ f.answered = h.answered
    BY <2>1, <2>6 DEF RunIfNotReady, IsEngine, Members
  <2>9. ApiOf(f.pending) = ApiOf(e.pending)
    BY <2>5, <2>8 DEF ApiOf
  <2>10. Ledger(e, f)
    <3>1. CASE e.current # None
      BY <2>4, <2>8, <2>9, <3>1, LedgerDone
    <3>2. CASE e.current = None
      <4>1. f.pending \cap {e.current} = {} /\ f.current = e.current
        BY <2>8, <3>2 DEF Accountable
      <4>2. f.answered = e.answered
        BY <2>4, <2>8, <3>2
      <4> QED BY <2>9, <4>1, <4>2, LedgerKept
    <3> QED BY <3>1, <3>2
  <2> QED BY <2>7, <2>8, <2>10 DEF Fresh
<1> QED BY <1>2, <1>3, <1>4

\* What becomes of a command that the switch of Run is given.
TakenOrDone(e, f) ==
    \/ f.current = e.current /\ e.current.type # "sync" /\ f.answered = e.answered
    \/ /\ f.current = None /\ e.current.type # "sync"
       /\ f.answered = Answer(e.answered, e.current.id)
    \/ f.current = None /\ e.current.type = "sync" /\ f.answered = e.answered

\* A command is answered at once.
LEMMA CompletedAccount ==
    ASSUME NEW e, IsEngine(e), e.current.type # "sync",
           NEW f, f = EngineCommandCompleted(e, TRUE) \/ f = EngineCommandCompleted(e, FALSE)
    PROVE  /\ IsEngine(f) /\ f.pending = e.pending /\ f.nextId = e.nextId
           /\ TakenOrDone(e, f) /\ Fresh(f)
<1>1. /\ IsEngine(f) /\ f.pending = e.pending /\ f.nextId = e.nextId /\ f.current = None
      /\ f.answered = Answer(e.answered, e.current.id)
  BY Completed
<1>2. f.ready \/ f.pending = {}
  BY CompletedReady
<1> QED BY <1>1, <1>2 DEF TakenOrDone, Fresh

\* DoPause and DoStop are begun.
LEMMA BegunAccount ==
    ASSUME NEW e, IsEngine(e), e.current.type # "sync", NEW f,
           \/ f = Begin(e, "DPPause", "SrcPause", "PAUSING")
           \/ f = Begin(e, "DPStop", "SrcStop", "STOPPING")
    PROVE  /\ IsEngine(f) /\ f.pending = e.pending /\ f.nextId = e.nextId
           /\ TakenOrDone(e, f) /\ Fresh(f)
<1>1. PICK dpOp \in {"DPPause", "DPStop"}, srcOp \in {"SrcPause", "SrcStop"},
           state \in {"PAUSING", "STOPPING"} : f = Begin(e, dpOp, srcOp, state)
  OBVIOUS
<1> DEFINE g == IF Datapaths = {} THEN Issue(e, Src, srcOp) ELSE IssueToAll(e, dpOp)
<1>2. f = [g EXCEPT !.state = state]
  BY <1>1 DEF Begin
<1>3. /\ IsEngine(g) /\ g.pending = e.pending /\ g.nextId = e.nextId
      /\ g.current = e.current /\ g.answered = e.answered
  <2>1. CASE Datapaths = {}
    <3>1. [who |-> Src, op |-> srcOp] \in Context
      BY DEF Context
    <3>2. g = Issue(e, Src, srcOp)
      BY <2>1
    <3> HIDE DEF g
    <3> QED BY <3>1, <3>2, Issued
  <2>2. CASE Datapaths # {}
    <3>1. g = IssueToAll(e, dpOp) /\ dpOp \in Asked
      BY <2>2 DEF Asked
    <3> HIDE DEF g
    <3> QED BY <3>1, IssuedToAll
  <2> QED BY <2>1, <2>2
<1> HIDE DEF g
<1>4. /\ IsEngine(f) /\ f.pending = e.pending /\ f.nextId = e.nextId
      /\ f.current = e.current /\ f.answered = e.answered /\ f.state = state
  BY <1>2, <1>3, StateSet DEF States
<1> QED BY <1>4 DEF TakenOrDone, Fresh, Quiet

\* The switch of Run.
LEMMA ProcessAccount ==
    ASSUME NEW e, IsEngine(e),
           e.current.type \in {"pause", "stop", "reset", "quick", "sync"},
           NEW f, f = Process(e)
    PROVE  /\ IsEngine(f) /\ f.pending = e.pending /\ f.nextId = e.nextId
           /\ TakenOrDone(e, f) /\ Fresh(f)
<1>1. CASE e.current.type \in {"pause", "stop", "quick"}
  <2>1. f \in {EngineCommandCompleted(e, FALSE), Begin(e, "DPPause", "SrcPause", "PAUSING"),
               Begin(e, "DPStop", "SrcStop", "STOPPING")}
    BY <1>1 DEF Process, DoPause, DoStop
  <2> QED BY <1>1, <2>1, CompletedAccount, BegunAccount
<1>2. CASE e.current.type = "reset"
  <2>1. f = DoReset(e)
    BY <1>2 DEF Process
  <2>2. CASE e.src = "active"
    <3>1. f = ResetSource(e)
      BY <2>1, <2>2 DEF DoReset
    <3>2. /\ IsEngine(f) /\ f.pending = e.pending /\ f.nextId = e.nextId
          /\ f.current = e.current /\ f.answered = e.answered /\ f.state = "RESETTING"
      BY <3>1, SourceAsked
    <3> QED BY <1>2, <3>2 DEF TakenOrDone, Fresh, Quiet
  <2>3. CASE e.src # "active"
    <3> DEFINE p == [d \in Datapaths |-> "none"]
               g == [e EXCEPT !.state = "IDLE", !.dp = p]
    <3>1. f = EngineCommandCompleted(g, TRUE)
      BY <2>1, <2>3 DEF DoReset
    <3>2. p \in [Datapaths -> {"none", "down", "idle", "active"}]
      OBVIOUS
    <3> HIDE DEF p
    <3>3. /\ IsEngine(g) /\ g.pending = e.pending /\ g.current = e.current
          /\ g.nextId = e.nextId /\ g.answered = e.answered
      BY <3>2 DEF IsEngine, Members, States, Quiet
    <3> HIDE DEF g
    <3>4. /\ IsEngine(f) /\ f.pending = g.pending /\ f.nextId = g.nextId
          /\ TakenOrDone(g, f) /\ Fresh(f)
      BY <1>2, <3>1, <3>3, CompletedAccount
    <3> QED BY <3>3, <3>4 DEF TakenOrDone
  <2> QED BY <2>2, <2>3
<1>3. CASE e.current.type = "sync"
  <2>1. f = [e EXCEPT !.current = None, !.ready = @ \/ e.pending # {}]
    BY <1>3 DEF Process
  <2>2. /\ IsEngine(f) /\ f.current = None /\ f.pending = e.pending
        /\ f.nextId = e.nextId /\ f.answered = e.answered
    BY <2>1 DEF IsEngine, Members
  <2>3. f.ready \/ f.pending = {}
    BY <2>1 DEF IsEngine, Members
  <2> QED BY <1>3, <2>2, <2>3 DEF TakenOrDone, Fresh
<1> QED BY <1>1, <1>2, <1>3

\* e is the engine a after command c was taken from its queue.
Without(a, e, c) ==
    /\ IsEngine(e) /\ e.pending = a.pending \ {c} /\ e.current = a.current
    /\ e.state = a.state /\ e.nextId = a.nextId /\ e.answered = a.answered

\* DoCancelAllCommands: c is what the queue gave, a the engine before it was
\* taken.
LEMMA CancelAllAccount ==
    ASSUME NEW a, IsEngine(a), Accountable(a), NEW c \in ApiOf(a.pending),
           \A d \in a.pending : d.type \in ApiKinds,
           NEW e, Without(a, e, c), NEW f, f = DoCancelAllCommands(e, c)
    PROVE  /\ f.pending \subseteq a.pending /\ f.nextId = a.nextId
           /\ Ledger(a, f) /\ Fresh(f)
<1>1. /\ IsEngine(e) /\ e.pending = a.pending \ {c} /\ e.current = a.current
      /\ e.nextId = a.nextId /\ e.answered = a.answered
  BY DEF Without
<1> DEFINE older == CancelledBy(e, c)
           now == older \cup (IF e.current = None THEN {} ELSE {e.current})
           g == [e EXCEPT !.state = "RESETTING", !.toCancel = e.current,
                          !.pending = @ \ older, !.answered = AnswerAll(@, now),
                          !.ready = @ \/ CancelSchedules(e, older), !.current = c]
<1>2. f = IF g.toCancel = None
          THEN IF g.src = "active" THEN ResetSource(g)
               ELSE EngineCommandCompleted([g EXCEPT !.state = "IDLE"], TRUE)
          ELSE IF g.ctx # {} THEN DoCancelPendingNodeDatapathCommand(g)
          ELSE ResetSource([g EXCEPT !.toCancel = None])
  BY DEF DoCancelAllCommands
<1>3. older \in SUBSET ApiOf(a.pending) /\ c \notin older
  BY <1>1 DEF CancelledBy, ApiOf
<1>4. c \in Command /\ c.type \in ApiKinds
  BY DEF ApiOf, IsEngine
<1> HIDE DEF older
<1>5. /\ IsEngine(g) /\ g.pending = (a.pending \ {c}) \ older /\ g.current = c
      /\ g.nextId = a.nextId /\ g.answered = AnswerAll(a.answered, now)
      /\ g.state = "RESETTING"
  <2> HIDE DEF now
  <2> QED BY <1>1, <1>4 DEF IsEngine, Members, States
<1> HIDE DEF g
<1>6. Ledger(a, g)
  <2>1. g.answered = AnswerAll(a.answered,
                         older \cup (IF a.current = None THEN {} ELSE {a.current}))
    BY <1>1, <1>5
  <2> QED BY <1>3, <1>5, <2>1, LedgerReplaced
<1> HIDE DEF now
<1>7. ASSUME f.pending = g.pending, f.current = g.current, f.answered = g.answered,
             f.nextId = g.nextId, f.state = "RESETTING"
      PROVE  /\ f.pending \subseteq a.pending /\ f.nextId = a.nextId
             /\ Ledger(a, f) /\ Fresh(f)
  <2>1. Held(f) = Held(g)
    BY <1>7 DEF Held
  <2>2. Ledger(a, f)
    BY <1>6, <1>7, <2>1 DEF Ledger
  <2> QED BY <1>5, <1>7, <2>2 DEF Fresh, Quiet
<1>8. CASE g.toCancel = None /\ g.src = "active"
  <2>1. f = ResetSource(g)
    BY <1>2, <1>8
  <2> QED BY <1>5, <1>7, <2>1, SourceAsked
<1>9. CASE g.toCancel = None /\ g.src # "active"
  <2> DEFINE h == [g EXCEPT !.state = "IDLE"]
  <2>1. f = EngineCommandCompleted(h, TRUE)
    BY <1>2, <1>9
  <2>2. /\ IsEngine(h) /\ h.pending = g.pending /\ h.current = g.current
        /\ h.nextId = g.nextId /\ h.answered = g.answered
    BY <1>5, StateSet DEF States, Quiet
  <2> HIDE DEF h
  <2>3. /\ IsEngine(f) /\ f.pending = g.pending /\ f.current = None
        /\ f.nextId = g.nextId /\ f.answered = Answer(g.answered, g.current.id)
    <3>1. IsEngine(h)
      BY <2>2
    <3>2. /\ IsEngine(f) /\ f.pending = h.pending /\ f.current = None
          /\ f.nextId = h.nextId /\ f.answered = Answer(h.answered, h.current.id)
      BY <2>1, <3>1, CompletedAs
    <3> QED BY <2>2, <3>2
  <2>4. f.ready \/ f.pending = {}
    BY <2>1, <2>2, CompletedReady
  <2>5. Accountable(g)
    BY <1>6, LedgerChain
  <2>6. g.current # None
    BY <1>4, <1>5 DEF None, ApiKinds, Ordinary
  <2>7. Ledger(g, f)
    BY <1>5, <2>3, <2>5, <2>6, LedgerDone
  <2>8. Ledger(a, f)
    BY <1>6, <2>7, LedgerChain
  <2> QED BY <1>5, <2>3, <2>4, <2>8 DEF Fresh
<1>10. CASE g.toCancel # None /\ g.ctx # {}
  <2>1. f = [g EXCEPT !.numCancel = Cardinality(g.ctx)]
    BY <1>2, <1>10 DEF DoCancelPendingNodeDatapathCommand
  <2>2. /\ f.pending = g.pending /\ f.current = g.current /\ f.answered = g.answered
        /\ f.nextId = g.nextId /\ f.state = "RESETTING"
    BY <1>5, <2>1 DEF IsEngine, Members
  <2> QED BY <1>7, <2>2
<1>11. CASE g.toCancel # None /\ g.ctx = {}
  <2> DEFINE h == [g EXCEPT !.toCancel = None]
  <2>1. f = ResetSource(h)
    BY <1>2, <1>11
  <2>2. /\ IsEngine(h) /\ h.pending = g.pending /\ h.current = g.current
        /\ h.nextId = g.nextId /\ h.answered = g.answered
    BY <1>5 DEF IsEngine, Members
  <2> HIDE DEF h
  <2>3. /\ f.state = "RESETTING" /\ f.pending = h.pending /\ f.current = h.current
        /\ f.nextId = h.nextId /\ f.answered = h.answered
    BY <2>1, <2>2, SourceAsked
  <2> QED BY <1>7, <2>2, <2>3
<1> QED BY <1>8, <1>9, <1>10, <1>11

\* DoCancelCommand answers the cancel and the command it names.
LEMMA CancelAccount ==
    ASSUME NEW a, IsEngine(a), Accountable(a), NEW c \in ApiOf(a.pending),
           \A d \in a.pending : d.type \in ApiKinds,
           NEW e, Without(a, e, c), NEW f, f = DoCancelCommand(e, c)
    PROVE  /\ f.pending \subseteq a.pending /\ f.nextId = a.nextId
           /\ f.current = a.current /\ f.state = a.state
           /\ Ledger(a, f) /\ (f.ready \/ f.pending = {})
<1>1. /\ IsEngine(e) /\ e.pending = a.pending \ {c} /\ e.current = a.current
      /\ e.state = a.state /\ e.nextId = a.nextId /\ e.answered = a.answered
  BY DEF Without
<1>2. c \in Command /\ a.answered \in [0..MaxIds -> Nat]
  BY DEF ApiOf, IsEngine, Accountable
<1> DEFINE named == {d \in e.pending : d.id = c.arg}
<1>3. CASE named = {}
  <2>1. f = AnswerOutOfTurn(e, c)
    BY <1>3 DEF DoCancelCommand
  <2>2. /\ f.pending = a.pending \ {c} /\ f.current = a.current
        /\ f.state = a.state /\ f.nextId = a.nextId
        /\ f.answered = Answer(a.answered, c.id)
    <3>1. /\ f.pending = e.pending /\ f.current = e.current
          /\ f.state = e.state /\ f.nextId = e.nextId
          /\ f.answered = Answer(e.answered, c.id)
      BY <1>1, <1>2, <2>1, OutOfTurn
    <3> QED BY <1>1, <3>1
  <2>3. f.ready \/ f.pending = {}
    BY <1>1, <2>1, OutOfTurnReady
  <2>4. f.answered = AnswerAll(a.answered, {c})
    BY <1>2, <2>2, AnswersCounted
  <2>5. Ledger(a, f)
    BY <2>2, <2>4, LedgerRemoved
  <2> QED BY <2>2, <2>3, <2>5
<1>4. CASE named # {}
  <2> DEFINE d == CHOOSE d \in named : TRUE
             g == [e EXCEPT !.pending = @ \ {d}]
             h == AnswerOutOfTurn(g, d)
  <2>1. d \in named
    BY <1>4
  <2>2. d \in Command /\ d \in ApiOf(a.pending) /\ d # c
    BY <1>1, <2>1 DEF IsEngine, ApiOf
  <2>3. f = AnswerOutOfTurn(h, c)
    BY <1>4 DEF DoCancelCommand
  <2> HIDE DEF d
  <2>4. /\ IsEngine(g) /\ g.pending = (a.pending \ {c}) \ {d} /\ g.current = a.current
        /\ g.state = a.state /\ g.nextId = a.nextId /\ g.answered = a.answered
    BY <1>1 DEF IsEngine, Members
  <2> HIDE DEF g
  <2>5. /\ IsEngine(h) /\ h.pending = g.pending /\ h.current = a.current
        /\ h.state = a.state /\ h.nextId = a.nextId
        /\ h.answered = Answer(a.answered, d.id)
    BY <2>2, <2>4, OutOfTurn
  <2> HIDE DEF h
  <2>6. /\ f.pending = a.pending \ {c, d} /\ f.current = a.current
        /\ f.state = a.state /\ f.nextId = a.nextId
        /\ f.answered = Answer(h.answered, c.id)
    BY <1>2, <2>3, <2>4, <2>5, OutOfTurn
  <2>7. f.ready \/ f.pending = {}
    BY <2>3, <2>5, OutOfTurnReady
  <2>8. f.answered = AnswerAll(a.answered, {c, d})
    <3>0. h.answered = AnswerAll(a.answered, {d})
      BY <1>2, <2>5, AnswersCounted
    <3>1. h.answered = AnswerAll(a.answered, {d}) /\ h.answered \in [0..MaxIds -> Nat]
      BY <1>2, <3>0, AnswersCounted
    <3>2. f.answered = AnswerAll(h.answered, {c})
      BY <2>6, <3>1, AnswersCounted
    <3>3. c.id # d.id
      BY <2>2 DEF Accountable, Held, ApiOf
    <3>4. {d} \cup {c} = {c, d} /\ \A s \in {d}, t \in {c} : s.id # t.id
      BY <3>3
    <3>5. AnswerAll(AnswerAll(a.answered, {d}), {c}) = AnswerAll(a.answered, {d} \cup {c})
      <4>1. a.answered \in [0..MaxIds -> Nat]
        BY <1>2
      <4> QED BY <3>4, <4>1, AnswersCounted
    <3> QED BY <3>1, <3>2, <3>4, <3>5
  <2>9. {c, d} \in SUBSET ApiOf(a.pending)
    BY <2>2
  <2>10. Ledger(a, f)
    BY <2>6, <2>8, <2>9, LedgerRemoved
  <2> QED BY <2>6, <2>7, <2>10
<1> QED BY <1>3, <1>4

\* Run: it takes no command it does not answer, keep as the current one or
\* discard as its own, and unless a synchronous command hides an error it
\* leaves the engine scheduled, waiting for a node, or with nothing to do.
LEMMA RunAccount ==
    ASSUME NEW e, NEW K, IsEngine(e), Phases(e, K), Accountable(e),
           NEW f, f = RunStep(e)
    PROVE  /\ f.pending \subseteq e.pending /\ f.nextId = e.nextId /\ Ledger(e, f)
           /\ CheckForPendingErrorHandlingCmd(e) \/ ~ErrorPending(e) => Fresh(f)
<1>1. CASE e.state = "RESETTING"
  <2>1. f = e
    BY <1>1 DEF RunStep
  <2>2. Ledger(e, f)
    BY <2>1, LedgerKept DEF Accountable
  <2> QED BY <1>1, <2>1, <2>2 DEF Fresh, Quiet
<1>2. CASE e.state # "RESETTING" /\ CheckForPendingErrorHandlingCmd(e)
  <2>1. f = DoErrorHandling(e)
    BY <1>2 DEF RunStep
  <2> QED BY <1>2, <2>1, ErrorAccount
<1>3. CASE e.state # "RESETTING" /\ ~CheckForPendingErrorHandlingCmd(e)
  <2> DEFINE a == IF e.current.type \in ResetTypes THEN FinishReset(e) ELSE e
             c == Top(a.pending)
             g == [a EXCEPT !.pending = @ \ {c}]
             h == [g EXCEPT !.current = c]
  <2>1. f = IF a.pending = {} THEN a
            ELSE IF \/ c.type = "cancelAll"
                    \/ c.type = "cancel" /\ g.current # None /\ g.current.id = c.arg
                 THEN DoCancelAllCommands(g, c)
                 ELSE IF c.type = "cancel" THEN DoCancelCommand(g, c)
                 ELSE IF a.current # None THEN a
                 ELSE Process(h)
    BY <1>3 DEF RunStep, ResetTypes
  <2>2. /\ IsEngine(a) /\ a.state = e.state /\ a.pending = e.pending
        /\ a.nextId = e.nextId /\ Ledger(e, a)
        /\ ~ErrorPending(e) /\ a.state \in Quiet \cup {"ERROR"} => a.current = None
    <3>1. CASE e.current.type \in ResetTypes
      <4> DEFINE p == [d \in Datapaths |-> "none"]
                 b == [e EXCEPT !.dp = p]
      <4>1. a = EngineCommandCompleted(b, TRUE)
        BY <3>1 DEF FinishReset
      <4>2. p \in [Datapaths -> {"none", "down", "idle", "active"}]
        OBVIOUS
      <4> HIDE DEF p, a
      <4>3. /\ IsEngine(b) /\ b.state = e.state /\ b.pending = e.pending
            /\ b.current = e.current /\ b.nextId = e.nextId /\ b.answered = e.answered
        BY <4>2 DEF IsEngine, Members
      <4> HIDE DEF b
      <4>4. /\ IsEngine(a) /\ a.state = b.state /\ a.pending = b.pending
            /\ a.current = None /\ a.nextId = b.nextId
            /\ a.answered = Answer(b.answered, b.current.id)
        BY <4>1, <4>3, Completed
      <4>5. a.answered = Answer(e.answered, e.current.id) /\ e.current # None
        BY <3>1, <4>3, <4>4 DEF None, ResetTypes
      <4>6. Ledger(e, a)
        BY <4>3, <4>4, <4>5, LedgerDone
      <4> QED BY <4>3, <4>4, <4>6
    <3>2. CASE e.current.type \notin ResetTypes
      <4>1. a = e
        BY <3>2
      <4> HIDE DEF a
      <4>2. Ledger(e, a)
        BY <4>1, LedgerKept DEF Accountable
      <4>3. ASSUME ~ErrorPending(e), e.state \in Quiet \cup {"ERROR"} PROVE e.current = None
        <5>1. e.current.type = "none"
          BY <3>2, <4>3 DEF Phases, QuietPhase, ErrorPhase
        <5> QED BY <5>1 DEF IsEngine, Command, Ordinary, EHTypes
      <4> QED BY <4>1, <4>2, <4>3
    <3> QED BY <3>1, <3>2
  <2> HIDE DEF a
  <2>3. Accountable(a) /\ (~CheckForPendingErrorHandlingCmd(a))
    BY <1>3, <2>2, LedgerChain DEF CheckForPendingErrorHandlingCmd
  <2>4. ASSUME NEW x, x = f, x.pending \subseteq a.pending, x.nextId = a.nextId, Ledger(a, x),
               ~ErrorPending(e) => Fresh(x)
        PROVE  /\ f.pending \subseteq e.pending /\ f.nextId = e.nextId /\ Ledger(e, f)
               /\ CheckForPendingErrorHandlingCmd(e) \/ ~ErrorPending(e) => Fresh(f)
    <3>1. Ledger(e, f)
      BY <2>2, <2>4, LedgerChain
    <3> QED BY <1>3, <2>2, <2>4, <3>1
  <2>5. CASE f = a /\ (a.pending = {} \/ a.current # None)
    <3>1. Ledger(a, f)
      BY <2>3, <2>5, LedgerKept DEF Accountable
    <3>2. ~ErrorPending(e) => Fresh(f)
      BY <2>2, <2>5 DEF Fresh
    <3> QED BY <2>4, <2>5, <3>1, <3>2
  <2>6. CASE a.pending # {}
    <3>1. /\ c \in a.pending /\ c \in Command
          /\ \A d \in a.pending : GetPriority(c) <= GetPriority(d)
      <4>1. /\ a.pending \in SUBSET Command /\ c \in a.pending
            /\ \A d \in a.pending : \/ GetPriority(c) < GetPriority(d)
                                    \/ GetPriority(c) = GetPriority(d) /\ c.id <= d.id
        BY <2>2, <2>6, TopIsFirst DEF IsEngine
      <4> HIDE DEF c
      <4>2. c \in Command /\ \A d \in a.pending : GetPriority(d) \in Nat
        BY <4>1, PriorityType
      <4>3. GetPriority(c) \in Nat
        BY <4>1, <4>2
      <4> QED BY <4>1, <4>2, <4>3
    <3>2. c.type \notin EHTypes
      BY <2>3, <2>6 DEF CheckForPendingErrorHandlingCmd
    <3> HIDE DEF c
    <3>3. ASSUME c.type \in {"cancel", "cancelAll"}
          PROVE  c \in ApiOf(a.pending) /\ \A d \in a.pending : d.type \in ApiKinds
      <4>1. c.type \in ApiKinds
        BY <3>3 DEF ApiKinds, Ordinary
      <4>2. ASSUME NEW d \in a.pending PROVE d.type \in ApiKinds
        <5>1. d \in Command /\ GetPriority(c) = 3 /\ GetPriority(c) <= GetPriority(d)
          BY <2>2, <3>1, <3>3, PriorityType DEF IsEngine
        <5>2. d.type \notin {"sync"} \cup EHTypes
          BY <5>1, PriorityType
        <5> QED BY <5>1, <5>2 DEF Command, ApiKinds
      <4> QED BY <3>1, <4>1, <4>2 DEF ApiOf
    <3>4. Without(a, g, c)
      BY <2>2 DEF IsEngine, Members, Without
    <3> HIDE DEF g
    <3>5. CASE \/ c.type = "cancelAll"
               \/ c.type = "cancel" /\ g.current # None /\ g.current.id = c.arg
      <4>1. f = DoCancelAllCommands(g, c)
        BY <2>1, <2>6, <3>5
      <4>2. /\ f.pending \subseteq a.pending /\ f.nextId = a.nextId
            /\ Ledger(a, f) /\ Fresh(f)
        BY <2>2, <2>3, <3>3, <3>4, <3>5, <4>1, CancelAllAccount
      <4> QED BY <2>4, <4>2
    <3>6. CASE c.type = "cancel" /\ ~(g.current # None /\ g.current.id = c.arg)
      <4>1. f = DoCancelCommand(g, c)
        BY <2>1, <2>6, <3>6
      <4>2. /\ f.pending \subseteq a.pending /\ f.nextId = a.nextId
            /\ f.current = a.current /\ f.state = a.state
            /\ Ledger(a, f) /\ (f.ready \/ f.pending = {})
        BY <2>2, <2>3, <3>3, <3>4, <3>6, <4>1, CancelAccount
      <4>3. ~ErrorPending(e) => Fresh(f)
        BY <2>2, <4>2 DEF Fresh
      <4> QED BY <2>4, <4>2, <4>3
    <3>7. CASE c.type \notin {"cancel", "cancelAll"} /\ a.current # None
      <4>1. f = a
        BY <2>1, <2>6, <3>7
      <4> QED BY <2>5, <3>7, <4>1
    <3>8. CASE c.type \notin {"cancel", "cancelAll"} /\ a.current = None
      <4>1. f = Process(h)
        BY <2>1, <2>6, <3>8
      <4>2. /\ IsEngine(h) /\ h.pending = a.pending \ {c} /\ h.current = c
            /\ h.nextId = a.nextId /\ h.answered = a.answered
        BY <3>1, <3>4 DEF IsEngine, Members, Without
      <4> HIDE DEF h
      <4>3. /\ c.type \in {"pause", "stop", "reset", "quick", "sync"}
            /\ c.type \in ApiKinds <=> c.type # "sync"
        BY <3>1, <3>2, <3>8 DEF Command, Ordinary, ApiKinds
      <4>4. /\ IsEngine(f) /\ f.pending = h.pending /\ f.nextId = h.nextId
            /\ TakenOrDone(h, f) /\ Fresh(f)
        BY <4>1, <4>2, <4>3, ProcessAccount
      <4>5. \/ f.current = c /\ c.type \in ApiKinds /\ f.answered = a.answered
            \/ /\ f.current = None /\ c.type \in ApiKinds
               /\ f.answered = Answer(a.answered, c.id)
            \/ f.current = None /\ c.type \notin ApiKinds /\ f.answered = a.answered
        BY <4>2, <4>3, <4>4 DEF TakenOrDone
      <4>6. Ledger(a, f)
        BY <2>2, <2>3, <3>1, <3>8, <4>2, <4>4, <4>5, LedgerTaken
      <4> QED BY <2>4, <4>2, <4>4, <4>6
    <3> QED BY <3>5, <3>6, <3>7, <3>8
  <2> QED BY <2>1, <2>5, <2>6
<1> QED BY <1>1, <1>2, <1>3

\* So does an answer of a node: it answers the current command, or nothing.
LEMMA HandledLedger ==
    ASSUME NEW e, IsEngine(e), Accountable(e), NEW f, IsEngine(f), NEW fails \in BOOLEAN,
           Handled(e, f, fails)
    PROVE  Ledger(e, f)
<1>1. CASE Kept(e, f)
  BY <1>1, LedgerKept DEF Kept, Accountable
<1>2. CASE Done(e, f)
  BY <1>2, LedgerDone DEF Done
<1>3. CASE Erred(e, f)
  <2>1. PICK type \in EHTypes :
          f.pending = e.pending \cup {[type |-> type, id |-> e.nextId, arg |-> -1]}
    BY <1>3 DEF Erred
  <2>2. ApiOf(f.pending) = ApiOf(e.pending)
    BY <2>1 DEF ApiOf, EHTypes, ApiKinds, Ordinary
  <2>3. f.pending \cap {e.current} = {}
    <3>1. e.current.type \notin EHTypes
      BY DEF Accountable, None, EHTypes, ApiKinds, Ordinary
    <3> QED BY <2>1, <3>1 DEF Accountable
  <2> QED BY <1>3, <2>2, <2>3, LedgerKept DEF Erred
<1> QED BY <1>1, <1>2, <1>3 DEF Handled

-----------------------------------------------------------------------------
(***************************************************************************)
(* The kinds of steps.                                                     *)
(***************************************************************************)
Budget == [cmds : 0..MaxCmds, failures : Nat, errors : Nat, syncs : Nat,
           inThread : BOOLEAN]

\* A failure or an error is paid for; a stop without datapaths is not.
Paid(fails) ==
    /\ budget' \in Budget /\ budget'.cmds = budget.cmds /\ budget'.syncs = budget.syncs
    /\ budget'.failures <= budget.failures /\ budget'.errors <= budget.errors
    /\ fails => \/ Datapaths = {}
                \/ budget'.failures + budget'.errors < budget.failures + budget.errors

\* A node answers or the source reports an error.
NodeStep ==
    /\ UNCHANGED <<tsq, pc, hand, issued>>
    /\ \E fails \in BOOLEAN : Handled(eng, eng', fails) /\ Paid(fails)

\* The engine's active object runs.
EngineRuns ==
    /\ UNCHANGED <<tsq, pc, hand, issued, budget>>
    /\ eng'.pending \subseteq eng.pending /\ eng'.nextId = eng.nextId
    /\ Ledger(eng, eng')
    /\ CheckForPendingErrorHandlingCmd(eng) \/ ~ErrorPending(eng) => Fresh(eng')

\* A caller or the queue moves on and no command with it.
NobodyMoves ==
    /\ UNCHANGED <<eng, tsq, hand, issued, budget>>
    /\ DOMAIN pc' = DOMAIN pc
    /\ \A t \in Callers : pc[t] = "push" <=> pc'[t] = "push"

\* Run, in these terms.
LEMMA RunKind ==
    ASSUME EngineInv, Accountable(eng), Run
    PROVE  EngineRuns
<1> DEFINE b == [eng EXCEPT !.ready = FALSE]
<1>1. eng' = RunStep(b) /\ UNCHANGED <<tsq, pc, hand, issued, budget>>
  BY DEF Run, tsqVars
<1>2. IsEngine(eng) /\ Phases(eng, cancels)
  BY DEF EngineInv
<1>3. /\ IsEngine(b)
      /\ b.state = eng.state /\ b.pending = eng.pending /\ b.current = eng.current
      /\ b.toCancel = eng.toCancel /\ b.numCancel = eng.numCancel
      /\ b.numDp = eng.numDp /\ b.ctx = eng.ctx /\ b.dp = eng.dp /\ b.src = eng.src
      /\ b.nextId = eng.nextId /\ b.answered = eng.answered
  BY <1>2 DEF IsEngine, Members
<1> HIDE DEF b
<1>4. /\ ErrorPending(b) <=> ErrorPending(eng)
      /\ CheckForPendingErrorHandlingCmd(b) <=> CheckForPendingErrorHandlingCmd(eng)
      /\ Held(b) = Held(eng)
  BY <1>3 DEF ErrorPending, CheckForPendingErrorHandlingCmd, Held
<1>5. Phases(b, cancels)
  BY <1>2, <1>3, <1>4, PhaseKept
<1>6. Accountable(b)
  BY <1>3, <1>4 DEF Accountable
<1>7. /\ eng'.pending \subseteq b.pending /\ eng'.nextId = b.nextId /\ Ledger(b, eng')
      /\ CheckForPendingErrorHandlingCmd(b) \/ ~ErrorPending(b) => Fresh(eng')
  BY <1>1, <1>3, <1>5, <1>6, RunAccount
<1>8. Ledger(eng, eng')
  BY <1>3, <1>4, <1>7 DEF Ledger
<1> QED BY <1>1, <1>3, <1>4, <1>7, <1>8 DEF EngineRuns

\* A failure is paid from the budget.
LEMMA FailPaid ==
    ASSUME budget \in Budget, NEW ok \in BOOLEAN, Fail(ok)
    PROVE  Paid(~ok) /\ Paid(~ok \/ Datapaths = {})
BY DEF Fail, Budget, Paid

\* Every step is of one of the kinds.
LEMMA StepKinds ==
    ASSUME EngineInv, Accountable(eng), budget \in Budget, [Next]_vars
    PROVE  \/ NodeStep \/ EngineRuns \/ NobodyMoves
           \/ \E type \in ApiTypes : \E arg \in Args(type) : IssueCommand(type, arg)
           \/ SyncCall
           \/ \E t \in Callers : AddToQueue(t)
           \/ DeQueue
<1>0. IsEngine(eng) /\ Phases(eng, cancels) /\ CallersTyped
  BY DEF EngineInv
<1>1. CASE Run
  BY <1>1, RunKind
<1>2. ASSUME NEW d \in Datapaths, NEW ok \in BOOLEAN, DatapathDone(d, ok)
      PROVE  NodeStep
  <2>1. PICK c \in eng.ctx :
          /\ c.who = d /\ c.op \in Asked
          /\ eng' = FreeEngineContext(
                      HandlePlayerDatapathEvent(
                        [eng EXCEPT !.dp[d] = IF c.op = "DPReset" THEN "idle" ELSE @], c, ok),
                      c)
    BY <1>2 DEF DatapathDone, Asked
  <2>2. UNCHANGED <<tsq, pc, hand, issued>> /\ Fail(ok)
    BY <1>2 DEF DatapathDone, tsqVars, callVars
  <2> DEFINE m == [eng EXCEPT !.dp[c.who] = IF c.op = "DPReset" THEN "idle" ELSE @]
  <2>3. eng' = FreeEngineContext(HandlePlayerDatapathEvent(m, c, ok), c)
    BY <2>1
  <2>4. /\ IsEngine(m) /\ Phases(m, cancels) /\ m.ctx = eng.ctx /\ m.state = eng.state
        /\ m.pending = eng.pending /\ m.current = eng.current
        /\ m.nextId = eng.nextId /\ m.answered = eng.answered /\ m.ready = eng.ready
    BY <1>0, <2>1, DatapathMarked
  <2> HIDE DEF m
  <2>5. Handled(m, eng', ~ok)
    BY <2>1, <2>3, <2>4, DatapathHandled
  <2>6. Handled(eng, eng', ~ok)
    BY <2>4, <2>5 DEF Handled, Kept, Done, Erred
  <2> QED BY <2>2, <2>6, FailPaid DEF NodeStep
<1>3. ASSUME NEW ok \in BOOLEAN, SourceDone(ok)
      PROVE  NodeStep
  <2>1. PICK c \in eng.ctx :
          c.who = Src /\ eng' = FreeEngineContext(SourceCommandCompleted(eng, ok), c)
    BY <1>3 DEF SourceDone
  <2>2. UNCHANGED <<tsq, pc, hand, issued>> /\ Fail(ok)
    BY <1>3 DEF SourceDone, tsqVars, callVars
  <2>3. Handled(eng, eng', ~ok \/ Datapaths = {})
    BY <1>0, <2>1, SourceHandled
  <2> QED BY <2>2, <2>3, FailPaid DEF NodeStep
<1>4. ASSUME Handled(eng, eng', FALSE), UNCHANGED <<tsq, pc, hand, issued, budget>>
      PROVE  NodeStep
  <2>1. Paid(FALSE)
    BY <1>4 DEF Paid, Budget
  <2> QED BY <1>4, <2>1 DEF NodeStep
<1>5. ASSUME NEW d \in Datapaths, NodeDone(d)
      PROVE  NodeStep
  <2>1. PICK c \in eng.ctx :
          /\ c.who = d /\ c.op \in {"DecReset", "SinkReset"}
          /\ eng' = FreeEngineContext(IF c.op = "DecReset" THEN HandleDecNodeReset(eng, d)
                                      ELSE HandleSinkNodeReset(eng, d), c)
    BY <1>5 DEF NodeDone
  <2>2. Handled(eng, eng', FALSE)
    BY <1>0, <2>1, NodeHandled
  <2> QED BY <1>4, <1>5, <2>2 DEF NodeDone, tsqVars, callVars
<1>6. ASSUME NEW w, CancelDone(w)
      PROVE  NodeStep
  <2> DEFINE C == IF w = Src THEN {c \in eng.ctx : c.who # Src} ELSE eng.ctx
             g == [eng EXCEPT !.numCancel = @ - 1, !.ctx = C]
  <2>1. /\ w \in cancels /\ UNCHANGED <<tsq, pc, hand, issued, budget>>
        /\ eng' = IF g.numCancel # 0 THEN g
                  ELSE ResetSource(RemoveDatapathContextFromList(
                                       [g EXCEPT !.toCancel = None]))
    BY <1>0, <1>6 DEF CancelDone, tsqVars, callVars, IsEngine, Members
  <2>2. eng' \in {g, ResetSource(RemoveDatapathContextFromList([g EXCEPT !.toCancel = None]))}
    BY <2>1
  <2>3. \E n : g = [eng EXCEPT !.numCancel = n, !.ctx = C]
    BY <1>0 DEF IsEngine, Members
  <2> HIDE DEF g, C
  <2>4. Handled(eng, eng', FALSE)
    BY <1>0, <2>1, <2>2, <2>3, CancelHandled
  <2> QED BY <1>4, <2>1, <2>4
<1>7. CASE SourceError
  <2>1. /\ UNCHANGED <<tsq, pc, hand, issued>>
        /\ budget.errors > 0 /\ budget' = [budget EXCEPT !.errors = @ - 1]
        /\ eng' = eng \/ eng' = AddErrorHandlingCmd(eng, "ehGeneral")
    BY <1>7 DEF SourceError, tsqVars, callVars
  <2>2. Paid(TRUE)
    BY <2>1 DEF Paid, Budget
  <2>3. Handled(eng, eng', TRUE)
    <3>1. CASE eng' = eng
      BY <3>1 DEF Handled, Kept
    <3>2. CASE eng' = AddErrorHandlingCmd(eng, "ehGeneral")
      BY <1>0, <3>2, ErrorHandledOnce
    <3> QED BY <2>1, <3>1, <3>2
  <2> QED BY <2>1, <2>2, <2>3 DEF NodeStep
<1>8. CASE SyncReturn
  BY <1>0, <1>8 DEF SyncReturn, tsqVars, NobodyMoves, CallersTyped, Callers
<1>9. ASSUME NEW t \in Callers, SignalQueue(t)
       PROVE  NobodyMoves
  <2>1. /\ pc[t] = "signal" /\ UNCHANGED <<eng, tsq, hand, issued, budget>>
        /\ \E x \in {"block", "idle"} : pc' = [pc EXCEPT ![t] = x]
    BY <1>9 DEF SignalQueue, Queued
  <2> QED BY <1>0, <2>1 DEF NobodyMoves, CallersTyped
<1>10. CASE QueueRun
  BY <1>10 DEF QueueRun, callVars, NobodyMoves
<1>11. CASE UNCHANGED vars
  BY <1>11 DEF vars, NobodyMoves
<1> QED
  BY <1>1, <1>2, <1>3, <1>5, <1>6, <1>7, <1>8, <1>9, <1>10, <1>11
  DEF Next, EngineThread, NodeAnswers, CallerStep

-----------------------------------------------------------------------------
(***************************************************************************)
(* Where the application's commands are.  An id that was issued is in the  *)
(* application's hand, in the thread-safe queue, in the engine, or         *)
(* answered: in one of these, and there once.                              *)
(***************************************************************************)
InHand(i) == hand["app"] # None /\ hand["app"].id = i
InQueue(i) == \E k \in DOMAIN tsq : tsq[k].type \in ApiKinds /\ tsq[k].id = i
InEngine(e, i) == \E c \in Held(e) : c.id = i

HandsTyped ==
    /\ pc["app"] = "push" => hand["app"].type \in ApiKinds /\ hand["app"].id \in issued
    /\ pc["app"] # "push" => hand["app"] = None
    /\ pc["sync"] = "push" => hand["sync"].type = "sync"

\* Ids are drawn in order, and those of error handling commands are not the
\* application's.
IdsDrawn ==
    /\ \A i \in issued : i \in Nat /\ i < eng.nextId
    /\ \A c \in Held(eng) : c.id \in issued
    /\ \A k \in DOMAIN tsq : tsq[k].type \in ApiKinds => tsq[k].id \in issued
    /\ \A c \in eng.pending : c.type \in EHTypes => c.id \notin issued /\ c.id < eng.nextId

OnePlace ==
    /\ \A j, k \in DOMAIN tsq :
           tsq[j].type \in ApiKinds /\ tsq[k].type \in ApiKinds /\ tsq[j].id = tsq[k].id
               => j = k
    /\ \A i \in issued : /\ ~(InHand(i) /\ InQueue(i))
                         /\ ~(InHand(i) /\ InEngine(eng, i))
                         /\ ~(InQueue(i) /\ InEngine(eng, i))

AnsweredIsGone ==
    \A i \in 0..MaxIds :
        eng.answered[i] = IF i \in issued /\ ~InHand(i) /\ ~InQueue(i) /\ ~InEngine(eng, i)
                          THEN 1 ELSE 0

Accounted ==
    /\ budget \in Budget /\ Accountable(eng) /\ HandsTyped /\ IdsDrawn
    /\ OnePlace /\ AnsweredIsGone

\* The ledger, for one id.
LEMMA LedgerAt ==
    ASSUME NEW e, Accountable(e), NEW f, Ledger(e, f), NEW i \in 0..MaxIds
    PROVE  /\ InEngine(f, i) => InEngine(e, i)
           /\ f.answered[i] = IF InEngine(e, i) /\ ~InEngine(f, i)
                              THEN e.answered[i] + 1 ELSE e.answered[i]
<1>1. InEngine(f, i) => InEngine(e, i)
  BY DEF InEngine, Ledger
<1>2. (\E d \in Held(e) \ Held(f) : d.id = i) <=> InEngine(e, i) /\ ~InEngine(f, i)
  BY DEF InEngine, Ledger, Accountable
<1>3. /\ e.answered[i] \in Nat
      /\ f.answered[i] = e.answered[i] + (IF \E d \in Held(e) \ Held(f) : d.id = i
                                          THEN 1 ELSE 0)
  BY DEF Ledger, Accountable, AnswerAll
<1> QED BY <1>1, <1>2, <1>3

\* A step of the engine or of a node keeps the account.
LEMMA LedgerAccounted ==
    ASSUME Accounted, Ledger(eng, eng'), UNCHANGED <<tsq, pc, hand, issued>>,
           budget' \in Budget, eng.nextId \in Nat, eng'.nextId \in Nat,
           eng'.nextId >= eng.nextId,
           \A c \in eng'.pending \ eng.pending : c.id = eng.nextId /\ eng'.nextId > eng.nextId,
           \A c \in eng.pending : c.id \in Nat
    PROVE  Accounted'
<1>1. Accountable(eng')
  BY LedgerChain DEF Accounted
<1>2. HandsTyped'
  BY DEF Accounted, HandsTyped
<1>3. Held(eng') \subseteq Held(eng)
  BY DEF Ledger
<1>4. IdsDrawn'
  <2>1. \A i \in issued : i \in Nat /\ i < eng'.nextId
    BY DEF Accounted, IdsDrawn
  <2>2. \A c \in Held(eng') : c.id \in issued
    BY <1>3 DEF Accounted, IdsDrawn
  <2>3. ASSUME NEW c \in eng'.pending, c.type \in EHTypes
        PROVE  c.id \notin issued /\ c.id < eng'.nextId
    <3>1. CASE c \in eng.pending
      BY <2>3, <3>1 DEF Accounted, IdsDrawn
    <3>2. CASE c \notin eng.pending
      <4>1. c.id = eng.nextId /\ eng'.nextId > eng.nextId
        BY <3>2
      <4> QED BY <4>1 DEF Accounted, IdsDrawn
    <3> QED BY <3>1, <3>2
  <2> QED BY <2>1, <2>2, <2>3 DEF Accounted, IdsDrawn
<1>5. \A i : InEngine(eng', i) => InEngine(eng, i)
  BY <1>3 DEF InEngine
<1>6. (\A i : InHand(i)' <=> InHand(i)) /\ (\A i : InQueue(i)' <=> InQueue(i))
  BY DEF InHand, InQueue
<1>7. OnePlace'
  <2>1. \A i \in issued : /\ ~(InHand(i)' /\ InQueue(i)')
                          /\ ~(InHand(i)' /\ InEngine(eng', i))
                          /\ ~(InQueue(i)' /\ InEngine(eng', i))
    BY <1>5, <1>6 DEF Accounted, OnePlace
  <2> QED BY <2>1 DEF Accounted, OnePlace
<1>8. ASSUME NEW i \in 0..MaxIds
      PROVE  eng'.answered[i] =
                 IF i \in issued /\ ~InHand(i) /\ ~InQueue(i) /\ ~InEngine(eng', i)
                 THEN 1 ELSE 0
  <2>1. /\ InEngine(eng', i) => InEngine(eng, i)
        /\ eng'.answered[i] = IF InEngine(eng, i) /\ ~InEngine(eng', i)
                              THEN eng.answered[i] + 1 ELSE eng.answered[i]
    BY LedgerAt DEF Accounted
  <2>2. eng.answered[i] = IF i \in issued /\ ~InHand(i) /\ ~InQueue(i) /\ ~InEngine(eng, i)
                          THEN 1 ELSE 0
    BY DEF Accounted, AnsweredIsGone
  <2>3. InEngine(eng, i) => i \in issued /\ ~InHand(i) /\ ~InQueue(i)
    BY DEF Accounted, IdsDrawn, OnePlace, InEngine
  <2> QED BY <2>1, <2>2, <2>3
<1>9. AnsweredIsGone'
  BY <1>6, <1>8 DEF AnsweredIsGone
<1> QED BY <1>1, <1>2, <1>4, <1>7, <1>9 DEF Accounted

\* A command is added to the engine in its thread.
LEMMA HeldAdded ==
    ASSUME NEW e, IsEngine(e), Accountable(e), NEW c \in OrdinaryCommand,
           c.type \in ApiKinds => ~InEngine(e, c.id),
           NEW f, IsEngine(f), f.pending = e.pending \cup {c}, f.current = e.current,
           f.answered = e.answered
    PROVE  /\ Accountable(f)
           /\ Held(f) = IF c.type \in ApiKinds THEN Held(e) \cup {c} ELSE Held(e)
           /\ \A i : InEngine(f, i) <=> InEngine(e, i) \/ (c.type \in ApiKinds /\ c.id = i)
<1>1. Held(f) = IF c.type \in ApiKinds THEN Held(e) \cup {c} ELSE Held(e)
  BY DEF Held, ApiOf
<1>2. \A i : InEngine(f, i) <=> InEngine(e, i) \/ (c.type \in ApiKinds /\ c.id = i)
  BY <1>1 DEF InEngine
<1>3. e.current # c
  <2>1. CASE e.current = None
    BY <2>1 DEF OrdinaryCommand, Ordinary, None
  <2>2. CASE e.current # None
    <3>1. e.current \in Held(e)
      BY <2>2 DEF Accountable, Held, ApiOf
    <3>2. e.current.type \in ApiKinds
      BY <2>2 DEF Accountable
    <3> QED BY <3>1, <3>2 DEF InEngine
  <2> QED BY <2>1, <2>2
<1>4. \A x, y \in Held(f) : x.id = y.id => x = y
  BY <1>1 DEF InEngine, Accountable
<1>5. Accountable(f)
  BY <1>3, <1>4 DEF Accountable
<1> QED BY <1>1, <1>2, <1>5

\* IssueCommand: the id is new.
LEMMA IssueAccounted ==
    ASSUME EngineInv, Accounted, NEW type \in ApiTypes, NEW arg \in Args(type),
           IssueCommand(type, arg)
    PROVE  Accounted'
<1> DEFINE n == eng.nextId
           c == NewCommand(type, arg)
           e == [eng EXCEPT !.nextId = @ + 1]
<1>1. /\ pc["app"] = "idle" /\ issued' = issued \cup {n}
      /\ UNCHANGED <<tsq, budget>>
      /\ \/ eng' = AddCommandToQueue(e, c) /\ UNCHANGED <<pc, hand>>
         \/ /\ eng' = e /\ pc' = [pc EXCEPT !["app"] = "push"]
            /\ hand' = [hand EXCEPT !["app"] = c]
  BY DEF IssueCommand, tsqVars
<1>2. IsEngine(eng) /\ CallersTyped /\ n \in Nat /\ type \in Ordinary
  BY ApiTypesAssumption DEF EngineInv, IsEngine, Ordinary
<1>3. c \in OrdinaryCommand /\ c.id = n /\ c.type \in ApiKinds
  <2>1. arg \in Int
    BY <1>2 DEF Args
  <2>2. type # "sync"
    BY ApiTypesAssumption
  <2> QED BY <1>2, <2>1, <2>2 DEF NewCommand, OrdinaryCommand, Command, ApiKinds
<1>4. /\ IsEngine(e) /\ e.pending = eng.pending /\ e.current = eng.current
      /\ e.answered = eng.answered /\ e.nextId = n + 1
  BY <1>2 DEF IsEngine, Members
<1> HIDE DEF c, e
<1>5. /\ hand["app"] = None /\ n \notin issued
      /\ ~InEngine(eng, n) /\ ~InQueue(n)
  BY <1>1, <1>2 DEF Accounted, HandsTyped, IdsDrawn, InEngine, InQueue
<1>6. Held(e) = Held(eng)
  BY <1>4 DEF Held
<1>7. Accountable(e) /\ \A i : InEngine(e, i) <=> InEngine(eng, i)
  BY <1>4, <1>6 DEF Accounted, Accountable, InEngine
<1>8. \A i : InQueue(i)' <=> InQueue(i)
  BY <1>1 DEF InQueue
<1>9. ASSUME NEW x \in eng.pending, x.type \in EHTypes
      PROVE  x.id \notin issued \cup {n} /\ x.id < n + 1
  <2>1. x.id \notin issued /\ x.id < n /\ x.id \in Nat
    BY <1>2, <1>9 DEF Accounted, IdsDrawn, IsEngine, Command
  <2> QED BY <1>2, <2>1
<1>10. \A i \in issued \cup {n} : i \in Nat /\ i < n + 1
  BY <1>2 DEF Accounted, IdsDrawn
<1>11. CASE eng' = AddCommandToQueue(e, c) /\ UNCHANGED <<pc, hand>>
  <2>1. /\ IsEngine(eng') /\ eng'.pending = e.pending \cup {c} /\ eng'.current = e.current
        /\ eng'.answered = e.answered /\ eng'.nextId = e.nextId
    BY <1>3, <1>4, <1>11, CommandAdded DEF OrdinaryCommand
  <2>2. /\ Accountable(eng') /\ Held(eng') = Held(eng) \cup {c}
        /\ \A i : InEngine(eng', i) <=> InEngine(eng, i) \/ i = n
    BY <1>3, <1>4, <1>5, <1>6, <1>7, <2>1, HeldAdded
  <2>3. \A i : InHand(i)' <=> InHand(i)
    BY <1>11 DEF InHand
  <2>4. HandsTyped'
    BY <1>1, <1>11 DEF Accounted, HandsTyped
  <2>5. IdsDrawn'
    <3>1. \A x \in Held(eng') : x.id \in issued'
      BY <1>1, <1>3, <2>2 DEF Accounted, IdsDrawn
    <3>2. \A x \in eng'.pending : x.type \in EHTypes => x.id \notin issued' /\ x.id < eng'.nextId
      <4>1. c.type \notin EHTypes
        BY <1>3 DEF ApiKinds, Ordinary, EHTypes
      <4> QED BY <1>1, <1>4, <1>9, <2>1, <4>1
    <3>3. \A i \in issued' : i \in Nat /\ i < eng'.nextId
      BY <1>1, <1>4, <1>10, <2>1
    <3>4. \A k \in DOMAIN tsq' : tsq'[k].type \in ApiKinds => tsq'[k].id \in issued'
      BY <1>1 DEF Accounted, IdsDrawn
    <3> QED BY <3>1, <3>2, <3>3, <3>4 DEF IdsDrawn
  <2>6. OnePlace'
    <3>1. \A i \in issued' : /\ ~(InHand(i)' /\ InQueue(i)')
                             /\ ~(InHand(i)' /\ InEngine(eng', i))
                             /\ ~(InQueue(i)' /\ InEngine(eng', i))
      BY <1>1, <1>5, <1>8, <2>2, <2>3 DEF Accounted, OnePlace, InHand
    <3> QED BY <1>1, <3>1 DEF Accounted, OnePlace
  <2>7. AnsweredIsGone'
    BY <1>1, <1>4, <1>5, <1>8, <2>1, <2>2, <2>3 DEF Accounted, AnsweredIsGone
  <2> QED BY <1>1, <2>2, <2>4, <2>5, <2>6, <2>7 DEF Accounted
<1>12. CASE /\ eng' = e /\ pc' = [pc EXCEPT !["app"] = "push"]
            /\ hand' = [hand EXCEPT !["app"] = c]
  <2>1. /\ hand'["app"] = c /\ hand'["sync"] = hand["sync"]
        /\ pc'["app"] = "push" /\ pc'["sync"] = pc["sync"]
    BY <1>2, <1>12 DEF CallersTyped, Callers
  <2>2. c # None
    BY <1>3 DEF OrdinaryCommand, Ordinary, None
  <2>3. \A i : InHand(i)' <=> i = n
    BY <1>3, <2>1, <2>2 DEF InHand
  <2>4. HandsTyped'
    BY <1>1, <1>3, <2>1 DEF Accounted, HandsTyped
  <2>5. IdsDrawn'
    <3>1. \A x \in Held(eng') : x.id \in issued'
      BY <1>1, <1>6, <1>12 DEF Accounted, IdsDrawn
    <3>2. \A x \in eng'.pending : x.type \in EHTypes => x.id \notin issued' /\ x.id < eng'.nextId
      BY <1>1, <1>4, <1>9, <1>12
    <3>3. \A i \in issued' : i \in Nat /\ i < eng'.nextId
      BY <1>1, <1>4, <1>10, <1>12
    <3>4. \A k \in DOMAIN tsq' : tsq'[k].type \in ApiKinds => tsq'[k].id \in issued'
      BY <1>1 DEF Accounted, IdsDrawn
    <3> QED BY <3>1, <3>2, <3>3, <3>4 DEF IdsDrawn
  <2>6. OnePlace'
    <3>1. \A i \in issued' : /\ ~(InHand(i)' /\ InQueue(i)')
                             /\ ~(InHand(i)' /\ InEngine(eng', i))
                             /\ ~(InQueue(i)' /\ InEngine(eng', i))
      BY <1>1, <1>5, <1>7, <1>8, <1>12, <2>3 DEF Accounted, OnePlace
    <3> QED BY <1>1, <3>1 DEF Accounted, OnePlace
  <2>7. AnsweredIsGone'
    <3>1. \A i \in 0..MaxIds :
            eng'.answered[i] = IF i \in issued' /\ ~InHand(i)' /\ ~InQueue(i)'
                                  /\ ~InEngine(eng', i) THEN 1 ELSE 0
      <4> TAKE i \in 0..MaxIds
      <4>1. eng.answered[i] = IF i \in issued /\ ~InHand(i) /\ ~InQueue(i)
                                 /\ ~InEngine(eng, i) THEN 1 ELSE 0
        BY DEF Accounted, AnsweredIsGone
      <4>2. ~InHand(i)
        BY <1>5 DEF InHand
      <4> QED BY <1>1, <1>4, <1>5, <1>7, <1>8, <1>12, <2>3, <4>1, <4>2
    <3> QED BY <3>1 DEF AnsweredIsGone
  <2> QED BY <1>1, <1>7, <1>12, <2>4, <2>5, <2>6, <2>7 DEF Accounted
<1> QED BY <1>1, <1>11, <1>12

\* AddToQueue: a command goes from the hand of its caller into the queue.
LEMMA PushAccounted ==
    ASSUME EngineInv, Accounted, NEW t \in Callers, AddToQueue(t)
    PROVE  Accounted'
<1> DEFINE n == Len(tsq)
           c == hand[t]
<1>1. /\ tsq' = Append(tsq, c) /\ pc[t] = "push" /\ UNCHANGED <<eng, issued, budget>>
      /\ \E x \in {"signal", "block", "idle"} : pc' = [pc EXCEPT ![t] = x]
      /\ hand' = [hand EXCEPT ![t] = None]
  BY DEF AddToQueue, Queued
<1>2. /\ tsq \in Seq(OrdinaryCommand) /\ c \in OrdinaryCommand
      /\ DOMAIN pc = Callers /\ DOMAIN hand = Callers
  BY <1>1 DEF EngineInv, CallersTyped
<1>3. /\ n \in Nat /\ DOMAIN tsq = 1..n /\ DOMAIN tsq' = 1..(n + 1)
      /\ \A k \in 1..n : tsq'[k] = tsq[k]
      /\ tsq'[n + 1] = c
  BY <1>1, <1>2
<1>4. c.type \in ApiKinds <=> t = "app"
  BY <1>1 DEF Accounted, HandsTyped, Callers, ApiKinds
<1>5. c # None
  BY <1>2 DEF OrdinaryCommand, Ordinary, None
<1>6. t = "app" => c.id \in issued /\ InHand(c.id)
  BY <1>1, <1>5 DEF Accounted, HandsTyped, InHand
<1> HIDE DEF n, c
<1>7. \A i : InQueue(i)' <=> InQueue(i) \/ (t = "app" /\ c.id = i)
  <2>1. ASSUME NEW i PROVE InQueue(i)' <=> InQueue(i) \/ (t = "app" /\ c.id = i)
    <3>1. InQueue(i)' <=> \E k \in 1..(n + 1) : tsq'[k].type \in ApiKinds /\ tsq'[k].id = i
      BY <1>3 DEF InQueue
    <3>2. InQueue(i) <=> \E k \in 1..n : tsq[k].type \in ApiKinds /\ tsq[k].id = i
      BY <1>3 DEF InQueue
    <3>3. \A k : k \in 1..(n + 1) <=> k \in 1..n \/ k = n + 1
      BY <1>3
    <3> QED BY <1>3, <1>4, <3>1, <3>2, <3>3
  <2> QED BY <2>1
<1>8. /\ t = "app" => \A i : ~InHand(i)' /\ (InHand(i) <=> i = c.id)
      /\ t = "sync" => \A i : InHand(i)' <=> InHand(i)
  BY <1>1, <1>2, <1>5 DEF InHand, Callers, c
<1>9. HandsTyped'
  BY <1>1, <1>2 DEF Accounted, HandsTyped, Callers
<1>10. IdsDrawn'
  <2>1. \A k \in 1..(n + 1) : tsq'[k].type \in ApiKinds => tsq'[k].id \in issued
    <3> TAKE k \in 1..(n + 1)
    <3>1. CASE k \in 1..n
      BY <1>3, <3>1 DEF Accounted, IdsDrawn
    <3>2. CASE k = n + 1
      BY <1>3, <1>4, <1>6, <3>2 DEF Callers
    <3> QED BY <1>3, <3>1, <3>2
  <2> QED BY <1>1, <1>3, <2>1 DEF Accounted, IdsDrawn
<1>11. OnePlace'
  <2>1. ASSUME NEW j \in 1..(n + 1), NEW k \in 1..(n + 1), tsq'[j].type \in ApiKinds,
               tsq'[k].type \in ApiKinds, tsq'[j].id = tsq'[k].id
        PROVE  j = k
    <3>1. CASE j \in 1..n /\ k \in 1..n
      BY <1>3, <2>1, <3>1 DEF Accounted, OnePlace
    <3>2. CASE j = n + 1 /\ k = n + 1
      BY <3>2
    <3>3. ASSUME NEW x \in 1..n, tsq'[x].type \in ApiKinds, tsq'[n + 1].type \in ApiKinds,
                 tsq'[x].id = tsq'[n + 1].id
          PROVE  FALSE
      <4>1. InQueue(c.id)
        BY <1>3, <3>3 DEF InQueue
      <4> QED BY <1>3, <1>4, <1>6, <3>3, <4>1 DEF Accounted, OnePlace
    <3> QED BY <1>3, <2>1, <3>1, <3>2, <3>3
  <2>2. \A i \in issued : /\ ~(InHand(i)' /\ InQueue(i)')
                          /\ ~(InHand(i)' /\ InEngine(eng, i))
                          /\ ~(InQueue(i)' /\ InEngine(eng, i))
    BY <1>6, <1>7, <1>8 DEF Accounted, OnePlace, Callers
  <2>3. \A i : InEngine(eng, i)' <=> InEngine(eng, i)
    BY <1>1 DEF InEngine, Held
  <2> QED BY <1>1, <1>3, <2>1, <2>2, <2>3 DEF OnePlace
<1>12. AnsweredIsGone'
  <2>1. \A i : (InHand(i)' \/ InQueue(i)') <=> (InHand(i) \/ InQueue(i))
    BY <1>7, <1>8 DEF Callers
  <2>2. \A i : InEngine(eng, i)' <=> InEngine(eng, i)
    BY <1>1 DEF InEngine, Held
  <2>3. \A i \in 0..MaxIds :
          eng.answered[i] = IF i \in issued /\ ~InHand(i)' /\ ~InQueue(i)'
                               /\ ~InEngine(eng, i) THEN 1 ELSE 0
    BY <2>1 DEF Accounted, AnsweredIsGone
  <2> QED BY <1>1, <2>2, <2>3 DEF AnsweredIsGone
<1> QED BY <1>1, <1>9, <1>10, <1>11, <1>12 DEF Accounted, Accountable, Held

\* DeQueue: a command goes from the queue into the engine.
LEMMA PopAccounted ==
    ASSUME EngineInv, Accounted, DeQueue
    PROVE  Accounted'
<1>1. UNCHANGED <<pc, hand, issued, budget>>
  BY DEF DeQueue, callVars
<1>2. \A i : InHand(i)' <=> InHand(i)
  BY <1>1 DEF InHand
<1>3. CASE tsq = <<>>
  <2>1. UNCHANGED <<tsq, eng>>
    BY <1>3 DEF DeQueue
  <2> QED BY <1>1, <2>1 DEF Accounted, HandsTyped, IdsDrawn, OnePlace, AnsweredIsGone,
          InHand, InQueue
<1>4. CASE tsq # <<>>
  <2> DEFINE n == Len(tsq)
             c == Head(tsq)
  <2>1. tsq' = Tail(tsq) /\ eng' = AddCommandToQueue(eng, c)
    BY <1>4 DEF DeQueue
  <2>2. tsq \in Seq(OrdinaryCommand) /\ IsEngine(eng)
    BY DEF EngineInv, CallersTyped
  <2>3. /\ n \in Nat \ {0} /\ DOMAIN tsq = 1..n /\ c = tsq[1] /\ c \in OrdinaryCommand
        /\ DOMAIN tsq' = 1..(n - 1) /\ \A k \in 1..(n - 1) : tsq'[k] = tsq[k + 1]
    BY <1>4, <2>1, <2>2
  <2> HIDE DEF n, c
  <2>4. \A i : InQueue(i) <=> InQueue(i)' \/ (c.type \in ApiKinds /\ c.id = i)
    <3>1. ASSUME NEW i PROVE InQueue(i) <=> InQueue(i)' \/ (c.type \in ApiKinds /\ c.id = i)
      <4>1. InQueue(i)' <=> \E k \in 1..(n - 1) : tsq[k + 1].type \in ApiKinds /\ tsq[k + 1].id = i
        BY <2>3 DEF InQueue
      <4>2. InQueue(i) <=> \E k \in 1..n : tsq[k].type \in ApiKinds /\ tsq[k].id = i
        BY <2>3 DEF InQueue
      <4>3. \A k \in 1..n : k = 1 \/ (k - 1 \in 1..(n - 1) /\ (k - 1) + 1 = k)
        BY <2>3
      <4>4. \A k \in 1..(n - 1) : k + 1 \in 1..n
        BY <2>3
      <4>5. 1 \in 1..n
        BY <2>3
      <4> QED BY <2>3, <4>1, <4>2, <4>3, <4>4, <4>5
    <3> QED BY <3>1
  <2>5. ASSUME c.type \in ApiKinds
        PROVE  /\ c.id \in issued /\ ~InEngine(eng, c.id)
               /\ \A i : i = c.id => InQueue(i) /\ ~InQueue(i)'
    <3>1. InQueue(c.id) /\ 1 \in 1..n
      BY <2>3, <2>4, <2>5
    <3>2. c.id \in issued
      BY <2>3, <2>5, <3>1 DEF Accounted, IdsDrawn
    <3>3. ASSUME NEW i, i = c.id PROVE ~InQueue(i)'
      <4> SUFFICES ASSUME NEW k \in 1..(n - 1), tsq[k + 1].type \in ApiKinds,
                          tsq[k + 1].id = i
                   PROVE  FALSE
        BY <2>3 DEF InQueue
      <4>1. k + 1 \in 1..n /\ k + 1 # 1
        BY <2>3
      <4> QED BY <2>3, <2>5, <3>1, <3>3, <4>1 DEF Accounted, OnePlace
    <3>4. ~InEngine(eng, c.id)
      BY <3>1, <3>2 DEF Accounted, OnePlace
    <3> QED BY <3>1, <3>2, <3>3, <3>4
  <2>6. /\ IsEngine(eng') /\ eng'.pending = eng.pending \cup {c} /\ eng'.current = eng.current
        /\ eng'.answered = eng.answered /\ eng'.nextId = eng.nextId
    BY <2>1, <2>2, <2>3, CommandAdded DEF OrdinaryCommand
  <2>7. /\ Accountable(eng')
        /\ Held(eng') = IF c.type \in ApiKinds THEN Held(eng) \cup {c} ELSE Held(eng)
        /\ \A i : InEngine(eng', i) <=> InEngine(eng, i) \/ (c.type \in ApiKinds /\ c.id = i)
    BY <2>2, <2>3, <2>5, <2>6, HeldAdded DEF Accounted
  <2>8. HandsTyped'
    BY <1>1 DEF Accounted, HandsTyped
  <2>9. IdsDrawn'
    <3>1. \A x \in Held(eng') : x.id \in issued
      BY <2>5, <2>7 DEF Accounted, IdsDrawn
    <3>2. \A x \in eng'.pending : x.type \in EHTypes => x.id \notin issued /\ x.id < eng.nextId
      <4>1. c.type \notin EHTypes
        BY <2>3 DEF OrdinaryCommand, Ordinary, EHTypes
      <4> QED BY <2>6, <4>1 DEF Accounted, IdsDrawn
    <3>3. \A k \in DOMAIN tsq' : tsq'[k].type \in ApiKinds => tsq'[k].id \in issued
      <4>1. \A k \in 1..(n - 1) : k + 1 \in 1..n
        BY <2>3
      <4> QED BY <2>3, <4>1 DEF Accounted, IdsDrawn
    <3> QED BY <1>1, <2>6, <3>1, <3>2, <3>3 DEF Accounted, IdsDrawn
  <2>10. OnePlace'
    <3>1. ASSUME NEW j \in 1..(n - 1), NEW k \in 1..(n - 1), tsq'[j].type \in ApiKinds,
                 tsq'[k].type \in ApiKinds, tsq'[j].id = tsq'[k].id
          PROVE  j = k
      <4>1. j + 1 \in 1..n /\ k + 1 \in 1..n
        BY <2>3
      <4>2. j + 1 = k + 1
        BY <2>3, <3>1, <4>1 DEF Accounted, OnePlace
      <4> QED BY <4>2
    <3>2. \A i \in issued : /\ ~(InHand(i)' /\ InQueue(i)')
                            /\ ~(InHand(i)' /\ InEngine(eng', i))
                            /\ ~(InQueue(i)' /\ InEngine(eng', i))
      BY <1>2, <2>4, <2>5, <2>7 DEF Accounted, OnePlace
    <3> QED BY <1>1, <2>3, <3>1, <3>2 DEF OnePlace
  <2>11. AnsweredIsGone'
    <3>1. \A i : (InQueue(i)' \/ InEngine(eng', i)) <=> (InQueue(i) \/ InEngine(eng, i))
      BY <2>4, <2>7
    <3>2. \A i \in 0..MaxIds :
            eng.answered[i] = IF i \in issued /\ ~InHand(i)' /\ ~InQueue(i)'
                                 /\ ~InEngine(eng', i) THEN 1 ELSE 0
      BY <1>2, <3>1 DEF Accounted, AnsweredIsGone
    <3> QED BY <1>1, <2>6, <3>2 DEF AnsweredIsGone
  <2> QED BY <1>1, <2>7, <2>8, <2>9, <2>10, <2>11 DEF Accounted
<1> QED BY <1>3, <1>4

\* Nothing was issued, nothing is anywhere.
LEMMA AccountedInit == Init => Accounted
<1> SUFFICES ASSUME Init PROVE Accounted
  OBVIOUS
<1>1. /\ eng.pending = {} /\ eng.current = None /\ eng.nextId = 0
      /\ eng.answered = [i \in 0..MaxIds |-> 0]
      /\ tsq = <<>> /\ hand = [t \in Callers |-> None] /\ pc = [t \in Callers |-> "idle"]
      /\ issued = {} /\ budget \in Budgets
  BY DEF Init
<1>2. Held(eng) = {}
  BY <1>1 DEF Held, ApiOf, None, ApiKinds, Ordinary
<1>3. Accountable(eng)
  BY <1>1, <1>2 DEF Accountable
<1>4. HandsTyped /\ IdsDrawn /\ OnePlace
  BY <1>1, <1>2 DEF HandsTyped, IdsDrawn, OnePlace, Callers
<1>5. AnsweredIsGone
  BY <1>1 DEF AnsweredIsGone
<1>6. budget \in Budget
  BY <1>1, BudgetsAssumption DEF Budget
<1> QED BY <1>3, <1>4, <1>5, <1>6 DEF Accounted

\* Every step keeps the account.
LEMMA AccountedStep ==
    ASSUME EngineInv, EngineInv', Accounted, [Next]_vars
    PROVE  Accounted'
<1>1. /\ IsEngine(eng) /\ IsEngine(eng') /\ CallersTyped
      /\ budget \in Budget /\ Accountable(eng)
  BY DEF EngineInv, Accounted
<1>2. /\ eng.nextId \in Nat /\ eng'.nextId \in Nat /\ \A c \in eng.pending : c.id \in Nat
  BY <1>1 DEF IsEngine, Command
<1>3. CASE NodeStep
  <2>1. PICK fails \in BOOLEAN : Handled(eng, eng', fails) /\ Paid(fails)
    BY <1>3 DEF NodeStep
  <2>2. Ledger(eng, eng')
    BY <1>1, <2>1, HandledLedger
  <2>3. /\ eng'.nextId >= eng.nextId
        /\ \A c \in eng'.pending \ eng.pending : c.id = eng.nextId /\ eng'.nextId > eng.nextId
    BY <1>2, <2>1 DEF Handled, Kept, Done, Erred
  <2> QED BY <1>2, <1>3, <2>1, <2>2, <2>3, LedgerAccounted DEF NodeStep, Paid
<1>4. CASE EngineRuns
  <2>1. /\ Ledger(eng, eng') /\ UNCHANGED <<tsq, pc, hand, issued, budget>>
        /\ eng'.nextId = eng.nextId /\ eng'.pending \ eng.pending = {}
    BY <1>4 DEF EngineRuns
  <2> QED BY <1>1, <1>2, <2>1, LedgerAccounted
<1>5. ASSUME UNCHANGED <<eng, tsq, issued>>, hand'["app"] = hand["app"], HandsTyped',
             budget' \in Budget
      PROVE  Accounted'
  BY <1>5 DEF Accounted, IdsDrawn, OnePlace, AnsweredIsGone, InHand, InQueue
<1>6. CASE NobodyMoves
  <2>1. HandsTyped'
    BY <1>6 DEF NobodyMoves, Accounted, HandsTyped, Callers
  <2> QED BY <1>1, <1>5, <1>6, <2>1 DEF NobodyMoves
<1>7. CASE SyncCall
  <2>1. /\ UNCHANGED <<eng, tsq, issued>> /\ hand'["app"] = hand["app"]
        /\ pc'["app"] = pc["app"] /\ hand'["sync"].type = "sync"
    BY <1>1, <1>7 DEF SyncCall, tsqVars, CallersTyped, Callers
  <2>2. budget' \in Budget
    BY <1>1, <1>7 DEF SyncCall, Budget
  <2>3. HandsTyped'
    BY <2>1 DEF Accounted, HandsTyped
  <2> QED BY <1>5, <2>1, <2>2, <2>3
<1>8. \/ NodeStep \/ EngineRuns \/ NobodyMoves
      \/ \E type \in ApiTypes : \E arg \in Args(type) : IssueCommand(type, arg)
      \/ SyncCall
      \/ \E t \in Callers : AddToQueue(t)
      \/ DeQueue
  BY <1>1, StepKinds
<1> QED
  BY <1>3, <1>4, <1>6, <1>7, <1>8, IssueAccounted, PushAccounted, PopAccounted

\* So the account always holds, whatever the budgets and the datapaths.
LEMMA AccountedInvariant == Spec => []Accounted
<1>1. EngineInv /\ EngineInv' /\ Accounted /\ [Next]_vars => Accounted'
  BY AccountedStep
<1> QED BY <1>1, AccountedInit, EngineInvariant, PTL DEF Spec

\* An engine with datapaths draws an id for a command of the application or
\* for a failure or an error.
HasDatapaths == Datapaths # {}

IdsBounded ==
    /\ IsFiniteSet(issued) /\ Cardinality(issued) <= budget.cmds
    /\ eng.nextId + budget.failures + budget.errors <= Cardinality(issued) + MaxErrors

\* No id is ever drawn outside the counters of answers.
LEMMA BoundedInvariant == HasDatapaths /\ Spec => []IdsBounded
<1>1. Init => IdsBounded
  <2> SUFFICES ASSUME Init PROVE IdsBounded
    OBVIOUS
  <2>1. issued = {} /\ eng.nextId = 0 /\ budget \in Budgets
    BY DEF Init
  <2>2. Cardinality(issued) = 0 /\ IsFiniteSet(issued)
    BY <2>1, FS_EmptySet
  <2>3. /\ budget.cmds \in 0..MaxCmds /\ budget.failures \in Nat /\ budget.errors \in Nat
        /\ budget.failures + budget.errors <= MaxErrors
    BY <2>1, BudgetsAssumption
  <2> QED BY <2>1, <2>2, <2>3, MaxAssumption DEF IdsBounded
<1>2. ASSUME HasDatapaths, EngineInv, EngineInv', Accounted, IdsBounded, [Next]_vars
      PROVE  IdsBounded'
  <2>1. /\ IsEngine(eng) /\ budget \in Budget /\ Accountable(eng)
        /\ eng.nextId \in Nat /\ eng'.nextId \in Nat
    BY <1>2 DEF EngineInv, Accounted, IsEngine
  <2>2. /\ budget.failures \in Nat /\ budget.errors \in Nat /\ budget.cmds \in Nat
        /\ Cardinality(issued) \in Nat /\ MaxErrors \in Nat
    BY <1>2, <2>1, MaxAssumption, FS_CardinalityType DEF Budget, IdsBounded
  <2>3. CASE NodeStep
    <3>1. PICK fails \in BOOLEAN : Handled(eng, eng', fails) /\ Paid(fails)
      BY <2>3 DEF NodeStep
    <3>2. /\ budget'.failures \in Nat /\ budget'.errors \in Nat /\ budget'.cmds = budget.cmds
          /\ budget'.failures <= budget.failures /\ budget'.errors <= budget.errors
      BY <3>1 DEF Paid, Budget
    <3>3. CASE eng'.nextId = eng.nextId
      BY <1>2, <2>1, <2>2, <2>3, <3>2, <3>3 DEF IdsBounded, NodeStep
    <3>4. CASE fails /\ eng'.nextId = eng.nextId + 1
      <4>1. budget'.failures + budget'.errors < budget.failures + budget.errors
        BY <1>2, <3>1, <3>4 DEF Paid, HasDatapaths
      <4> QED BY <1>2, <2>1, <2>2, <2>3, <3>2, <3>4, <4>1 DEF IdsBounded, NodeStep
    <3> QED BY <3>1, <3>3, <3>4 DEF Handled, Kept, Done, Erred
  <2>4. CASE EngineRuns
    BY <1>2, <2>4 DEF EngineRuns, IdsBounded
  <2>5. CASE NobodyMoves
    BY <1>2, <2>5 DEF NobodyMoves, IdsBounded
  <2>6. CASE SyncCall
    <3>1. /\ UNCHANGED <<eng, issued>> /\ budget'.cmds = budget.cmds
          /\ budget'.failures = budget.failures /\ budget'.errors = budget.errors
      BY <2>1, <2>6 DEF SyncCall, Budget
    <3> QED BY <1>2, <3>1 DEF IdsBounded
  <2>7. ASSUME NEW t \in Callers, AddToQueue(t)
        PROVE  IdsBounded'
    BY <1>2, <2>7 DEF AddToQueue, IdsBounded
  <2>8. CASE DeQueue
    <3>1. UNCHANGED <<issued, budget>> /\ eng'.nextId = eng.nextId
      <4>1. CASE tsq = <<>>
        BY <2>8, <4>1 DEF DeQueue, callVars
      <4>2. CASE tsq # <<>>
        <5>1. /\ UNCHANGED <<issued, budget>> /\ Head(tsq) \in Command
              /\ eng' = AddCommandToQueue(eng, Head(tsq))
          BY <1>2, <2>8, <4>2
          DEF DeQueue, callVars, EngineInv, CallersTyped, OrdinaryCommand
        <5> QED BY <2>1, <5>1, CommandAdded
      <4> QED BY <4>1, <4>2
    <3> QED BY <1>2, <3>1 DEF IdsBounded
  <2>9. ASSUME NEW type \in ApiTypes, NEW arg \in Args(type), IssueCommand(type, arg)
        PROVE  IdsBounded'
    <3>1. /\ Cardinality(issued) < budget.cmds /\ issued' = issued \cup {eng.nextId}
          /\ UNCHANGED budget
      BY <2>9 DEF IssueCommand
    <3>2. eng'.nextId = eng.nextId + 1
      BY <2>1, <2>9 DEF IssueCommand, AddCommandToQueue, IsEngine, Members
    <3>3. eng.nextId \notin issued
      BY <1>2, <2>1 DEF Accounted, IdsDrawn
    <3>4. IsFiniteSet(issued') /\ Cardinality(issued') = Cardinality(issued) + 1
      BY <1>2, <3>1, <3>3, FS_AddElement DEF IdsBounded
    <3> QED BY <1>2, <2>1, <2>2, <3>1, <3>2, <3>4 DEF IdsBounded
  <2>10. \/ NodeStep \/ EngineRuns \/ NobodyMoves
         \/ \E type \in ApiTypes : \E arg \in Args(type) : IssueCommand(type, arg)
         \/ SyncCall
         \/ \E t \in Callers : AddToQueue(t)
         \/ DeQueue
    BY <1>2, <2>1, StepKinds
  <2> QED BY <2>3, <2>4, <2>5, <2>6, <2>7, <2>8, <2>9, <2>10
<1>3. HasDatapaths => []HasDatapaths
  <2> SUFFICES ASSUME HasDatapaths PROVE []HasDatapaths
    OBVIOUS
  <2> QED BY PTL
<1>4. HasDatapaths /\ EngineInv /\ EngineInv' /\ Accounted /\ IdsBounded /\ [Next]_vars
        => IdsBounded'
  BY <1>2
<1> QED BY <1>1, <1>3, <1>4, EngineInvariant, AccountedInvariant, PTL DEF Spec

(***************************************************************************)
(* No command is lost and none is answered twice, for any number of        *)
(* datapaths (at least one), commands, failures, errors and synchronous    *)
(* calls, mixed in any way.                                                *)
(***************************************************************************)
THEOREM AnsweredCorrect == HasDatapaths /\ Spec => []AnsweredOnce
<1>1. EngineInv /\ Accounted /\ IdsBounded => AnsweredOnce
  <2> SUFFICES ASSUME EngineInv, Accounted, IdsBounded, NEW i \in issued
               PROVE  Waiting(i) + eng.answered[i] = 1
    BY DEF AnsweredOnce
  <2>1. IsEngine(eng) /\ CallersTyped /\ Accountable(eng) /\ budget \in Budget
    BY DEF EngineInv, Accounted
  <2>2. i \in 0..MaxIds
    <3>1. /\ Cardinality(issued) \in Nat /\ Cardinality(issued) <= MaxCmds
          /\ budget.failures \in Nat /\ budget.errors \in Nat
      BY <2>1, MaxAssumption, FS_CardinalityType DEF IdsBounded, Budget
    <3>2. i \in Nat /\ i < eng.nextId /\ eng.nextId \in Nat
      BY <2>1 DEF Accounted, IdsDrawn, IsEngine
    <3> QED BY <3>1, <3>2, MaxAssumption DEF IdsBounded, MaxIds
  <2> DEFINE isCmd(c) == c.id = i /\ c.type # "sync"
             Q == {k \in DOMAIN tsq : isCmd(tsq[k])}
             P == {c \in eng.pending : isCmd(c)}
  <2>3. isCmd(hand["app"]) <=> InHand(i)
    BY <2>2, <2>1 DEF Accounted, HandsTyped, InHand, None, ApiKinds
  <2>4. Cardinality(Q) = IF InQueue(i) THEN 1 ELSE 0
    <3>1. \A k \in DOMAIN tsq : tsq[k].type # "sync" <=> tsq[k].type \in ApiKinds
      BY <2>1 DEF CallersTyped, OrdinaryCommand, ApiKinds
    <3>2. CASE InQueue(i)
      <4>1. PICK k \in DOMAIN tsq : tsq[k].type \in ApiKinds /\ tsq[k].id = i
        BY <3>2 DEF InQueue
      <4>2. Q = {k}
        BY <3>1, <4>1 DEF Accounted, OnePlace
      <4> QED BY <3>2, <4>2, FS_Singleton
    <3>3. CASE ~InQueue(i)
      <4>1. Q = {}
        BY <3>1, <3>3 DEF InQueue
      <4> QED BY <3>3, <4>1, FS_EmptySet
    <3> QED BY <3>2, <3>3
  <2>5. Cardinality(P) + (IF isCmd(eng.current) THEN 1 ELSE 0)
          = IF InEngine(eng, i) THEN 1 ELSE 0
    <3>1. \A c \in eng.pending \cup {eng.current} : isCmd(c) <=> c \in Held(eng) /\ c.id = i
      <4>1. isCmd(eng.current) <=> eng.current \in Held(eng) /\ eng.current.id = i
        BY <2>1, <2>2 DEF Accountable, Held, ApiOf, None, ApiKinds, Ordinary
      <4>2. ASSUME NEW c \in eng.pending
            PROVE  isCmd(c) <=> c \in Held(eng) /\ c.id = i
        <5>1. c.type \in Ordinary \cup EHTypes /\ (c.type \in EHTypes => c.id # i)
          BY <2>1 DEF IsEngine, Command, Accounted, IdsDrawn
        <5> QED BY <5>1 DEF Held, ApiOf, ApiKinds, Ordinary, EHTypes
      <4> QED BY <4>1, <4>2
    <3>2. \A c \in Held(eng) : c \in eng.pending \/ c = eng.current
      BY DEF Held, ApiOf
    <3>3. eng.current \notin eng.pending /\ \A c, d \in Held(eng) : c.id = d.id => c = d
      BY <2>1 DEF Accountable
    <3> HIDE DEF isCmd
    <3>4. CASE ~InEngine(eng, i)
      <4>1. P = {} /\ ~isCmd(eng.current)
        BY <3>1, <3>4 DEF InEngine
      <4> QED BY <3>4, <4>1, FS_EmptySet
    <3>5. CASE InEngine(eng, i)
      <4>1. PICK c \in Held(eng) : c.id = i
        BY <3>5 DEF InEngine
      <4>2. CASE c = eng.current
        <5>1. P = {} /\ isCmd(eng.current)
          BY <3>1, <3>3, <4>1, <4>2
        <5> QED BY <3>5, <5>1, FS_EmptySet
      <4>3. CASE c \in eng.pending
        <5>1. P = {c} /\ ~isCmd(eng.current)
          BY <3>1, <3>3, <4>1, <4>3
        <5> QED BY <3>5, <5>1, FS_Singleton
      <4> QED BY <3>2, <4>2, <4>3
    <3> QED BY <3>4, <3>5
  <2>6. Waiting(i) = (IF isCmd(hand["app"]) THEN 1 ELSE 0) + Cardinality(Q)
                     + Cardinality(P) + (IF isCmd(eng.current) THEN 1 ELSE 0)
    BY DEF Waiting
  <2>7. Cardinality(P) \in Int
    <3>1. P \subseteq eng.pending
      OBVIOUS
    <3>2. P = {} \/ \E c : P = {c}
      <4>1. \A c, d \in P : c = d
        <5>1. \A c \in P : c \in Held(eng) /\ c.id = i
          <6> SUFFICES ASSUME NEW c \in P PROVE c \in Held(eng) /\ c.id = i
            OBVIOUS
          <6>1. c.type \in Ordinary \cup EHTypes /\ (c.type \in EHTypes => c.id # i)
            BY <2>1 DEF IsEngine, Command, Accounted, IdsDrawn
          <6> QED BY <6>1 DEF Held, ApiOf, ApiKinds, Ordinary, EHTypes
        <5> QED BY <2>1, <5>1 DEF Accountable
      <4> HIDE DEF P
      <4> QED BY <4>1
    <3> HIDE DEF P
    <3>3. CASE P = {}
      BY <3>3, FS_EmptySet
    <3>4. ASSUME NEW c, P = {c} PROVE Cardinality(P) \in Int
      <4>1. Cardinality({c}) = 1
        BY FS_Singleton
      <4> QED BY <3>4, <4>1
    <3> QED BY <3>2, <3>3, <3>4
  <2>8. eng.answered[i] = IF ~InHand(i) /\ ~InQueue(i) /\ ~InEngine(eng, i) THEN 1 ELSE 0
    BY <2>2 DEF Accounted, AnsweredIsGone
  <2>9. /\ ~(InHand(i) /\ InQueue(i)) /\ ~(InHand(i) /\ InEngine(eng, i))
        /\ ~(InQueue(i) /\ InEngine(eng, i))
    BY DEF Accounted, OnePlace
  <2> HIDE DEF isCmd, P, Q
  <2> QED BY <2>3, <2>4, <2>5, <2>6, <2>7, <2>8, <2>9
<1> QED BY <1>1, EngineInvariant, AccountedInvariant, BoundedInvariant, PTL

-----------------------------------------------------------------------------
(***************************************************************************)
(* The engine is scheduled or waits for an answer.  This needs what        *)
(* CheckForPendingErrorHandlingCmd relies on: a Run that finds a           *)
(* synchronous command before the error handling command, while another    *)
(* command is current, returns without doing either.                       *)
(***************************************************************************)

\* Every step leaves the engine scheduled or waiting, if error handling
\* commands are on top.
LEMMA FreshStep ==
    ASSUME EngineInv, EngineInv', Accounted, ErrorHandlingOnTop, Fresh(eng), [Next]_vars
    PROVE  Fresh(eng')
<1>1. IsEngine(eng) /\ CallersTyped /\ budget \in Budget /\ Accountable(eng)
  BY DEF EngineInv, Accounted
<1>2. CASE NodeStep
  <2>1. PICK fails \in BOOLEAN : Handled(eng, eng', fails)
    BY <1>2 DEF NodeStep
  <2>2. CASE Kept(eng, eng')
    BY <2>2 DEF Kept, Fresh
  <2>3. CASE Done(eng, eng')
    BY <2>3 DEF Done, Fresh
  <2>4. CASE Erred(eng, eng')
    BY <2>4 DEF Erred, Fresh
  <2> QED BY <2>1, <2>2, <2>3, <2>4 DEF Handled
<1>3. CASE EngineRuns
  <2>1. CheckForPendingErrorHandlingCmd(eng) \/ ~ErrorPending(eng)
    BY DEF ErrorHandlingOnTop, CheckForPendingErrorHandlingCmd, ErrorPending
  <2> QED BY <1>3, <2>1 DEF EngineRuns
<1>4. ASSUME NEW type \in ApiTypes, NEW arg \in Args(type), IssueCommand(type, arg)
      PROVE  Fresh(eng')
  <2> DEFINE e == [eng EXCEPT !.nextId = @ + 1]
  <2>1. /\ IsEngine(e) /\ e.state = eng.state /\ e.ready = eng.ready
        /\ e.pending = eng.pending /\ e.current = eng.current
    BY <1>1 DEF IsEngine, Members
  <2>2. eng' = e \/ eng' = AddCommandToQueue(e, NewCommand(type, arg))
    BY <1>4 DEF IssueCommand
  <2> HIDE DEF e
  <2>3. CASE eng' = e
    BY <2>1, <2>3 DEF Fresh
  <2>4. CASE eng' = AddCommandToQueue(e, NewCommand(type, arg))
    BY <2>1, <2>4, AddedReady DEF Fresh
  <2> QED BY <2>2, <2>3, <2>4
<1>5. CASE DeQueue
  <2>1. eng' = eng \/ eng' = AddCommandToQueue(eng, Head(tsq))
    BY <1>5 DEF DeQueue
  <2> QED BY <1>1, <2>1, AddedReady DEF Fresh
<1>6. ASSUME UNCHANGED eng PROVE Fresh(eng')
  BY <1>6
<1>7. \/ NodeStep \/ EngineRuns \/ NobodyMoves
      \/ \E type \in ApiTypes : \E arg \in Args(type) : IssueCommand(type, arg)
      \/ SyncCall
      \/ \E t \in Callers : AddToQueue(t)
      \/ DeQueue
  BY <1>1, StepKinds
<1> QED
  BY <1>2, <1>3, <1>4, <1>5, <1>6, <1>7 DEF NobodyMoves, SyncCall, AddToQueue

\* An engine that waits in PAUSING, STOPPING or RESETTING waits for a node or
\* for the answer to a cancel.
LEMMA FreshWakes == EngineInv /\ Fresh(eng) => SomeoneWillWakeIt
<1> SUFFICES ASSUME EngineInv, Fresh(eng), eng.pending # {} \/ eng.current # None,
                    ~eng.ready
             PROVE  eng.ctx # {} \/ cancels # {}
  BY DEF SomeoneWillWakeIt
<1>1. eng.state \in {"PAUSING", "STOPPING", "RESETTING"} /\ Phases(eng, cancels)
  BY DEF EngineInv, IsEngine, States, Fresh
<1> QED BY <1>1 DEF Phases, WorkingPhase, ResetPhase

(***************************************************************************)
(* As long as an error handling command, if there is one, is on top, which *)
(* is what the comment in CheckForPendingErrorHandlingCmd says, the engine *)
(* never sits on its hands, for any datapaths, commands, failures, errors  *)
(* and synchronous calls.                                                  *)
(***************************************************************************)
THEOREM WakeOnTop == Spec /\ []ErrorHandlingOnTop => []SomeoneWillWakeIt
<1>1. Init => Fresh(eng)
  BY DEF Init, Fresh
<1>2. EngineInv /\ EngineInv' /\ Accounted /\ ErrorHandlingOnTop /\ Fresh(eng) /\ [Next]_vars
        => Fresh(eng')
  BY FreshStep
<1> DEFINE F == Fresh(eng)
<1>3. F' <=> Fresh(eng')
  OBVIOUS
<1> HIDE DEF F
<1>4. Init => F
  BY <1>1 DEF F
<1>5. EngineInv /\ EngineInv' /\ Accounted /\ ErrorHandlingOnTop /\ F /\ [Next]_vars => F'
  BY <1>2, <1>3 DEF F
<1>6. EngineInv /\ F => SomeoneWillWakeIt
  BY FreshWakes DEF F
<1> QED BY <1>4, <1>5, <1>6, EngineInvariant, AccountedInvariant, PTL DEF Spec

\* Synchronous calls are not made by a player that meets failures or errors
\* (a stop without datapaths is one).
Separately ==
    \A b \in Budgets : b.syncs = 0 \/ (b.failures = 0 /\ b.errors = 0 /\ Datapaths # {})

\* No synchronous call is being made.
NoSync ==
    /\ budget.syncs = 0 /\ pc["sync"] # "push"
    /\ \A k \in DOMAIN tsq : tsq[k].type # "sync"
    /\ \A c \in eng.pending : c.type # "sync"

NoError == budget.failures = 0 /\ budget.errors = 0 /\ Datapaths # {} /\ ~ErrorPending(eng)

\* A player that makes no synchronous calls has none on its way.
LEMMA NoSyncStep ==
    ASSUME EngineInv, EngineInv', Accounted, NoSync, [Next]_vars
    PROVE  NoSync'
<1>1. IsEngine(eng) /\ CallersTyped /\ budget \in Budget /\ Accountable(eng)
  BY DEF EngineInv, Accounted
<1>2. CASE NodeStep
  <2>1. PICK fails \in BOOLEAN : Handled(eng, eng', fails) /\ Paid(fails)
    BY <1>2 DEF NodeStep
  <2>2. \A c \in eng'.pending : c \in eng.pending \/ c.type \in EHTypes
    BY <2>1 DEF Handled, Kept, Done, Erred
  <2> QED BY <1>2, <2>1, <2>2 DEF NoSync, NodeStep, Paid, EHTypes
<1>3. CASE EngineRuns
  BY <1>3 DEF EngineRuns, NoSync
<1>4. CASE NobodyMoves
  BY <1>4 DEF NobodyMoves, NoSync, Callers
<1>5. ASSUME NEW type \in ApiTypes, NEW arg \in Args(type), IssueCommand(type, arg)
      PROVE  NoSync'
  <2>1. /\ UNCHANGED <<tsq, budget>> /\ pc'["sync"] = pc["sync"]
        /\ eng'.pending = eng.pending \/ eng'.pending = eng.pending \cup {NewCommand(type, arg)}
    BY <1>1, <1>5
    DEF IssueCommand, AddCommandToQueue, tsqVars, IsEngine, Members, CallersTyped, Callers
  <2>2. NewCommand(type, arg).type # "sync"
    BY ApiTypesAssumption DEF NewCommand
  <2> QED BY <2>1, <2>2 DEF NoSync
<1>6. CASE SyncCall
  BY <1>6 DEF SyncCall, NoSync
<1>7. ASSUME NEW t \in Callers, AddToQueue(t)
      PROVE  NoSync'
  <2>1. t = "app" /\ hand[t].type # "sync"
    BY <1>7 DEF AddToQueue, NoSync, Callers, Accounted, HandsTyped, ApiKinds
  <2>2. /\ UNCHANGED <<eng, budget>> /\ tsq' = Append(tsq, hand[t])
        /\ pc'["sync"] = pc["sync"]
    BY <1>1, <1>7, <2>1 DEF AddToQueue, CallersTyped, Callers
  <2>3. \A k \in DOMAIN tsq' : tsq'[k] = hand[t] \/ \E j \in DOMAIN tsq : tsq'[k] = tsq[j]
    BY <1>1, <2>2 DEF CallersTyped
  <2> QED BY <2>1, <2>2, <2>3 DEF NoSync
<1>8. CASE DeQueue
  <2>1. CASE tsq = <<>>
    BY <1>8, <2>1 DEF DeQueue, callVars, NoSync
  <2>2. CASE tsq # <<>>
    <3>1. /\ UNCHANGED <<budget, pc>> /\ tsq' = Tail(tsq)
          /\ eng' = AddCommandToQueue(eng, Head(tsq))
      BY <1>8, <2>2 DEF DeQueue, callVars
    <3>2. /\ Head(tsq) = tsq[1] /\ 1 \in DOMAIN tsq /\ Head(tsq) \in Command
          /\ \A k \in DOMAIN tsq' : \E j \in DOMAIN tsq : tsq'[k] = tsq[j]
      BY <1>1, <2>2, <3>1 DEF CallersTyped, OrdinaryCommand
    <3>3. eng'.pending = eng.pending \cup {Head(tsq)}
      BY <1>1, <3>1, <3>2, CommandAdded
    <3> QED BY <3>1, <3>2, <3>3 DEF NoSync
  <2> QED BY <2>1, <2>2
<1>9. \/ NodeStep \/ EngineRuns \/ NobodyMoves
      \/ \E type \in ApiTypes : \E arg \in Args(type) : IssueCommand(type, arg)
      \/ SyncCall
      \/ \E t \in Callers : AddToQueue(t)
      \/ DeQueue
  BY <1>1, StepKinds
<1> QED BY <1>2, <1>3, <1>4, <1>5, <1>6, <1>7, <1>8, <1>9

\* A player that meets no error has none to handle.
LEMMA NoErrorStep ==
    ASSUME EngineInv, EngineInv', Accounted, NoError, [Next]_vars
    PROVE  NoError'
<1>1. IsEngine(eng) /\ CallersTyped /\ budget \in Budget /\ Accountable(eng)
  BY DEF EngineInv, Accounted
<1>2. ASSUME NEW c, c.type \notin EHTypes, eng'.pending \subseteq eng.pending \cup {c},
             budget'.failures = 0, budget'.errors = 0
      PROVE  NoError'
  BY <1>2 DEF NoError, ErrorPending
<1>3. None.type \notin EHTypes
  BY DEF None, EHTypes
<1>4. CASE NodeStep
  <2>1. PICK fails \in BOOLEAN : Handled(eng, eng', fails) /\ Paid(fails)
    BY <1>4 DEF NodeStep
  <2>2. ~fails /\ budget'.failures = 0 /\ budget'.errors = 0
    BY <2>1 DEF NoError, Paid, Budget
  <2>3. eng'.pending = eng.pending
    BY <2>1, <2>2 DEF Handled, Kept, Done
  <2> QED BY <1>2, <1>3, <2>2, <2>3
<1>5. CASE EngineRuns
  BY <1>2, <1>3, <1>5 DEF EngineRuns, NoError
<1>6. ASSUME NEW type \in ApiTypes, NEW arg \in Args(type), IssueCommand(type, arg)
      PROVE  NoError'
  <2>1. /\ UNCHANGED budget
        /\ eng'.pending = eng.pending \/ eng'.pending = eng.pending \cup {NewCommand(type, arg)}
    BY <1>1, <1>6 DEF IssueCommand, AddCommandToQueue, IsEngine, Members
  <2>2. NewCommand(type, arg).type \notin EHTypes
    BY ApiTypesAssumption DEF NewCommand, EHTypes
  <2> QED BY <1>2, <2>1, <2>2 DEF NoError
<1>7. CASE DeQueue
  <2>1. CASE tsq = <<>>
    BY <1>2, <1>3, <1>7, <2>1 DEF DeQueue, NoError
  <2>2. CASE tsq # <<>>
    <3>1. /\ UNCHANGED budget /\ eng' = AddCommandToQueue(eng, Head(tsq))
          /\ Head(tsq) \in Command /\ Head(tsq).type \in Ordinary
      BY <1>1, <1>7, <2>2 DEF DeQueue, CallersTyped, OrdinaryCommand
    <3>2. eng'.pending = eng.pending \cup {Head(tsq)}
      BY <1>1, <3>1, CommandAdded
    <3>3. Head(tsq).type \notin EHTypes
      BY <3>1 DEF EHTypes, Ordinary
    <3> QED BY <1>2, <3>1, <3>2, <3>3 DEF NoError
  <2> QED BY <2>1, <2>2
<1>8. ASSUME UNCHANGED eng, budget'.failures = budget.failures, budget'.errors = budget.errors
      PROVE  NoError'
  BY <1>2, <1>3, <1>8 DEF NoError
<1>9. CASE SyncCall
  <2>1. UNCHANGED eng /\ budget'.failures = budget.failures /\ budget'.errors = budget.errors
    BY <1>1, <1>9 DEF SyncCall, Budget
  <2> QED BY <1>8, <2>1
<1>10. \/ NodeStep \/ EngineRuns \/ NobodyMoves
       \/ \E type \in ApiTypes : \E arg \in Args(type) : IssueCommand(type, arg)
       \/ SyncCall
       \/ \E t \in Callers : AddToQueue(t)
       \/ DeQueue
  BY <1>1, StepKinds
<1> QED
  BY <1>4, <1>5, <1>6, <1>7, <1>8, <1>9, <1>10 DEF NobodyMoves, AddToQueue

(***************************************************************************)
(* The comment in CheckForPendingErrorHandlingCmd is right of a player in  *)
(* which synchronous calls and errors do not meet (PlayerErrorMasked shows *)
(* it wrong of one in which they do).                                      *)
(***************************************************************************)
THEOREM OnTopSeparately == Separately /\ Spec => []ErrorHandlingOnTop
<1>1. ASSUME Separately, Init PROVE NoSync \/ NoError
  <2>1. /\ eng.pending = {} /\ tsq = <<>> /\ pc = [t \in Callers |-> "idle"]
        /\ budget \in Budgets
    BY <1>1 DEF Init
  <2>2. CASE budget.syncs = 0
    BY <2>1, <2>2 DEF NoSync, Callers
  <2>3. CASE budget.failures = 0 /\ budget.errors = 0 /\ Datapaths # {}
    BY <2>1, <2>3 DEF NoError, ErrorPending
  <2> QED BY <1>1, <2>1, <2>2, <2>3 DEF Separately
<1>2. Separately /\ Init => NoSync \/ NoError
  BY <1>1
<1>3. EngineInv /\ EngineInv' /\ Accounted /\ NoSync /\ [Next]_vars => NoSync'
  BY NoSyncStep
<1>4. EngineInv /\ EngineInv' /\ Accounted /\ NoError /\ [Next]_vars => NoError'
  BY NoErrorStep
<1>5. EngineInv /\ (NoSync \/ NoError) => ErrorHandlingOnTop
  <2> SUFFICES ASSUME EngineInv, NoSync \/ NoError, ErrorPending(eng)
               PROVE  Top(eng.pending).type \in EHTypes
    BY DEF ErrorHandlingOnTop, ErrorPending
  <2>1. IsEngine(eng) /\ eng.pending \in SUBSET Command /\ NoSync
    BY DEF EngineInv, IsEngine, NoError
  <2>2. eng.pending # {}
    BY DEF ErrorPending
  <2>3. Top(eng.pending) \in eng.pending
    BY <2>1, <2>2, TopIsFirst
  <2>4. CheckForPendingErrorHandlingCmd(eng)
    BY <2>1, <2>3, ErrorOnTop DEF NoSync
  <2> QED BY <2>4 DEF CheckForPendingErrorHandlingCmd
<1> QED BY <1>2, <1>3, <1>4, <1>5, EngineInvariant, AccountedInvariant, PTL DEF Spec
=============================================================================
