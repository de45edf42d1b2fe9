----------------------------- MODULE PlayerEngine -----------------------------
(***************************************************************************)
(* How the player engine takes commands, carries them out on its nodes and *)
(* recovers: PVPlayerEngine::Run with the pending queue, the command being *)
(* processed, cancellation, reset and error handling, driving a source     *)
(* node and the datapaths of the tracks, and the thread-safe queue that    *)
(* brings commands of other threads into the engine's thread.              *)
(*                                                                         *)
(* The engine starts where Start left it: STARTED, the source node and     *)
(* every datapath running.  Commands: Pause, Stop, Reset, CancelCommand,   *)
(* CancelAllCommands, "quick" for those that complete in one Run, and the  *)
(* synchronous calls other threads make.  Assertions are compiled away, as *)
(* in the release builds.  The fields of eng are the engine's members.     *)
(***************************************************************************)
EXTENDS Integers, Sequences, FiniteSets

CONSTANTS Datapaths,   \* the entries of iDatapathList
          Decoded,     \* those with a decoder node
          ApiTypes,    \* the commands the application issues
          MaxCmds,     \* bound: the asynchronous commands it ever issues
          MaxErrors,   \* bound: the failures and errors there ever are
          Budgets      \* bounds: asynchronous commands, failures of nodes, errors
                       \* the source reports on its own, synchronous calls;
                       \* inThread tells whether
                       \* the application runs in the engine's thread

Src == "source"

ASSUME DatapathsAssumption == IsFiniteSet(Datapaths) /\ Src \notin Datapaths
ASSUME DecodedAssumption == Decoded \subseteq Datapaths
ASSUME ApiTypesAssumption ==
    ApiTypes \subseteq {"pause", "stop", "reset", "quick", "cancel", "cancelAll"}
ASSUME MaxAssumption == MaxCmds \in Nat /\ MaxErrors \in Nat
ASSUME BudgetsAssumption ==
    /\ Budgets \subseteq [cmds : 0..MaxCmds, failures : Nat, errors : Nat,
                          syncs : Nat, inThread : BOOLEAN]
    /\ \A b \in Budgets : b.failures + b.errors <= MaxErrors

VARIABLES
    eng,      \* the engine
    cancels,  \* the datapaths and the source node that were told to cancel
    tsq,      \* iQueue of the thread-safe queue
    tsqSem,   \* iQueueReadySem
    tsqReq,   \* the request of the queue's active object
    tsqStep,  \* "drain" while its Run hands commands over, else "off"
    pc, hand, \* what the application and the synchronous caller are doing,
              \* and the command each is queueing
    syncSem,  \* iOOTSyncCommandSem
    issued,   \* the ids of the asynchronous commands issued
    syncId,   \* iCounter of the thread-safe queue
    budget,
    fault     \* PendComplete or PendForExec on a request in the wrong state

vars == <<eng, cancels, tsq, tsqSem, tsqReq, tsqStep, pc, hand, syncSem, issued,
          syncId, budget, fault>>
tsqVars == <<tsq, tsqSem, tsqReq, tsqStep, fault>>
callVars == <<pc, hand, syncSem, issued, syncId>>

None == [type |-> "none", id |-> -1, arg |-> -1]
EHTypes == {"ehCommand", "ehGeneral"}
Callers == {"app", "sync"}

-----------------------------------------------------------------------------
(***************************************************************************)
(* The pending queue.  A lower number is a higher priority.                *)
(***************************************************************************)

GetPriority(c) ==
    CASE c.type \in {"sync", "ehGeneral"} -> 0  \* the default of the switch
      [] c.type = "ehCommand" -> 1
      [] c.type \in {"cancel", "cancelAll"} -> 3
      [] OTHER -> 5

\* The command that is taken next: by priority, then by command id.
Top(q) ==
    CHOOSE c \in q : \A d \in q :
        \/ GetPriority(c) < GetPriority(d)
        \/ GetPriority(c) = GetPriority(d) /\ c.id <= d.id

CheckForPendingErrorHandlingCmd(e) ==
    e.pending # {} /\ Top(e.pending).type \in EHTypes

RunIfNotReady(e) == [e EXCEPT !.ready = TRUE]

\* AddCommandToQueue in the engine's thread.
AddCommandToQueue(e, c) ==
    [e EXCEPT !.pending = @ \cup {c},
              !.state = IF c.type \in EHTypes THEN "ERROR" ELSE @,
              !.ready = TRUE]

AddErrorHandlingCmd(e, type) ==
    IF CheckForPendingErrorHandlingCmd(e) THEN e
    ELSE AddCommandToQueue([e EXCEPT !.nextId = @ + 1],
                           [type |-> type, id |-> e.nextId, arg |-> -1])

\* The observer's command status callback, counted: one answer more for
\* command i, or for every command of S.
Answer(answered, i) == [answered EXCEPT ![i] = @ + 1]
AnswerAll(answered, S) ==
    [i \in DOMAIN answered |->
        answered[i] + (IF \E d \in S : d.id = i THEN 1 ELSE 0)]

\* Mutant: the engine is not scheduled for the commands that wait.
CompletedNotScheduled(e, removeSource) ==
    [e EXCEPT !.current = None,
              !.answered = Answer(@, e.current.id),
              !.src = IF removeSource THEN "none" ELSE @]

\* EngineCommandCompleted: the current command is answered and, when
\* iRemoveDataSource is set, the source node is destroyed.
EngineCommandCompleted(e, removeSource) ==
    [e EXCEPT !.current = None,
              !.ready = @ \/ e.pending # {},
              !.answered = Answer(@, e.current.id),
              !.src = IF removeSource THEN "none" ELSE @]

\* A command that was never processed is answered by being made the current
\* one for the time of the call.
AnswerOutOfTurn(e, c) ==
    [EngineCommandCompleted([e EXCEPT !.current = c], FALSE)
        EXCEPT !.current = e.current]

-----------------------------------------------------------------------------
(***************************************************************************)
(* The nodes.  ctx is iCurrentContextList: what the engine has asked for   *)
(* and has had no answer to.                                               *)
(***************************************************************************)
Issue(e, who, op) == [e EXCEPT !.ctx = @ \cup {[who |-> who, op |-> op]}]

IssueToAll(e, op) ==
    [e EXCEPT !.ctx = @ \cup {[who |-> d, op |-> op] : d \in Datapaths},
              !.numDp = Cardinality(Datapaths)]

ResetSource(e) == Issue([e EXCEPT !.state = "RESETTING"], Src, "SrcReset")

\* Mutant: the cancel of every context but the last one is counted.
CancelFewer(e) ==
    [e EXCEPT !.numCancel = IF Cardinality(e.ctx) > 1 THEN Cardinality(e.ctx) - 1
                            ELSE 1]

\* DoCancelPendingNodeDatapathCommand: one cancel for every context.
DoCancelPendingNodeDatapathCommand(e) ==
    [e EXCEPT !.numCancel = Cardinality(e.ctx)]

\* RemoveDatapathContextFromList
RemoveDatapathContextFromList(e) ==
    [e EXCEPT !.ctx = {c \in @ : c.who = Src}]

-----------------------------------------------------------------------------
(***************************************************************************)
(* The commands.                                                           *)
(***************************************************************************)

\* DoPause and DoStop once the datapaths have been told; with no datapath
\* the source node is told at once.
Begin(e, dpOp, srcOp, state) ==
    IF Datapaths = {} THEN [Issue(e, Src, srcOp) EXCEPT !.state = state]
    ELSE [IssueToAll(e, dpOp) EXCEPT !.state = state]

DoPause(e) ==
    IF e.state = "STARTED" THEN Begin(e, "DPPause", "SrcPause", "PAUSING")
    ELSE EngineCommandCompleted(e, FALSE)  \* paused already, or wrong state

DoStop(e) ==
    IF e.state \in {"STARTED", "PAUSED"}
    THEN Begin(e, "DPStop", "SrcStop", "STOPPING")
    ELSE EngineCommandCompleted(e, FALSE)  \* stopped already, or wrong state

DoReset(e) ==
    IF e.src = "active" THEN ResetSource(e)
    ELSE EngineCommandCompleted([e EXCEPT !.state = "IDLE",
                                          !.dp = [d \in Datapaths |-> "none"]],
                                TRUE)

\* Run finds Reset or a cancel current: the nodes have all been reset.
FinishReset(e) ==
    EngineCommandCompleted([e EXCEPT !.dp = [d \in Datapaths |-> "none"]], TRUE)

\* DoCancelAllCommands: the command being processed and the pending commands
\* older than c are answered, c becomes the current command, and what the
\* nodes are still doing is cancelled before they are reset.
CancelledBy(e, c) == {d \in e.pending : d.id < c.id}

\* The commands are answered one after the other, each of them scheduling
\* the engine if a command is pending then.
CancelSchedules(e, older) ==
    \/ e.current # None /\ e.pending # {}
    \/ \E d \in older : e.pending # {d}

\* Mutant: a command that is being processed is not answered.
CancelAllForgetsCurrent(e, c) ==
    LET older == CancelledBy(e, c)
        f == [e EXCEPT !.state = "RESETTING", !.toCancel = e.current,
                       !.pending = @ \ older,
                       !.answered = AnswerAll(@, older),
                       !.ready = @ \/ CancelSchedules(e, older),
                       !.current = c]
    IN  IF f.toCancel = None
        THEN IF f.src = "active" THEN ResetSource(f)
             ELSE EngineCommandCompleted([f EXCEPT !.state = "IDLE"], TRUE)
        ELSE IF f.ctx # {} THEN DoCancelPendingNodeDatapathCommand(f)
        ELSE ResetSource([f EXCEPT !.toCancel = None])

DoCancelAllCommands(e, c) ==
    LET older == CancelledBy(e, c)
        answeredNow == older \cup (IF e.current = None THEN {} ELSE {e.current})
        f == [e EXCEPT !.state = "RESETTING", !.toCancel = e.current,
                       !.pending = @ \ older,
                       !.answered = AnswerAll(@, answeredNow),
                       !.ready = @ \/ CancelSchedules(e, older),
                       !.current = c]
    IN  IF f.toCancel = None
        THEN IF f.src = "active" THEN ResetSource(f)
             ELSE EngineCommandCompleted([f EXCEPT !.state = "IDLE"], TRUE)
        ELSE IF f.ctx # {} THEN DoCancelPendingNodeDatapathCommand(f)
        ELSE ResetSource([f EXCEPT !.toCancel = None])

\* DoCancelCommand: the pending command it names is answered first, or there
\* is none and the cancel is answered with an error.
DoCancelCommand(e, c) ==
    LET named == {d \in e.pending : d.id = c.arg}
    IN  IF named = {} THEN AnswerOutOfTurn(e, c)
        ELSE LET d == CHOOSE d \in named : TRUE
             IN  AnswerOutOfTurn(
                     AnswerOutOfTurn([e EXCEPT !.pending = @ \ {d}], d), c)

\* DoErrorHandling.  The first visit cancels what is outstanding or resets
\* the source node; the visit after the resets cleans up, answers the current
\* command and ends with the removal of the error handling command.
DoErrorHandling(e) ==
    IF e.ctx # {}
    THEN DoCancelPendingNodeDatapathCommand([e EXCEPT !.state = "RESETTING"])
    ELSE IF e.src = "active" THEN ResetSource(e)
    ELSE LET f == [e EXCEPT !.state = "IDLE", !.dp = [d \in Datapaths |-> "none"]]
             g == IF f.current # None THEN EngineCommandCompleted(f, TRUE)
                  ELSE [f EXCEPT !.src = "none"]
         IN  RunIfNotReady([g EXCEPT !.pending = @ \ {Top(@)}])

\* The switch of Run over an ordinary command, which has become current.
Process(e) ==
    CASE e.current.type = "pause" -> DoPause(e)
      [] e.current.type = "stop" -> DoStop(e)
      [] e.current.type = "reset" -> DoReset(e)
      [] e.current.type = "quick" -> EngineCommandCompleted(e, FALSE)
      [] e.current.type = "sync" ->
             [e EXCEPT !.current = None, !.ready = @ \/ e.pending # {}]

RunStep(e) ==
    IF e.state = "RESETTING" THEN e
    ELSE IF CheckForPendingErrorHandlingCmd(e) THEN DoErrorHandling(e)
    ELSE LET f == IF e.current.type \in {"reset", "cancel", "cancelAll"}
                  THEN FinishReset(e) ELSE e
         IN  IF f.pending = {} THEN f
             ELSE LET c == Top(f.pending)
                      g == [f EXCEPT !.pending = @ \ {c}]
                  IN  IF \/ c.type = "cancelAll"
                         \/ c.type = "cancel" /\ g.current # None /\ g.current.id = c.arg
                      THEN DoCancelAllCommands(g, c)
                      ELSE IF c.type = "cancel" THEN DoCancelCommand(g, c)
                      ELSE IF f.current # None THEN f
                      ELSE Process([g EXCEPT !.current = c])

\* The scheduler runs the engine's active object.
Run ==
    /\ tsqStep = "off" /\ eng.ready
    /\ LET before == [eng EXCEPT !.ready = FALSE]
           after == RunStep(before)
           ranSync == \E c \in eng.pending \ after.pending : c.type = "sync"
       IN  /\ eng' = after
           /\ cancels' = IF after.numCancel > 0 /\ eng.numCancel = 0
                         THEN {c.who : c \in after.ctx} ELSE cancels
           /\ syncSem' = IF ranSync THEN syncSem + 1 ELSE syncSem
    /\ UNCHANGED <<tsqVars, pc, hand, issued, syncId, budget>>

-----------------------------------------------------------------------------
(***************************************************************************)
(* Answers of the nodes and the datapaths.                                 *)
(***************************************************************************)
FreeEngineContext(e, c) == [e EXCEPT !.ctx = @ \ {c}]

ToIdle(e) == [e EXCEPT !.state = "IDLE", !.ready = TRUE]

\* HandleDatapathPause and HandleDatapathStop
HandleDatapathPauseOrStop(e, srcOp, ok) ==
    LET f == [e EXCEPT !.numDp = @ - 1]
    IN  IF ~ok THEN AddErrorHandlingCmd(f, "ehCommand")
        ELSE IF f.numDp = 0 THEN Issue(f, Src, srcOp) ELSE f

\* HandleDatapathTeardown: the datapath is reset next.
HandleDatapathTeardown(e, d, ok) ==
    IF ok THEN Issue(e, d, "DPReset") ELSE AddErrorHandlingCmd(e, "ehCommand")

\* One answer less to wait for, and the datapath has given up its nodes.
DatapathDown(e, d) == [e EXCEPT !.numDp = @ - 1, !.dp[d] = "down"]

\* Mutant: one reset of several ends the stop or the reset.
HandleDatapathResetEarly(e, d) ==
    LET f == DatapathDown(e, d)
    IN  IF f.state = "RESETTING" THEN ToIdle(f)
        ELSE EngineCommandCompleted([f EXCEPT !.state = "INITIALIZED"], FALSE)

\* HandleDatapathReset: the last one ends the stop or the reset.
HandleDatapathReset(e, d) ==
    LET f == DatapathDown(e, d)
    IN  IF f.numDp # 0 THEN f
        ELSE IF f.state = "RESETTING" THEN ToIdle(f)
        ELSE EngineCommandCompleted([f EXCEPT !.state = "INITIALIZED"], FALSE)

\* HandlePlayerDatapathEvent: what does not fit the state is ignored.
HandlePlayerDatapathEvent(e, c, ok) ==
    IF e.toCancel # None THEN e
    ELSE IF e.state = "PAUSING" /\ c.op = "DPPause"
    THEN HandleDatapathPauseOrStop(e, "SrcPause", ok)
    ELSE IF e.state = "STOPPING" /\ c.op = "DPStop"
    THEN HandleDatapathPauseOrStop(e, "SrcStop", ok)
    ELSE IF e.state = "STOPPING" /\ c.op = "DPTeardown"
    THEN HandleDatapathTeardown(e, c.who, ok)
    ELSE IF e.state \in {"STOPPING", "RESETTING"} /\ c.op = "DPReset"
    THEN HandleDatapathReset(e, c.who)
    ELSE e

Fail(ok) == IF ok THEN UNCHANGED budget
            ELSE budget.failures > 0 /\ budget' = [budget EXCEPT !.failures = @ - 1]

\* A datapath answers what it was asked to do; a reset does not fail.
DatapathDone(d, ok) ==
    /\ tsqStep = "off" /\ d \notin cancels
    /\ \E c \in eng.ctx :
        /\ c.who = d /\ c.op \in {"DPPause", "DPStop", "DPTeardown", "DPReset"}
        /\ c.op = "DPReset" => ok
        /\ eng' = FreeEngineContext(
                      HandlePlayerDatapathEvent(
                          [eng EXCEPT !.dp[d] = IF c.op = "DPReset" THEN "idle" ELSE @],
                          c, ok),
                      c)
    /\ Fail(ok)
    /\ UNCHANGED <<cancels, tsqVars, callVars>>

\* HandleSourceNodeReset: the datapaths that are not down are reset next; one
\* that is reset already but still has its nodes has its decoder or its sink
\* node reset.
HandleSourceNodeReset(e) ==
    LET op(d) == IF e.dp[d] = "active" THEN "DPReset"
                 ELSE IF d \in Decoded THEN "DecReset" ELSE "SinkReset"
        up == {d \in Datapaths : e.dp[d] \in {"active", "idle"}}
        f == [e EXCEPT !.src = "created", !.numDp = Cardinality(up),
                       !.ctx = @ \cup {[who |-> d, op |-> op(d)] : d \in up}]
    IN  IF up = {} THEN ToIdle(f) ELSE f

\* HandleSourceNodePause and HandleSourceNodeStop
HandleSourceNodePause(e, ok) ==
    IF ok THEN EngineCommandCompleted([e EXCEPT !.state = "PAUSED"], FALSE)
    ELSE AddErrorHandlingCmd(e, "ehCommand")

HandleSourceNodeStop(e, ok) ==
    IF ok /\ Datapaths # {} THEN IssueToAll(e, "DPTeardown")
    ELSE AddErrorHandlingCmd(e, "ehCommand")

\* The branch of NodeCommandCompleted for the source node.
SourceCommandCompleted(e, ok) ==
    IF e.toCancel # None THEN e
    ELSE CASE e.state = "PAUSING" -> HandleSourceNodePause(e, ok)
           [] e.state = "STOPPING" -> HandleSourceNodeStop(e, ok)
           [] e.state = "RESETTING" -> HandleSourceNodeReset(e)
           [] OTHER -> e

\* The source node answers; a reset does not fail.
SourceDone(ok) ==
    /\ tsqStep = "off"
    /\ \E c \in eng.ctx :
        /\ c.who = Src
        /\ c.op = "SrcReset" => ok
        /\ eng' = FreeEngineContext(SourceCommandCompleted(eng, ok), c)
    /\ Fail(ok)
    /\ UNCHANGED <<cancels, tsqVars, callVars>>

\* HandleDecNodeReset: the last decoder's reset is followed by that of the
\* sinks that are left.
HandleDecNodeReset(e, d) ==
    LET f == [e EXCEPT !.numDp = @ - 1]
        sinks == {x \in Datapaths : e.dp[x] \in {"active", "idle"}}
    IN  IF f.numDp # 0 THEN f
        ELSE [f EXCEPT !.numDp = Cardinality(sinks),
                       !.ctx = @ \cup {[who |-> x, op |-> "SinkReset"] : x \in sinks}]

HandleSinkNodeReset(e, d) ==
    LET f == DatapathDown(e, d)
    IN  IF f.numDp = 0 THEN ToIdle(f) ELSE f

NodeDone(d) ==
    /\ tsqStep = "off"
    /\ \E c \in eng.ctx :
        /\ c.who = d /\ c.op \in {"DecReset", "SinkReset"}
        /\ eng' = FreeEngineContext(IF c.op = "DecReset" THEN HandleDecNodeReset(eng, d)
                                    ELSE HandleSinkNodeReset(eng, d), c)
    /\ UNCHANGED <<cancels, tsqVars, callVars, budget>>

\* A cancel is answered; what it cancelled is not heard of again, or, if it
\* is the source node's, was answered as cancelled just before.  The last
\* answer is followed by the reset of the source node.
CancelDone(w) ==
    /\ tsqStep = "off" /\ w \in cancels
    /\ cancels' = cancels \ {w}
    /\ LET e == [eng EXCEPT !.numCancel = @ - 1,
                            !.ctx = IF w = Src THEN {c \in @ : c.who # Src} ELSE @]
       IN  eng' = IF e.numCancel # 0 THEN e
                  ELSE ResetSource(RemoveDatapathContextFromList(
                                       [e EXCEPT !.toCancel = None]))
    /\ UNCHANGED <<tsqVars, callVars, budget>>

\* HandleSourceNodeErrorEvent: ignored while the engine resets or waits for
\* the source node.
SourceError ==
    /\ tsqStep = "off" /\ eng.src = "active" /\ budget.errors > 0
    /\ budget' = [budget EXCEPT !.errors = @ - 1]
    /\ eng' = IF eng.state = "RESETTING" \/ (\E c \in eng.ctx : c.who = Src) THEN eng
              ELSE AddErrorHandlingCmd(eng, "ehGeneral")
    /\ UNCHANGED <<cancels, tsqVars, callVars>>

-----------------------------------------------------------------------------
(***************************************************************************)
(* The callers and the thread-safe queue.                                  *)
(***************************************************************************)
NewCommand(type, arg) == [type |-> type, id |-> eng.nextId, arg |-> arg]

\* A cancel names any command issued before it.
Args(type) == IF type = "cancel" THEN 0..(eng.nextId - 1) ELSE {-1}

\* AddCommandToQueue in the engine's thread, or the command id being drawn in
\* another thread.
IssueCommand(type, arg) ==
    /\ pc["app"] = "idle" /\ Cardinality(issued) < budget.cmds
    /\ issued' = issued \cup {eng.nextId}
    /\ LET e == [eng EXCEPT !.nextId = @ + 1]
       IN  IF budget.inThread
           THEN /\ tsqStep = "off"
                /\ eng' = AddCommandToQueue(e, NewCommand(type, arg))
                /\ UNCHANGED <<pc, hand>>
           ELSE /\ eng' = e
                /\ pc' = [pc EXCEPT !["app"] = "push"]
                /\ hand' = [hand EXCEPT !["app"] = NewCommand(type, arg)]
    /\ UNCHANGED <<cancels, tsqVars, syncSem, syncId, budget>>

\* DoOOTSyncCommand
SyncCall ==
    /\ pc["sync"] = "idle" /\ budget.syncs > 0
    /\ budget' = [budget EXCEPT !.syncs = @ - 1]
    /\ pc' = [pc EXCEPT !["sync"] = "push"]
    /\ hand' = [hand EXCEPT !["sync"] = [type |-> "sync", id |-> syncId + 1, arg |-> -1]]
    /\ syncId' = syncId + 1
    /\ UNCHANGED <<eng, cancels, tsqVars, syncSem, issued>>

Queued(t) == IF t = "sync" THEN "block" ELSE "idle"

\* Mutant: the queue is looked at before the command is in it.
PushLooksFirst(t) ==
    /\ pc[t] = "push"
    /\ tsq' = Append(tsq, hand[t])
    /\ pc' = [pc EXCEPT ![t] = IF Len(tsq) = 1 THEN "signal" ELSE Queued(t)]
    /\ hand' = [hand EXCEPT ![t] = None]
    /\ UNCHANGED <<eng, cancels, tsqSem, tsqReq, tsqStep, fault, syncSem,
                   issued, syncId, budget>>

\* AddToQueue up to the release of the mutex: whoever fills the empty queue
\* has to signal its active object.
AddToQueue(t) ==
    /\ pc[t] = "push"
    /\ tsq' = Append(tsq, hand[t])
    /\ pc' = [pc EXCEPT ![t] = IF Len(tsq') = 1 THEN "signal" ELSE Queued(t)]
    /\ hand' = [hand EXCEPT ![t] = None]
    /\ UNCHANGED <<eng, cancels, tsqSem, tsqReq, tsqStep, fault, syncSem,
                   issued, syncId, budget>>

\* iQueueReadySem.Wait() and PendComplete
SignalQueue(t) ==
    /\ pc[t] = "signal" /\ tsqSem > 0
    /\ tsqSem' = tsqSem - 1
    /\ tsqReq' = "ready"
    /\ fault' = (fault \/ tsqReq # "pending")
    /\ pc' = [pc EXCEPT ![t] = Queued(t)]
    /\ UNCHANGED <<eng, cancels, tsq, tsqStep, hand, syncSem, issued,
                   syncId, budget>>

\* ThreadSafeQueue::Run: arms itself again before it hands anything over.
QueueRun ==
    /\ tsqStep = "off" /\ tsqReq = "ready"
    /\ tsqReq' = "pending"
    /\ tsqSem' = tsqSem + 1
    /\ tsqStep' = IF tsq = <<>> THEN "off" ELSE "drain"
    /\ UNCHANGED <<eng, cancels, tsq, fault, callVars, budget>>

\* Mutant: the callback takes one command only.
DeQueueOne ==
    /\ tsqStep = "drain"
    /\ tsqStep' = "off"
    /\ IF tsq = <<>> THEN UNCHANGED <<tsq, eng>>
       ELSE /\ tsq' = Tail(tsq)
            /\ eng' = AddCommandToQueue(eng, Head(tsq))
    /\ UNCHANGED <<cancels, tsqSem, tsqReq, fault, callVars, budget>>

\* One turn of ThreadSafeQueueDataAvailable.
DeQueue ==
    /\ tsqStep = "drain"
    /\ IF tsq = <<>>
       THEN tsqStep' = "off" /\ UNCHANGED <<tsq, eng>>
       ELSE /\ tsq' = Tail(tsq)
            /\ eng' = AddCommandToQueue(eng, Head(tsq))
            /\ UNCHANGED tsqStep
    /\ UNCHANGED <<cancels, tsqSem, tsqReq, fault, callVars, budget>>

\* iOOTSyncCommandSem.Wait() returns, and so does the call.
SyncReturn ==
    /\ pc["sync"] = "block" /\ syncSem > 0
    /\ syncSem' = syncSem - 1
    /\ pc' = [pc EXCEPT !["sync"] = "idle"]
    /\ UNCHANGED <<eng, cancels, tsqVars, hand, issued, syncId, budget>>

-----------------------------------------------------------------------------
\* Every failure and every error draws at most one id.
MaxIds == MaxCmds + MaxErrors

Init ==
    /\ eng = [state |-> "STARTED", pending |-> {}, current |-> None,
              toCancel |-> None, numCancel |-> 0, numDp |-> 0, ctx |-> {},
              ready |-> FALSE, src |-> "active",
              dp |-> [d \in Datapaths |-> "active"],
              nextId |-> 0, answered |-> [i \in 0..MaxIds |-> 0]]
    /\ cancels = {}
    /\ tsq = <<>> /\ tsqSem = 1 /\ tsqReq = "pending" /\ tsqStep = "off"
    /\ pc = [t \in Callers |-> "idle"] /\ hand = [t \in Callers |-> None]
    /\ syncSem = 0
    /\ issued = {} /\ syncId = 0
    /\ budget \in Budgets
    /\ fault = FALSE

NodeAnswers ==
    \/ \E d \in Datapaths : DatapathDone(d, TRUE) \/ NodeDone(d)
    \/ SourceDone(TRUE)
    \/ \E w \in Datapaths \cup {Src} : CancelDone(w)

EngineThread == Run \/ QueueRun \/ DeQueue

CallerStep(t) == AddToQueue(t) \/ SignalQueue(t)

Next ==
    \/ EngineThread \/ NodeAnswers
    \/ \E d \in Datapaths : DatapathDone(d, FALSE)
    \/ SourceDone(FALSE)
    \/ SourceError
    \/ \E type \in ApiTypes : \E arg \in Args(type) : IssueCommand(type, arg)
    \/ SyncCall
    \/ \E t \in Callers : CallerStep(t)
    \/ SyncReturn

Spec == Init /\ [][Next]_vars

EngineBusy == tsqStep = "drain" \/ eng.ready \/ tsqReq = "ready"
NodesOwe == tsqStep = "off" /\ (eng.ctx # {} \/ cancels # {})

\* The engine's thread runs an active object while one is ready, the nodes
\* answer what they are asked and the cancels of it, and a thread inside
\* AddToQueue or past its wait goes on.  The first two are weak fairness with
\* ENABLED written out.
FairSpec ==
    /\ Spec
    /\ []<>~EngineBusy \/ []<><<EngineThread>>_vars
    /\ []<>~NodesOwe \/ []<><<NodeAnswers>>_vars
    /\ \A t \in Callers : WF_vars(CallerStep(t))
    /\ WF_vars(SyncReturn)

-----------------------------------------------------------------------------
(***************************************************************************)
(* Properties.                                                             *)
(***************************************************************************)
Quiet == {"IDLE", "INITIALIZED", "STARTED", "PAUSED"}
States == Quiet \cup {"PAUSING", "STOPPING", "RESETTING", "ERROR"}
Cmd == [type : {"pause", "stop", "reset", "quick", "cancel", "cancelAll", "sync"}
                   \cup EHTypes,
        id : 0..MaxIds, arg : -1..MaxIds]
Context == [who : Datapaths \cup {Src},
            op : {"DPPause", "DPStop", "DPTeardown", "DPReset", "DecReset",
                  "SinkReset", "SrcPause", "SrcStop", "SrcReset"}]

TypeOK ==
    /\ eng.state \in States
    /\ eng.pending \subseteq Cmd
    /\ eng.current \in Cmd \cup {None} /\ eng.toCancel \in Cmd \cup {None}
    /\ eng.numCancel \in Nat /\ eng.numDp \in Nat
    /\ eng.ctx \subseteq Context
    /\ eng.ready \in BOOLEAN
    /\ eng.src \in {"none", "created", "active"}
    /\ eng.dp \in [Datapaths -> {"none", "down", "idle", "active"}]
    /\ eng.answered \in [0..MaxIds -> Nat]
    /\ cancels \subseteq Datapaths \cup {Src}
    /\ tsq \in Seq(Cmd) /\ tsqSem \in 0..1 /\ syncSem \in 0..1
    /\ tsqReq \in {"pending", "ready"} /\ tsqStep \in {"off", "drain"}
    /\ pc \in [Callers -> {"idle", "push", "signal", "block"}]
    /\ hand \in [Callers -> Cmd \cup {None}]
    /\ issued \subseteq 0..MaxIds

\* Where an asynchronous command may be before it is answered.
Waiting(i) ==
    LET isCmd(c) == c.id = i /\ c.type # "sync"
    IN  (IF isCmd(hand["app"]) THEN 1 ELSE 0)
        + Cardinality({k \in DOMAIN tsq : isCmd(tsq[k])})
        + Cardinality({c \in eng.pending : isCmd(c)})
        + (IF isCmd(eng.current) THEN 1 ELSE 0)

\* No command is lost and none is answered twice, whichever of cancel,
\* cancel-all, reset and error handling meets it on its way: it is in exactly
\* one place until it has its one answer (EngineCommandCompleted,
\* DoCancelCommand, DoCancelAllCommands, DoErrorHandling).
AnsweredOnce == \A i \in issued : Waiting(i) + eng.answered[i] = 1

\* The engine never sits on its hands: if it has a command in progress or
\* waiting and is not scheduled, some node still owes it an answer that will
\* wake it (Run, RunIfNotReady, NodeCommandCompleted).
SomeoneWillWakeIt ==
    (eng.pending # {} \/ eng.current # None) /\ ~eng.ready =>
        eng.ctx # {} \/ cancels # {}

\* The counters the handlers count down are the answers still to come: a
\* cancel phase ends with the last cancel, the datapath phases of Pause and
\* Stop and the resets with the last answer, however failures, cancels and
\* late answers interleave (iNumberCancelCmdPending,
\* iNumPendingDatapathCmd).
CountersMatch ==
    /\ eng.numCancel = Cardinality(cancels)
    /\ (/\ eng.state \in {"PAUSING", "STOPPING", "RESETTING"} /\ cancels = {}
        /\ \A c \in eng.ctx : c.who # Src) => eng.numDp = Cardinality(eng.ctx)

\* The states the application sees are settled: nothing is outstanding on a
\* node and no cancel is under way, so that a late answer never meets a
\* command it does not belong to; and an engine back in IDLE has reset its
\* source node (SetEngineState in the handlers of the last answers).
QuietStatesAreSettled ==
    eng.state \in Quiet =>
        /\ eng.ctx = {} /\ cancels = {} /\ eng.toCancel = None
        /\ eng.state = "IDLE" => eng.src # "active"

\* Commands of other threads are not stranded: a queue that is not empty has
\* its active object running, scheduled or about to be signalled, and nobody
\* completes a request that is not pending (AddToQueue, ThreadSafeQueue::Run).
QueueIsSignalled ==
    /\ ~fault
    /\ tsq # <<>> /\ tsqStep = "off" =>
           tsqReq = "ready" \/ \E t \in Callers : pc[t] = "signal"

\* Every command the application issues is answered and every synchronous
\* call returns, whatever fails and is cancelled meanwhile.
CommandsAnswered ==
    /\ \A i \in 0..MaxIds : i \in issued ~> eng.answered[i] = 1
    /\ pc["sync"] # "idle" ~> pc["sync"] = "idle"

\* "if an error handling cmd had been queued previously it must be in top,
\* since error handling cmds have the highest priority": what
\* CheckForPendingErrorHandlingCmd relies on when it looks at the top only.
ErrorHandlingOnTop ==
    (\E c \in eng.pending : c.type \in EHTypes) => Top(eng.pending).type \in EHTypes
=============================================================================
