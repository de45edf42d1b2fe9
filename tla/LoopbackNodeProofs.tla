------------------------- MODULE LoopbackNodeProofs -------------------------
(***************************************************************************)
(* Proofs about LoopbackNode, for any use of the node by its client, any   *)
(* number of commands and messages and any sizes of the queues.            *)
(***************************************************************************)
EXTENDS MCLoopbackNode, PvmfPortProofs

-----------------------------------------------------------------------------
(***************************************************************************)
(* The inductive invariant, on top of TypeOK and ConnectionClean of the    *)
(* ports.                                                                  *)
(***************************************************************************)

\* A Run of the port that got past its first test belongs to a started node:
\* FlushPending never holds, as no command has its number.
RunInv ==
    /\ state \in {"Idle", "Initialized", "Prepared", "Started", "Paused"}
    /\ cur \in {<<>>, <<FLUSH>>}
    /\ pc \in {"idle", "flush", "process", "queue", "send"}
    /\ pc \in {"process", "queue", "send"} => state = "Started"
    /\ hand # <<>> => pc = "queue"
    /\ pc = "queue" => \E m \in Msg : hand = <<m>>

\* A port that is gone is not connected and waits for nothing.
PortInv == ~port => conn[lb] = NoPort /\ ~waiting

\* A port is asked for once, while there is none.
RequestInv ==
    /\ \E S : cmds \in Seq(S)
    /\ \A i \in 1..Len(cmds) : cmds[i] \in use.commands
    /\ \A i, j \in 1..Len(cmds) :
         cmds[i] = REQUESTPORT => ~port /\ (cmds[j] = REQUESTPORT => i = j)

\* NoLostWakeup, in the second part of the node's Run too, and what the Run
\* of the port has seen to before it comes to Send.
WakeInv ==
    /\ pc = "send" /\ ~portReady => inQ[lb] = <<>> \/ waiting
    /\ pc \in {"idle", "flush"} /\ state = "Started" /\ port /\ ~portReady
         => /\ inQ[lb] = <<>> \/ waiting
            /\ outQ[lb] = <<>> \/ connBusy[lb]

\* Only fed messages are queued, and only Flush suspends the input.
FeedInv ==
    /\ use \in Uses /\ fed \in Nat /\ fed <= use.fed
    /\ ~suspended[peer] /\ (Undisturbed => ~suspended[lb])

Inv ==
    /\ TypeOK /\ ConnectionClean /\ RunInv /\ PortInv /\ RequestInv
    /\ WakeInv /\ FeedInv /\ StoppedIsClean

-----------------------------------------------------------------------------
(***************************************************************************)
(* What the operations of the port at one end do to the messages under way *)
(* between the two ends.                                                   *)
(***************************************************************************)
LEMMA Ends ==
    ASSUME TypeOK, ConnectionClean
    PROVE  /\ lb \in Port /\ peer \in Port /\ lb # peer /\ NoPort \notin Port
           /\ \A p \in Port : p = lb \/ p = peer
           /\ \A p, q \in Port : p # q /\ conn[p] # NoPort => conn[p] = q /\ conn[q] = p
           /\ \A p \in Port : conn[p] = NoPort => outQ[p] = <<>> /\ inQ[p] = <<>>
<1>1. /\ lb \in Port /\ peer \in Port /\ lb # peer /\ NoPort \notin Port
      /\ \A p \in Port : p = lb \/ p = peer
  BY PortAssumption, LoopAssumption
<1>2. ASSUME NEW p \in Port, NEW q \in Port, p # q, conn[p] # NoPort
      PROVE  conn[p] = q /\ conn[q] = p
  <2>1. conn[p] \in Port BY <1>2 DEF TypeOK
  <2>2. conn[p] # p /\ conn[conn[p]] = p BY <1>2 DEF ConnectionClean
  <2>3. QED BY <1>1, <1>2, <2>1, <2>2
<1>3. QED BY <1>1, <1>2 DEF ConnectionClean

LEMMA QueueAt ==
    ASSUME TypeOK, ConnectionClean, NEW p \in Port, NEW q \in Port, p # q,
           NEW m \in Msg, QueueOutgoingMsg(p, m)
    PROVE  /\ conn' = conn /\ suspended' = suspended /\ connBusy' = connBusy
           /\ inQ'[p] = inQ[p] /\ outQ'[q] = outQ[q]
           /\ inQ'[q] \o outQ'[p] = Append(inQ[q] \o outQ[p], m)
           /\ \/ inQ'[q] = inQ[q]
              \/ <<q, "incoming">> \in acts' /\ \E x \in Msg : inQ'[q] = Append(inQ[q], x)
<1>1. inQ[q] \in Seq(Msg) /\ outQ[p] \in Seq(Msg) BY DEF TypeOK
<1>2. conn[p] = q BY Ends DEF QueueOutgoingMsg, QueueDirectly, QueueRefused
<1>3. Append(outQ[p], m) \in Seq(Msg) /\ Append(outQ[p], m) # <<>> BY <1>1, AppendProperties
<1>4. CASE QueueDirectly(p, m)
  <2>1. /\ inQ'[q] = Append(inQ[q], Head(Append(outQ[p], m))) /\ inQ'[p] = inQ[p]
        /\ outQ'[p] = Tail(Append(outQ[p], m)) /\ outQ'[q] = outQ[q]
    BY <1>2, <1>4 DEF QueueDirectly, Receive, TypeOK
  <2>2. inQ'[q] \o outQ'[p] = Append(inQ[q] \o outQ[p], m)
    BY <1>1, <1>3, <2>1, MoveHead, PutLast, ZenonT(40)
  <2>3. Head(Append(outQ[p], m)) \in Msg BY <1>3, HeadTailProperties
  <2>4. QED BY <1>2, <1>4, <2>1, <2>2, <2>3 DEF QueueDirectly
<1>5. CASE QueueRefused(p, m)
  <2>1. inQ' = inQ /\ outQ'[p] = Append(outQ[p], m) /\ outQ'[q] = outQ[q]
    BY <1>5 DEF QueueRefused, inVars, TypeOK
  <2>2. inQ'[q] \o outQ'[p] = Append(inQ[q] \o outQ[p], m) BY <1>1, <2>1, PutLast
  <2>3. QED BY <1>5, <2>1, <2>2 DEF QueueRefused
<1>6. QED BY <1>4, <1>5 DEF QueueOutgoingMsg

LEMMA SendAt ==
    ASSUME TypeOK, ConnectionClean, NEW p \in Port, NEW q \in Port, p # q, Send(p)
    PROVE  /\ conn' = conn /\ suspended' = suspended /\ connBusy'[q] = connBusy[q]
           /\ inQ'[p] = inQ[p] /\ outQ'[q] = outQ[q]
           /\ \/ inQ'[q] = inQ[q]
              \/ <<q, "incoming">> \in acts' /\ \E x \in Msg : inQ'[q] = Append(inQ[q], x)
           /\ \/ inQ'[q] \o outQ'[p] = inQ[q] \o outQ[p]
              \/ /\ suspended[q] /\ inQ'[q] = inQ[q]
                 /\ outQ[p] # <<>> /\ outQ'[p] = Tail(outQ[p])
<1>1. inQ[q] \in Seq(Msg) /\ outQ[p] \in Seq(Msg) BY DEF TypeOK
<1>2. conn[p] = q /\ outQ[p] # <<>> BY Ends DEF Send, SendBusy, SendDone, SendGuard
<1>3. CASE SendBusy(p)
  BY <1>3 DEF SendBusy, inVars, outVars, TypeOK
<1>4. CASE SendDone(p) /\ suspended[q]
  <2>1. inQ' = inQ /\ outQ'[p] = Tail(outQ[p]) /\ outQ'[q] = outQ[q]
    BY <1>2, <1>4 DEF SendDone, inVars, TypeOK
  <2>2. QED BY <1>2, <1>4, <2>1 DEF SendDone
<1>5. CASE SendDone(p) /\ ~suspended[q]
  <2>1. /\ inQ'[q] = Append(inQ[q], Head(outQ[p])) /\ inQ'[p] = inQ[p]
        /\ outQ'[p] = Tail(outQ[p]) /\ outQ'[q] = outQ[q]
    BY <1>2, <1>5 DEF SendDone, Receive, TypeOK
  <2>2. inQ'[q] \o outQ'[p] = inQ[q] \o outQ[p] BY <1>1, <1>2, <2>1, MoveHead
  <2>3. <<q, "incoming">> \in acts' BY <1>2, <1>5 DEF SendDone
  <2>4. Head(outQ[p]) \in Msg BY <1>1, <1>2, HeadTailProperties
  <2>5. QED BY <1>5, <2>1, <2>2, <2>3, <2>4 DEF SendDone
<1>6. QED BY <1>3, <1>4, <1>5 DEF Send

LEMMA TakeAt ==
    ASSUME TypeOK, ConnectionClean, NEW p \in Port, NEW q \in Port, p # q,
           DequeueIncomingMsg(p)
    PROVE  /\ conn' = conn /\ suspended' = suspended /\ outQ' = outQ
           /\ inQ[p] # <<>> /\ inQ'[p] = Tail(inQ[p]) /\ inQ'[q] = inQ[q]
           /\ connBusy[q] => connBusy'[q] \/ <<q, "conn_ready">> \in acts'
           /\ connBusy[p] => connBusy'[p]
<1> DEFINE ready == InReady(p, Len(inQ[p]) - 1, inCap[p], inPct[p])
<1>1. conn[p] = q BY Ends DEF DequeueIncomingMsg
<1>2. /\ connBusy' = [r \in Port |-> connBusy[r] /\ ~(ready /\ conn[p] = r)]
      /\ acts' = InReport(p, ready)
  BY DEF DequeueIncomingMsg, EvaluateIncomingBusy
<1> HIDE DEF ready
<1>3. connBusy[q] => connBusy'[q] \/ <<q, "conn_ready">> \in acts'
  <2>1. CASE ready BY <1>1, <1>2, <2>1, Ends DEF InReport
  <2>2. CASE ~ready BY <1>2, <2>2
  <2>3. QED BY <2>1, <2>2
<1>4. connBusy[p] => connBusy'[p] BY <1>1, <1>2
<1>5. QED BY <1>3, <1>4 DEF DequeueIncomingMsg, outVars, TypeOK
-----------------------------------------------------------------------------
(***************************************************************************)
(* The steps, one invariant at a time.                                     *)
(***************************************************************************)

\* LOOPBACK_CMD_FLUSH is not the number of the command Flush.
LEMMA NeverPending == ASSUME RunInv PROVE ~FlushPending(cur)
BY DEF RunInv, FlushPending, FLUSH, LOOPBACK_CMD_FLUSH

\* What the Run of the node does to a flush is nothing.
LEMMA CheckFlushIdles ==
    ASSUME RunInv, CheckFlush
    PROVE  /\ pc = "flush" /\ pc' = "idle" /\ UNCHANGED hand
           /\ UNCHANGED <<portVars, state, cur, cmds, nodeReady, ioVars, envVars>>
BY NeverPending DEF CheckFlush

\* The messages that are queued are messages.
LEMMA FedIsMsg == ASSUME FeedInv, fed < use.fed PROVE fed + 1 \in Msg
<1>1. use.fed \in 0..MaxFed BY LoopAssumption DEF FeedInv
<1>2. MaxFed \in Nat /\ Msg = 1..MaxFed BY LoopAssumption
<1>3. fed \in Nat BY DEF FeedInv
<1>4. QED BY <1>1, <1>2, <1>3

\* Every step leaves the ports alone, calls one operation of one of them or
\* gives the loopback port its flags anew.
LEMMA StepIsOperation ==
    ASSUME TypeOK, ConnectionClean, RunInv, FeedInv, LoopNext
    PROVE  \/ UNCHANGED portVars
           \/ Operation
           \/ DoRequestPort
<1>1. lb \in Port /\ peer \in Port BY Ends
<1>2. CASE NodeStep
  <2>1. CASE CommandWaits \/ CheckFlush \/ DoInit \/ DoPrepare \/ DoStart \/ DoPause
    BY <2>1, CheckFlushIdles DEF CommandWaits, DoInit, DoPrepare, DoStart, DoPause
  <2>2. ASSUME NEW c, NEW S, InvalidState(c, S) PROVE UNCHANGED portVars
    BY <2>2 DEF InvalidState
  <2>3. CASE DoStop BY <1>1, <2>3 DEF DoStop, PortReset, Operation
  <2>4. CASE DoFlush BY <1>1, <2>4 DEF DoFlush, Operation
  <2>5. CASE DoReset \/ DoReleasePort
    BY <1>1, <2>5 DEF DoReset, DoReleasePort, DeletePort, Operation
  <2>6. QED BY <1>2, <2>1, <2>2, <2>3, <2>4, <2>5 DEF NodeStep
<1>3. CASE PortStep
  <2>1. CASE ProcessQueue
    <3>1. Head(hand) \in Msg BY <2>1 DEF ProcessQueue, RunInv
    <3>2. QED BY <1>1, <2>1, <3>1 DEF ProcessQueue, Operation
  <2>2. CASE PortRun \/ NothingToProcess \/ ProcessWait \/ NothingToSend
    BY <2>2 DEF PortRun, NothingToProcess, ProcessWait, NothingToSend
  <2>3. CASE ProcessDequeue \/ RunSend
    BY <1>1, <2>3 DEF ProcessDequeue, RunSend, Operation
  <2>4. QED BY <1>3, <2>1, <2>2, <2>3 DEF PortStep
<1>4. CASE ClientStep
  BY <1>1, <1>4 DEF ClientStep, QueueCommand, ClientConnect, ClientDisconnect, Operation
<1>5. CASE PeerFeed
  <2>1. fed + 1 \in Msg BY <1>5, FedIsMsg DEF PeerFeed
  <2>2. QED BY <1>1, <1>5, <2>1 DEF PeerFeed, Operation
<1>6. CASE PeerSend \/ PeerTake BY <1>1, <1>6 DEF PeerSend, PeerTake, Operation
<1>7. QED BY <1>2, <1>3, <1>4, <1>5, <1>6 DEF LoopNext

LEMMA PortsStep ==
    ASSUME TypeOK, ConnectionClean, RunInv, FeedInv, [LoopNext]_loopVars
    PROVE  TypeOK' /\ ConnectionClean'
<1>1. CASE UNCHANGED portVars
  BY <1>1 DEF portVars, inVars, outVars, sizeVars, TypeOK, ConnectionClean
<1>2. CASE Operation BY <1>2, OperationType, OperationConnection
<1>3. CASE DoRequestPort
  <2>1. UNCHANGED <<conn, inQ, inBusy, outQ, outBusy, inCap, outCap, inPct, outPct, acts>>
    BY <1>3 DEF DoRequestPort, inVars, outVars, sizeVars
  <2>2. connBusy' \in [Port -> BOOLEAN] /\ suspended' \in [Port -> BOOLEAN]
    BY <1>3 DEF DoRequestPort, TypeOK
  <2>3. QED BY <2>1, <2>2 DEF TypeOK, ConnectionClean
<1>4. CASE UNCHANGED loopVars BY <1>1, <1>4 DEF loopVars
<1>5. QED BY <1>1, <1>2, <1>3, <1>4, StepIsOperation

\* What every command does to the Run of the node.
LEMMA CommandRuns ==
    ASSUME NEW c, ProcessCommand(c)
    PROVE  /\ pc = "idle" /\ pc' = "flush" /\ hand' = hand /\ cur = <<>>
           /\ cmds # <<>> /\ Head(cmds) = c /\ cmds' = Tail(cmds) /\ fed' = fed
BY DEF ProcessCommand, envVars

LEMMA RunStep ==
    ASSUME TypeOK, RunInv, [LoopNext]_loopVars PROVE RunInv'
<1> USE DEF RunInv
<1>1. CASE UNCHANGED loopVars BY <1>1 DEF loopVars, nodeVars
<1>2. ASSUME UNCHANGED <<state, cur, pc, hand>> PROVE RunInv' BY <1>2
<1>3. CASE NodeStep
  <2>1. CASE CommandWaits
    <3>1. pc = "idle" /\ pc' = "flush" /\ UNCHANGED <<state, cur, hand>>
      BY <2>1 DEF CommandWaits
    <3>2. QED BY <3>1
  <2>2. CASE CheckFlush
    <3>1. pc = "flush" /\ pc' = "idle" /\ UNCHANGED <<state, cur, hand>>
      BY <2>2, CheckFlushIdles
    <3>2. QED BY <3>1
  <2>3. ASSUME NEW c, ProcessCommand(c), cur' \in {cur, <<FLUSH>>},
               state' \in {"Idle", "Initialized", "Prepared", "Started", "Paused"}
        PROVE  RunInv'
    BY <2>3, CommandRuns
  <2>4. ASSUME NEW c, NEW S, InvalidState(c, S) PROVE RunInv'
    BY <2>3, <2>4 DEF InvalidState
  <2>5. CASE DoInit \/ DoPrepare \/ DoStart \/ DoStop \/ DoPause \/ DoReset
    BY <2>3, <2>5 DEF DoInit, DoPrepare, DoStart, DoStop, DoPause, DoReset
  <2>6. CASE DoFlush \/ DoRequestPort \/ DoReleasePort
    BY <2>3, <2>6 DEF DoFlush, DoRequestPort, DoReleasePort
  <2>7. QED BY <1>3, <2>1, <2>2, <2>4, <2>5, <2>6 DEF NodeStep
<1>4. CASE PortStep
  <2>1. CASE PortRun BY <2>1, NeverPending DEF PortRun, nodeVars
  <2>2. CASE ProcessDequeue
    <3>1. Head(inQ[lb]) \in Msg
      <4>1. lb \in Port BY LoopAssumption
      <4>2. inQ[lb] \in Seq(Msg) /\ inQ[lb] # <<>> BY <2>2, <4>1 DEF ProcessDequeue, TypeOK
      <4>3. QED BY <4>2, HeadTailProperties
    <3>2. QED BY <2>2, <3>1 DEF ProcessDequeue, nodeVars
  <2>3. CASE NothingToProcess \/ ProcessWait \/ ProcessQueue
    BY <2>3 DEF NothingToProcess, ProcessWait, ProcessQueue, nodeVars
  <2>4. CASE RunSend \/ NothingToSend BY <2>4 DEF RunSend, NothingToSend, nodeVars
  <2>5. QED BY <1>4, <2>1, <2>2, <2>3, <2>4 DEF PortStep
<1>5. CASE ClientStep \/ PeerFeed \/ PeerSend \/ PeerTake
  BY <1>2, <1>5 DEF ClientStep, QueueCommand, ClientConnect, ClientDisconnect,
     PeerFeed, PeerSend, PeerTake, nodeVars
<1>6. QED BY <1>1, <1>3, <1>4, <1>5 DEF LoopNext

-----------------------------------------------------------------------------
\* The calls of the Run of the port and those of the other node.
LEMMA QueueHand ==
    ASSUME RunInv, ProcessQueue
    PROVE  Head(hand) \in Msg /\ hand = <<Head(hand)>> /\ QueueOutgoingMsg(lb, Head(hand))
BY DEF RunInv, ProcessQueue

LEMMA ReportStep ==
    ASSUME TypeOK, ConnectionClean, RunInv, FeedInv,
           ProcessDequeue \/ ProcessQueue \/ RunSend \/ PeerFeed \/ PeerSend \/ PeerTake
    PROVE  /\ conn' = conn /\ suspended' = suspended /\ port' = port
           /\ state' = state /\ cmds' = cmds
           /\ waiting' => waiting
<1>1. \E w : HandlePortActivity(w)
  BY DEF ProcessDequeue, ProcessQueue, RunSend, PeerFeed, PeerSend, PeerTake
<1>2. port' = port /\ (waiting' => waiting) BY <1>1 DEF HandlePortActivity
<1>3. state' = state /\ cmds' = cmds
  BY DEF ProcessDequeue, ProcessQueue, RunSend, PeerFeed, PeerSend, PeerTake, nodeVars
<1>4. lb \in Port /\ peer \in Port /\ lb # peer BY Ends
<1>5. CASE ProcessDequeue \/ PeerTake
  BY <1>2, <1>3, <1>4, <1>5, TakeAt DEF ProcessDequeue, PeerTake
<1>6. CASE RunSend \/ PeerSend BY <1>2, <1>3, <1>4, <1>6, SendAt DEF RunSend, PeerSend
<1>7. CASE ProcessQueue BY <1>2, <1>3, <1>4, <1>7, QueueHand, QueueAt
<1>8. CASE PeerFeed
  <2>1. fed + 1 \in Msg /\ QueueOutgoingMsg(peer, fed + 1) BY <1>8, FedIsMsg DEF PeerFeed
  <2>2. QED BY <1>2, <1>3, <1>4, <2>1, QueueAt
<1>9. QED BY <1>5, <1>6, <1>7, <1>8

\* Disconnecting the loopback port leaves neither end connected.
LEMMA DisconnectBoth ==
    ASSUME TypeOK, ConnectionClean, Disconnect(lb)
    PROVE  /\ conn[lb] # NoPort
           /\ \A p \in Port : conn'[p] = NoPort /\ inQ'[p] = <<>> /\ outQ'[p] = <<>>
           /\ suspended' = suspended
<1>1. lb \in Port /\ peer \in Port /\ (\A p \in Port : p = lb \/ p = peer)
      /\ (conn[lb] # NoPort => conn[lb] = peer)
  BY Ends
<1>2. QED BY <1>1 DEF Disconnect

LEMMA DeleteBoth ==
    ASSUME TypeOK, ConnectionClean, DeletePort
    PROVE  /\ ~port' /\ ~waiting' /\ conn'[lb] = NoPort /\ suspended' = suspended
           /\ inQ'[lb] = <<>> /\ outQ'[lb] = <<>>
           /\ UNCHANGED <<inQ, outQ>> \/ \A p \in Port : inQ'[p] = <<>> /\ outQ'[p] = <<>>
<1>1. lb \in Port /\ (conn[lb] = NoPort => inQ[lb] = <<>> /\ outQ[lb] = <<>>) BY Ends
<1>2. ~port' /\ ~waiting' BY DEF DeletePort
<1>3. CASE conn[lb] # NoPort BY <1>1, <1>2, <1>3, DisconnectBoth DEF DeletePort
<1>4. CASE conn[lb] = NoPort
  BY <1>1, <1>2, <1>4 DEF DeletePort, portVars, inVars, outVars
<1>5. QED BY <1>3, <1>4

\* Clearing the loopback port empties its queues.
LEMMA ResetClears ==
    ASSUME TypeOK, PortReset
    PROVE  /\ conn' = conn /\ suspended' = suspended /\ port' = port /\ ~waiting'
           /\ inQ'[lb] = <<>> /\ outQ'[lb] = <<>>
           /\ \A p \in Port \ {lb} : inQ'[p] = inQ[p] /\ outQ'[p] = outQ[p]
<1>1. lb \in Port BY LoopAssumption
<1>2. QED BY <1>1 DEF PortReset, ClearMsgQueues, TypeOK

LEMMA PortStepInv ==
    ASSUME TypeOK, ConnectionClean, RunInv, FeedInv, PortInv, [LoopNext]_loopVars
    PROVE  PortInv'
<1> USE DEF PortInv
<1>1. ASSUME conn' = conn, port' = port, waiting' => waiting PROVE PortInv' BY <1>1
<1>2. CASE UNCHANGED loopVars BY <1>1, <1>2 DEF loopVars, portVars, ioVars
<1>3. CASE NodeStep
  <2>1. CASE CommandWaits \/ CheckFlush
    BY <1>1, <2>1, CheckFlushIdles DEF CommandWaits, portVars, ioVars
  <2>2. CASE DoInit \/ DoPrepare \/ DoStart \/ DoPause
    BY <1>1, <2>2 DEF DoInit, DoPrepare, DoStart, DoPause, portVars, ioVars
  <2>3. ASSUME NEW c, NEW S, InvalidState(c, S) PROVE PortInv'
    BY <1>1, <2>3 DEF InvalidState, portVars, ioVars
  <2>4. CASE DoStop BY <1>1, <2>4, ResetClears DEF DoStop, portVars, ioVars
  <2>5. CASE DoFlush BY <1>1, <2>5 DEF DoFlush, SetSuspended
  <2>6. CASE DoReset \/ DoReleasePort
    BY <1>1, <2>6, DeleteBoth DEF DoReset, DoReleasePort, portVars, ioVars
  <2>7. CASE DoRequestPort BY <2>7 DEF DoRequestPort
  <2>8. QED BY <1>3, <2>1, <2>2, <2>3, <2>4, <2>5, <2>6, <2>7 DEF NodeStep
<1>4. CASE PortRun \/ NothingToProcess \/ NothingToSend
  BY <1>1, <1>4 DEF PortRun, NothingToProcess, NothingToSend, portVars, ioVars
<1>5. CASE ProcessWait
  <2>1. conn[lb] # NoPort BY <1>5, Ends DEF ProcessWait
  <2>2. QED BY <1>5, <2>1 DEF ProcessWait
<1>6. CASE ProcessDequeue \/ ProcessQueue \/ RunSend \/ PeerFeed \/ PeerSend \/ PeerTake
  BY <1>1, <1>6, ReportStep
<1>7. CASE ClientStep
  <2>1. ASSUME NEW c, QueueCommand(c) PROVE PortInv'
    BY <1>1, <2>1 DEF QueueCommand, portVars, ioVars
  <2>2. CASE ClientConnect BY <2>2 DEF ClientConnect, ioVars
  <2>3. CASE ClientDisconnect
    BY <2>3, DisconnectBoth, Ends DEF ClientDisconnect, ioVars
  <2>4. QED BY <1>7, <2>1, <2>2, <2>3 DEF ClientStep
<1>8. QED BY <1>2, <1>3, <1>4, <1>5, <1>6, <1>7 DEF LoopNext, PortStep

\* Taking a command from the queue keeps what the others are.
LEMMA TakeCommand ==
    ASSUME RequestInv, cmds # <<>>, cmds' = Tail(cmds), use' = use
    PROVE  /\ port' = port => RequestInv'
           /\ ~port' => RequestInv'
           /\ Head(cmds) = REQUESTPORT => RequestInv'
           /\ Head(cmds) \in use.commands
<1>1. PICK S : cmds \in Seq(S) BY DEF RequestInv
<1>2. /\ Len(cmds) \in Nat /\ Len(cmds) > 0 /\ Head(cmds) = cmds[1]
      /\ cmds' \in Seq(S) /\ Len(cmds') = Len(cmds) - 1
      /\ \A i \in 1..Len(cmds') : cmds'[i] = cmds[i + 1]
  BY <1>1, HeadTailProperties, EmptySeq, LenProperties
<1>3. /\ 1 \in 1..Len(cmds)
      /\ \A i \in 1..Len(cmds') : i + 1 \in 1..Len(cmds) /\ i + 1 # 1
      /\ \A i, j \in 1..Len(cmds') : i + 1 = j + 1 => i = j
  BY <1>2
<1>4. \A i \in 1..Len(cmds') : cmds'[i] \in use.commands BY <1>2, <1>3 DEF RequestInv
<1>5. \A i, j \in 1..Len(cmds') :
        cmds'[i] = REQUESTPORT => ~port /\ (cmds'[j] = REQUESTPORT => i = j)
  BY <1>2, <1>3 DEF RequestInv
<1>6. Head(cmds) = REQUESTPORT => \A i \in 1..Len(cmds') : cmds'[i] # REQUESTPORT
  BY <1>2, <1>3 DEF RequestInv
<1>7. \E T : cmds' \in Seq(T) BY <1>2
<1>8. QED BY <1>2, <1>3, <1>4, <1>5, <1>6, <1>7 DEF RequestInv

LEMMA RequestStep ==
    ASSUME TypeOK, ConnectionClean, RunInv, FeedInv, RequestInv, [LoopNext]_loopVars
    PROVE  RequestInv'
<1>1. ASSUME UNCHANGED <<cmds, port, use>> PROVE RequestInv' BY <1>1 DEF RequestInv
<1>2. CASE UNCHANGED loopVars BY <1>1, <1>2 DEF loopVars, nodeVars, ioVars
<1>3. CASE LoopNext
  <2> use' = use BY <1>3 DEF LoopNext
  <2>1. CASE CommandWaits \/ CheckFlush
    BY <1>1, <2>1, CheckFlushIdles DEF CommandWaits, ioVars
  <2>2. ASSUME NEW c, ProcessCommand(c)
        PROVE  /\ port' = port => RequestInv'
               /\ ~port' => RequestInv'
               /\ c = REQUESTPORT => RequestInv'
    BY <2>2, TakeCommand, CommandRuns
  <2>3. CASE DoInit \/ DoPrepare \/ DoStart \/ DoPause \/ DoFlush
    BY <2>2, <2>3 DEF DoInit, DoPrepare, DoStart, DoPause, DoFlush, ioVars
  <2>4. ASSUME NEW c, NEW S, InvalidState(c, S) PROVE RequestInv'
    BY <2>2, <2>4 DEF InvalidState, ioVars
  <2>5. CASE DoStop BY <2>2, <2>5 DEF DoStop, PortReset, ioVars
  <2>6. CASE DoReset \/ DoReleasePort
    BY <2>2, <2>6 DEF DoReset, DoReleasePort, DeletePort, ioVars
  <2>7. CASE DoRequestPort BY <2>2, <2>7 DEF DoRequestPort
  <2>8. CASE PortRun \/ NothingToProcess \/ NothingToSend \/ ProcessWait
    BY <1>1, <2>8 DEF PortRun, NothingToProcess, NothingToSend, ProcessWait, nodeVars, ioVars
  <2>9. CASE ProcessDequeue \/ ProcessQueue \/ RunSend \/ PeerFeed \/ PeerSend \/ PeerTake
    BY <1>1, <2>9, ReportStep
  <2>10. CASE ClientConnect \/ ClientDisconnect
    BY <1>1, <2>10 DEF ClientConnect, ClientDisconnect, nodeVars, ioVars
  <2>11. ASSUME NEW c \in use.commands, QueueCommand(c) PROVE RequestInv'
    <3>1. PICK S : cmds \in Seq(S) BY DEF RequestInv
    <3>2. cmds \in Seq(S \cup {c}) BY <3>1, SeqMonotonic
    <3>3. cmds' = Append(cmds, c) /\ port' = port /\ Sensible(c)
      BY <2>11 DEF QueueCommand, ioVars
    <3>4. /\ cmds' \in Seq(S \cup {c}) /\ Len(cmds) \in Nat /\ Len(cmds') = Len(cmds) + 1
          /\ \A i \in 1..Len(cmds) : cmds'[i] = cmds[i]
          /\ cmds'[Len(cmds')] = c
      BY <3>2, <3>3, AppendProperties, LenProperties
    <3>5. \A i \in 1..Len(cmds') : i \in 1..Len(cmds) \/ i = Len(cmds') BY <3>4
    <3>6. c = REQUESTPORT => ~port /\ \A i \in 1..Len(cmds) : cmds[i] # REQUESTPORT
      <4>1. DOMAIN cmds = 1..Len(cmds) BY <3>1
      <4>2. QED BY <3>3, <4>1 DEF Sensible, Queued
    <3>7. \A i \in 1..Len(cmds') : cmds'[i] \in use.commands
      BY <3>4, <3>5 DEF RequestInv
    <3>8. \A i, j \in 1..Len(cmds') :
            cmds'[i] = REQUESTPORT => ~port /\ (cmds'[j] = REQUESTPORT => i = j)
      BY <3>4, <3>5, <3>6 DEF RequestInv
    <3>9. \E T : cmds' \in Seq(T) BY <3>4
    <3>10. QED BY <3>3, <3>7, <3>8, <3>9 DEF RequestInv
  <2>12. QED
    BY <1>3, <2>1, <2>3, <2>4, <2>5, <2>6, <2>7, <2>8, <2>9, <2>10, <2>11
    DEF LoopNext, NodeStep, PortStep, ClientStep
<1>4. QED BY <1>2, <1>3

-----------------------------------------------------------------------------
\* A step that reports to the port and leaves it asleep has found it asleep,
\* has not asked it to run and does not end its wait.
LEMMA NotWoken ==
    ASSUME NEW w, HandlePortActivity(w), ~portReady'
    PROVE  ~portReady /\ ~w /\ ~Wakeup /\ (waiting => waiting')
<1>1. ~portReady /\ ~w /\ ~Wakeup BY Zenon DEF HandlePortActivity
<1>2. waiting => <<lb, "out_ready">> \notin acts' BY <1>1 DEF Wakeup
<1>3. QED BY <1>1, <1>2 DEF HandlePortActivity

\* A message that arrives for a port that stays asleep joins others.
LEMMA NotFirst ==
    ASSUME TypeOK, NEW w, HandlePortActivity(w), ~portReady',
           \/ inQ'[lb] = inQ[lb]
           \/ <<lb, "incoming">> \in acts' /\ \E x \in Msg : inQ'[lb] = Append(inQ[lb], x),
           inQ[lb] = <<>> \/ waiting
    PROVE  inQ'[lb] = <<>> \/ waiting'
<1>1. ~Wakeup /\ (waiting => waiting') BY NotWoken
<1>2. CASE inQ'[lb] = inQ[lb] BY <1>1, <1>2
<1>3. ASSUME <<lb, "incoming">> \in acts', NEW x \in Msg, inQ'[lb] = Append(inQ[lb], x),
             inQ[lb] = <<>>
      PROVE  FALSE
  <2>1. Len(inQ'[lb]) = 1 BY <1>3
  <2>2. QED BY <1>1, <1>3, <2>1 DEF Wakeup
<1>4. QED BY <1>1, <1>2, <1>3

LEMMA WakeStep ==
    ASSUME TypeOK, ConnectionClean, RunInv, FeedInv, PortInv, RequestInv, WakeInv,
           [LoopNext]_loopVars
    PROVE  WakeInv'
<1>1. lb \in Port /\ peer \in Port /\ lb # peer BY Ends
<1>2. CASE UNCHANGED loopVars
  BY <1>2 DEF WakeInv, loopVars, portVars, inVars, outVars, nodeVars, ioVars
<1>3. ASSUME UNCHANGED <<state, port, portReady, waiting, inQ, outQ, connBusy>>,
             pc \in {"idle", "flush"}, pc' \in {"idle", "flush"}
      PROVE  WakeInv'
  BY <1>3 DEF WakeInv
<1>4. CASE CommandWaits
  BY <1>3, <1>4 DEF CommandWaits, portVars, inVars, outVars, ioVars
<1>5. CASE CheckFlush
  BY <1>3, <1>5, CheckFlushIdles DEF portVars, inVars, outVars, ioVars
<1>6. ASSUME NEW c, NEW S, InvalidState(c, S) PROVE WakeInv'
  BY <1>3, <1>6, CommandRuns DEF InvalidState, portVars, inVars, outVars, ioVars
<1>7. CASE DoInit \/ DoPrepare \/ DoStop \/ DoPause \/ DoReset
  <2>1. pc' = "flush" /\ state' # "Started"
    BY <1>7, CommandRuns DEF DoInit, DoPrepare, DoStop, DoPause, DoReset
  <2>2. QED BY <2>1 DEF WakeInv
<1>8. CASE DoStart
  <2>1. pc' = "flush" /\ portReady' BY <1>8, CommandRuns DEF DoStart
  <2>2. QED BY <2>1 DEF WakeInv
<1>9. CASE DoFlush
  <2>1. /\ pc = "idle" /\ pc' = "flush"
        /\ UNCHANGED <<state, port, waiting, inQ, outQ, connBusy>>
    BY <1>9, CommandRuns DEF DoFlush, SetSuspended, inVars, outVars
  <2>2. ~portReady' => ~portReady BY <1>9, Zenon DEF DoFlush
  <2>3. QED BY <2>1, <2>2 DEF WakeInv
<1>10. CASE DoRequestPort
  <2>1. /\ pc' = "flush" /\ cmds # <<>> /\ Head(cmds) = REQUESTPORT
        /\ UNCHANGED <<inQ, outQ>>
    BY <1>10, CommandRuns DEF DoRequestPort, inVars, outVars
  <2>2. PICK S : cmds \in Seq(S) BY DEF RequestInv
  <2>3. 1 \in 1..Len(cmds) /\ cmds[1] = REQUESTPORT
    BY <2>1, <2>2, HeadTailProperties, EmptySeq, LenProperties
  <2>4. ~port BY <2>3 DEF RequestInv
  <2>5. inQ[lb] = <<>> /\ outQ[lb] = <<>> BY <2>4, Ends DEF PortInv
  <2>6. QED BY <2>1, <2>5 DEF WakeInv
<1>11. CASE DoReleasePort
  <2>1. pc' = "flush" /\ ~port' BY <1>11, CommandRuns DEF DoReleasePort, DeletePort, ioVars
  <2>2. QED BY <2>1 DEF WakeInv
<1>12. CASE PortRun
  BY <1>12, NeverPending DEF WakeInv, PortRun, nodeVars
<1>13. CASE NothingToProcess
  BY <1>13 DEF WakeInv, NothingToProcess, portVars, inVars, ioVars
<1>14. CASE ProcessWait BY <1>14 DEF WakeInv, ProcessWait
<1>15. CASE ProcessDequeue BY <1>15 DEF WakeInv, ProcessDequeue
<1>16. CASE ProcessQueue
  <2>1. pc' = "send" /\ HandlePortActivity(inQ[lb] # <<>>) BY <1>16 DEF ProcessQueue
  <2>2. inQ'[lb] = inQ[lb] BY <1>1, <1>16, QueueHand, QueueAt
  <2>3. ~portReady' => inQ[lb] = <<>> BY <2>1, NotWoken
  <2>4. QED BY <2>1, <2>2, <2>3 DEF WakeInv
<1>17. CASE RunSend
  <2>1. /\ pc = "send" /\ pc' = "idle" /\ Send(lb)
        /\ HandlePortActivity(outQ'[lb] # <<>> /\ ~connBusy'[lb])
    BY <1>17 DEF RunSend
  <2>2. inQ'[lb] = inQ[lb] BY <1>1, <2>1, SendAt
  <2>3. ~portReady' => /\ ~portReady /\ (waiting => waiting')
                       /\ outQ'[lb] = <<>> \/ connBusy'[lb]
    BY <2>1, NotWoken
  <2>4. QED BY <2>1, <2>2, <2>3 DEF WakeInv
<1>18. CASE NothingToSend
  BY <1>18 DEF WakeInv, NothingToSend, portVars, inVars, outVars, ioVars
<1>19. CASE PeerFeed
  <2>1. /\ pc = "idle" /\ pc' = "idle" /\ HandlePortActivity(FALSE) /\ state' = state
        /\ fed + 1 \in Msg /\ QueueOutgoingMsg(peer, fed + 1)
    BY <1>19, FedIsMsg DEF PeerFeed, nodeVars
  <2>2. /\ outQ'[lb] = outQ[lb] /\ connBusy' = connBusy
        /\ \/ inQ'[lb] = inQ[lb]
           \/ <<lb, "incoming">> \in acts' /\ \E x \in Msg : inQ'[lb] = Append(inQ[lb], x)
    BY <1>1, <2>1, QueueAt
  <2>3. port' = port BY <2>1 DEF HandlePortActivity
  <2>4. ASSUME state = "Started", port, ~portReady'
        PROVE  (inQ'[lb] = <<>> \/ waiting') /\ (outQ'[lb] = <<>> \/ connBusy'[lb])
    BY <2>1, <2>2, <2>4, NotWoken, NotFirst DEF WakeInv
  <2>5. QED BY <2>1, <2>3, <2>4 DEF WakeInv
<1>20. CASE PeerSend
  <2>1. /\ pc = "idle" /\ pc' = "idle" /\ HandlePortActivity(FALSE) /\ state' = state
        /\ Send(peer)
    BY <1>20 DEF PeerSend, nodeVars
  <2>2. /\ outQ'[lb] = outQ[lb] /\ connBusy'[lb] = connBusy[lb]
        /\ \/ inQ'[lb] = inQ[lb]
           \/ <<lb, "incoming">> \in acts' /\ \E x \in Msg : inQ'[lb] = Append(inQ[lb], x)
    BY <1>1, <2>1, SendAt
  <2>3. port' = port BY <2>1 DEF HandlePortActivity
  <2>4. ASSUME state = "Started", port, ~portReady'
        PROVE  (inQ'[lb] = <<>> \/ waiting') /\ (outQ'[lb] = <<>> \/ connBusy'[lb])
    BY <2>1, <2>2, <2>4, NotWoken, NotFirst DEF WakeInv
  <2>5. QED BY <2>1, <2>3, <2>4 DEF WakeInv
<1>21. CASE PeerTake
  <2>1. /\ pc = "idle" /\ pc' = "idle" /\ HandlePortActivity(FALSE) /\ state' = state
        /\ DequeueIncomingMsg(peer)
    BY <1>21 DEF PeerTake, nodeVars
  <2>2. /\ outQ' = outQ /\ inQ'[lb] = inQ[lb]
        /\ connBusy[lb] => connBusy'[lb] \/ <<lb, "conn_ready">> \in acts'
    BY <1>1, <2>1, TakeAt
  <2>3. port' = port BY <2>1 DEF HandlePortActivity
  <2>4. ASSUME state = "Started", port, ~portReady'
        PROVE  (inQ'[lb] = <<>> \/ waiting') /\ (outQ'[lb] = <<>> \/ connBusy'[lb])
    <3>1. ~portReady /\ ~Wakeup /\ (waiting => waiting') BY <2>1, <2>4, NotWoken
    <3>2. outQ[lb] # <<>> => <<lb, "conn_ready">> \notin acts' BY <2>2, <3>1 DEF Wakeup
    <3>3. QED BY <2>1, <2>2, <2>4, <3>1, <3>2 DEF WakeInv
  <2>5. QED BY <2>1, <2>3, <2>4 DEF WakeInv
<1>22. ASSUME NEW c, QueueCommand(c) PROVE WakeInv'
  BY <1>3, <1>22 DEF QueueCommand, portVars, inVars, outVars, ioVars
<1>23. CASE ClientConnect
  BY <1>3, <1>23 DEF ClientConnect, Connect, inVars, outVars, nodeVars, ioVars
<1>24. CASE ClientDisconnect
  <2>1. pc' = "idle" /\ inQ'[lb] = <<>> /\ outQ'[lb] = <<>>
    BY <1>1, <1>24, DisconnectBoth DEF ClientDisconnect
  <2>2. QED BY <2>1 DEF WakeInv
<1>25. QED
  BY <1>2, <1>4, <1>5, <1>6, <1>7, <1>8, <1>9, <1>10, <1>11, <1>12, <1>13, <1>14,
     <1>15, <1>16, <1>17, <1>18, <1>19, <1>20, <1>21, <1>22, <1>23, <1>24
  DEF LoopNext, NodeStep, PortStep, ClientStep

-----------------------------------------------------------------------------
LEMMA FeedStep ==
    ASSUME TypeOK, ConnectionClean, RunInv, FeedInv, RequestInv, [LoopNext]_loopVars
    PROVE  FeedInv'
<1>1. lb \in Port /\ peer \in Port /\ lb # peer BY Ends
<1>2. ASSUME use' = use, fed' = fed, suspended' = suspended PROVE FeedInv'
  BY <1>2 DEF FeedInv, Undisturbed
<1>3. CASE UNCHANGED loopVars BY <1>2, <1>3 DEF loopVars, portVars, envVars
<1>4. CASE LoopNext
  <2> use' = use BY <1>4 DEF LoopNext
  <2>1. CASE CommandWaits \/ CheckFlush
    BY <1>2, <2>1, CheckFlushIdles DEF CommandWaits, portVars, envVars
  <2>2. CASE DoInit \/ DoPrepare \/ DoStart \/ DoPause
    BY <1>2, <2>2, CommandRuns DEF DoInit, DoPrepare, DoStart, DoPause, portVars
  <2>3. ASSUME NEW c, NEW S, InvalidState(c, S) PROVE FeedInv'
    BY <1>2, <2>3, CommandRuns DEF InvalidState, portVars
  <2>4. CASE DoStop
    BY <1>2, <2>4, CommandRuns, ResetClears DEF DoStop, portVars
  <2>5. CASE DoReset \/ DoReleasePort
    BY <1>2, <2>5, CommandRuns, DeleteBoth DEF DoReset, DoReleasePort, portVars
  <2>6. CASE DoRequestPort
    <3>1. fed' = fed /\ suspended' = [suspended EXCEPT ![lb] = FALSE]
      BY <2>6, CommandRuns DEF DoRequestPort
    <3>2. ~suspended'[lb] /\ suspended'[peer] = suspended[peer] BY <1>1, <3>1 DEF TypeOK
    <3>3. QED BY <3>1, <3>2 DEF FeedInv
  <2>7. CASE DoFlush
    <3>1. /\ fed' = fed /\ suspended' = [suspended EXCEPT ![lb] = TRUE]
          /\ cmds # <<>> /\ Head(cmds) = FLUSH /\ cmds' = Tail(cmds)
      BY <2>7, CommandRuns DEF DoFlush, SetSuspended
    <3>2. FLUSH \in use.commands BY <3>1, TakeCommand
    <3>3. ~Undisturbed' BY <3>2 DEF Undisturbed
    <3>4. suspended'[peer] = suspended[peer] BY <1>1, <3>1 DEF TypeOK
    <3>5. QED BY <3>1, <3>3, <3>4 DEF FeedInv
  <2>8. CASE PortRun \/ NothingToProcess \/ NothingToSend \/ ProcessWait
    BY <1>2, <2>8
    DEF PortRun, NothingToProcess, NothingToSend, ProcessWait, portVars, envVars
  <2>9. CASE ProcessDequeue \/ ProcessQueue \/ RunSend \/ PeerSend \/ PeerTake
    <3>1. fed' = fed
      BY <2>9 DEF ProcessDequeue, ProcessQueue, RunSend, PeerSend, PeerTake, envVars
    <3>2. QED BY <1>2, <2>9, <3>1, ReportStep
  <2>10. CASE PeerFeed
    <3>1. suspended' = suspended BY <2>10, ReportStep
    <3>2. fed < use.fed /\ fed' = fed + 1 BY <2>10 DEF PeerFeed
    <3>3. use.fed \in Nat
      <4>1. use.fed \in 0..MaxFed BY LoopAssumption DEF FeedInv
      <4>2. QED BY <4>1
    <3>4. fed' \in Nat /\ fed' <= use.fed BY <3>2, <3>3 DEF FeedInv
    <3>5. QED BY <3>1, <3>4 DEF FeedInv, Undisturbed
  <2>11. ASSUME NEW c, QueueCommand(c) PROVE FeedInv'
    BY <1>2, <2>11 DEF QueueCommand, portVars
  <2>12. CASE ClientConnect BY <1>2, <2>12 DEF ClientConnect, Connect, envVars
  <2>13. CASE ClientDisconnect BY <1>2, <2>13, DisconnectBoth DEF ClientDisconnect, envVars
  <2>14. QED
    BY <1>4, <2>1, <2>2, <2>3, <2>4, <2>5, <2>6, <2>7, <2>8, <2>9, <2>10, <2>11,
       <2>12, <2>13
    DEF LoopNext, NodeStep, PortStep, ClientStep
<1>5. QED BY <1>3, <1>4

\* A node that is not started, paused or flushing stays clean: its port moves
\* messages only while the node is started, and Stop throws away the rest.
LEMMA StoppedStep ==
    ASSUME TypeOK, ConnectionClean, RunInv, PortInv, FeedInv, StoppedIsClean,
           RunInv', [LoopNext]_loopVars
    PROVE  StoppedIsClean'
<1>1. lb \in Port /\ peer \in Port /\ lb # peer BY Ends
<1>2. ASSUME state' \in {"Idle", "Initialized", "Prepared"}
                 => state \in {"Idle", "Initialized", "Prepared"},
             outQ[lb] = <<>> => outQ'[lb] = <<>>,
             waiting' => waiting, hand = <<>> => hand' = <<>>
      PROVE  StoppedIsClean'
  BY <1>2 DEF StoppedIsClean
<1>3. ASSUME state' = "Started" PROVE StoppedIsClean' BY <1>3 DEF StoppedIsClean
<1>4. CASE UNCHANGED loopVars
  BY <1>2, <1>4 DEF loopVars, portVars, outVars, nodeVars, ioVars
<1>5. CASE CommandWaits \/ CheckFlush
  BY <1>2, <1>5, CheckFlushIdles DEF CommandWaits, portVars, outVars, ioVars
<1>6. CASE DoInit \/ DoPrepare
  BY <1>2, <1>6, CommandRuns DEF DoInit, DoPrepare, portVars, outVars, ioVars
<1>7. CASE DoStart BY <1>3, <1>7 DEF DoStart
<1>8. CASE DoPause BY <1>8 DEF DoPause, StoppedIsClean
<1>9. ASSUME NEW c, NEW S, InvalidState(c, S) PROVE StoppedIsClean'
  BY <1>2, <1>9, CommandRuns DEF InvalidState, portVars, outVars, ioVars
<1>10. CASE DoStop
  <2>1. hand' = <<>> BY <1>10, CommandRuns DEF DoStop, RunInv
  <2>2. CASE port BY <1>10, <2>1, <2>2, ResetClears DEF DoStop, StoppedIsClean
  <2>3. CASE ~port
    <3>1. outQ[lb] = <<>> /\ ~waiting BY <1>1, <2>3, Ends DEF PortInv
    <3>2. outQ' = outQ /\ waiting' = waiting
      BY <1>10, <2>3 DEF DoStop, portVars, outVars, ioVars
    <3>3. QED BY <2>1, <3>1, <3>2 DEF StoppedIsClean
  <2>4. QED BY <2>2, <2>3
<1>11. CASE DoFlush BY <1>2, <1>11, CommandRuns DEF DoFlush, SetSuspended, outVars
<1>12. CASE DoReset
  <2>1. hand' = hand /\ state \in {"Idle", "Initialized", "Prepared"}
    BY <1>12, CommandRuns DEF DoReset
  <2>2. CASE port BY <1>2, <1>12, <2>1, <2>2, DeleteBoth DEF DoReset
  <2>3. CASE ~port BY <1>2, <1>12, <2>1, <2>3 DEF DoReset, portVars, outVars, ioVars
  <2>4. QED BY <2>2, <2>3
<1>13. CASE DoReleasePort
  <2>1. hand' = hand /\ state' = state BY <1>13, CommandRuns DEF DoReleasePort
  <2>2. CASE port BY <1>2, <1>13, <2>1, <2>2, DeleteBoth DEF DoReleasePort
  <2>3. CASE ~port BY <1>2, <1>13, <2>1, <2>3 DEF DoReleasePort, portVars, outVars, ioVars
  <2>4. QED BY <2>2, <2>3
<1>14. CASE DoRequestPort BY <1>2, <1>14, CommandRuns DEF DoRequestPort, outVars
<1>15. CASE PortRun BY <1>2, <1>15 DEF PortRun, portVars, outVars, nodeVars
<1>16. CASE NothingToProcess \/ ProcessWait \/ ProcessDequeue \/ ProcessQueue \/ RunSend
            \/ NothingToSend
  <2>1. state = "Started" /\ state' = state
    BY <1>16 DEF NothingToProcess, ProcessWait, ProcessDequeue, ProcessQueue, RunSend,
       NothingToSend, RunInv, nodeVars
  <2>2. QED BY <1>3, <2>1
<1>17. CASE PeerFeed
  <2>1. fed + 1 \in Msg /\ QueueOutgoingMsg(peer, fed + 1) /\ hand' = hand
    BY <1>17, FedIsMsg DEF PeerFeed
  <2>2. outQ'[lb] = outQ[lb] BY <1>1, <2>1, QueueAt
  <2>3. QED BY <1>2, <1>17, <2>1, <2>2, ReportStep
<1>18. CASE PeerSend
  <2>1. outQ'[lb] = outQ[lb] /\ hand' = hand BY <1>1, <1>18, SendAt DEF PeerSend
  <2>2. QED BY <1>2, <1>18, <2>1, ReportStep
<1>19. CASE PeerTake
  <2>1. outQ'[lb] = outQ[lb] /\ hand' = hand BY <1>1, <1>19, TakeAt DEF PeerTake
  <2>2. QED BY <1>2, <1>19, <2>1, ReportStep
<1>20. ASSUME NEW c, QueueCommand(c) PROVE StoppedIsClean'
  BY <1>2, <1>20 DEF QueueCommand, portVars, outVars, ioVars
<1>21. CASE ClientConnect
  BY <1>2, <1>21 DEF ClientConnect, Connect, outVars, nodeVars, ioVars
<1>22. CASE ClientDisconnect
  BY <1>1, <1>2, <1>22, DisconnectBoth DEF ClientDisconnect, nodeVars, ioVars
<1>23. QED
  BY <1>4, <1>5, <1>6, <1>7, <1>8, <1>9, <1>10, <1>11, <1>12, <1>13, <1>14, <1>15,
     <1>16, <1>17, <1>18, <1>19, <1>20, <1>21, <1>22
  DEF LoopNext, NodeStep, PortStep, ClientStep

-----------------------------------------------------------------------------
LEMMA LoopInvariant == LoopSpec => []Inv
<1>1. LoopInit => Inv
  <2> SUFFICES ASSUME LoopInit PROVE Inv
    OBVIOUS
  <2>1. TypeOK /\ ConnectionClean
    <3>1. <<>> \in Seq(Msg) OBVIOUS
    <3>2. QED BY <3>1, PortAssumption DEF LoopInit, Init, TypeOK, ConnectionClean
  <2>2. lb \in Port /\ peer \in Port BY LoopAssumption
  <2>3. RunInv /\ PortInv /\ WakeInv /\ StoppedIsClean
    BY <2>2 DEF LoopInit, Init, RunInv, PortInv, WakeInv, StoppedIsClean
  <2>4. RequestInv
    <3>1. cmds \in Seq({}) /\ Len(cmds) = 0 BY DEF LoopInit
    <3>2. QED BY <3>1 DEF RequestInv
  <2>5. FeedInv
    <3>1. use.fed \in 0..MaxFed BY LoopAssumption DEF LoopInit
    <3>2. QED BY <2>2, <3>1 DEF LoopInit, Init, FeedInv
  <2>6. QED BY <2>1, <2>3, <2>4, <2>5 DEF Inv
<1>2. Inv /\ [LoopNext]_loopVars => Inv'
  BY PortsStep, RunStep, PortStepInv, RequestStep, WakeStep, FeedStep, StoppedStep DEF Inv
<1>3. QED BY <1>1, <1>2, PTL DEF LoopSpec

\* The port of a started node never sleeps on a message that it could move or
\* send: HandlePortActivity and the Runs of the port and the node wake it up
\* for every first message, every end of a wait and every start.
THEOREM WakeupCorrect == LoopSpec => []NoLostWakeup
<1>1. Inv => NoLostWakeup BY DEF Inv, WakeInv, NoLostWakeup
<1>2. QED BY <1>1, LoopInvariant, PTL

\* Whatever the client does, a node that was stopped, reset or not yet
\* started has nothing left to send and waits for nothing.
THEOREM StoppedCorrect == LoopSpec => []StoppedIsClean
<1>1. Inv => StoppedIsClean BY DEF Inv
<1>2. QED BY <1>1, LoopInvariant, PTL

-----------------------------------------------------------------------------
(***************************************************************************)
(* What is fed comes back once and in order.                               *)
(***************************************************************************)

LEMMA UnderwayTypes ==
    ASSUME TypeOK, ConnectionClean, RunInv
    PROVE  /\ inQ[peer] \in Seq(Msg) /\ outQ[lb] \in Seq(Msg) /\ hand \in Seq(Msg)
           /\ inQ[lb] \in Seq(Msg) /\ outQ[peer] \in Seq(Msg)
<1>1. lb \in Port /\ peer \in Port BY Ends
<1>2. hand \in Seq(Msg)
  <2>1. CASE hand = <<>> BY <2>1, EmptySeq
  <2>2. CASE hand # <<>>
    <3>1. PICK m \in Msg : hand = <<m>> BY <2>2 DEF RunInv
    <3>2. QED BY <3>1
  <2>3. QED BY <2>1, <2>2
<1>3. QED BY <1>1, <1>2 DEF TypeOK

LEMMA TailFirst ==
    ASSUME NEW q \in Seq(Msg), NEW r \in Seq(Msg), q # <<>>
    PROVE  /\ q \o r \in Seq(Msg) /\ q \o r # <<>>
           /\ Tail(q \o r) = Tail(q) \o r
<1>1. q \o r \in Seq(Msg) BY ConcatProperties
<1>2. QED BY <1>1, GetFirst DEF Gets

LEMMA Regroup ==
    ASSUME NEW x \in Seq(Msg), NEW y \in Seq(Msg), NEW z \in Seq(Msg)
    PROVE  x \o y \o z = x \o (y \o z) /\ y \o z \in Seq(Msg) /\ x \o y \in Seq(Msg)
BY ConcatAssociative, ConcatProperties

\* Taking the first message from the first queue takes it from all.
LEMMA UnderwayTail ==
    ASSUME TypeOK, ConnectionClean, RunInv, inQ[peer] # <<>>
    PROVE  /\ underway # <<>>
           /\ Tail(underway) = Tail(inQ[peer]) \o outQ[lb] \o hand \o inQ[lb] \o outQ[peer]
<1> DEFINE x == inQ[peer] \o outQ[lb]
<1> DEFINE y == x \o hand
<1> DEFINE z == y \o inQ[lb]
<1>1. /\ inQ[peer] \in Seq(Msg) /\ outQ[lb] \in Seq(Msg) /\ hand \in Seq(Msg)
      /\ inQ[lb] \in Seq(Msg) /\ outQ[peer] \in Seq(Msg)
  BY UnderwayTypes
<1>2. x \in Seq(Msg) /\ x # <<>> /\ Tail(x) = Tail(inQ[peer]) \o outQ[lb]
  BY <1>1, TailFirst
<1> HIDE DEF x
<1>3. y \in Seq(Msg) /\ y # <<>> /\ Tail(y) = Tail(x) \o hand BY <1>1, <1>2, TailFirst
<1> HIDE DEF y
<1>4. z \in Seq(Msg) /\ z # <<>> /\ Tail(z) = Tail(y) \o inQ[lb] BY <1>1, <1>3, TailFirst
<1> HIDE DEF z
<1>5. z \o outQ[peer] # <<>> /\ Tail(z \o outQ[peer]) = Tail(z) \o outQ[peer]
  BY <1>1, <1>4, TailFirst
<1>6. Tail(z) = Tail(inQ[peer]) \o outQ[lb] \o hand \o inQ[lb] BY <1>2, <1>3, <1>4
<1>7. underway = z \o outQ[peer] BY DEF underway, x, y, z
<1>8. QED BY <1>5, <1>6, <1>7

\* Emptying the whole way, or what is in the middle of it, is a Discard.
LEMMA DropAll ==
    ASSUME NEW s \in Seq(Msg), s # <<>> PROVE Discards(s, <<>>)
<1>1. <<>> \in Seq(Msg) BY EmptySeq
<1>2. (<<>> \o s) \o <<>> = s /\ <<>> \o <<>> = <<>> BY <1>1, ConcatEmptySeq, ConcatProperties
<1>3. Discards((<<>> \o s) \o <<>>, <<>> \o <<>>) BY <1>1, DiscardMiddle
<1>4. QED BY <1>2, <1>3

LEMMA DropMiddle ==
    ASSUME NEW x \in Seq(Msg), NEW y \in Seq(Msg), NEW z \in Seq(Msg), NEW u \in Seq(Msg)
    PROVE  \/ x \o y \o z \o u = x \o u
           \/ Discards(x \o y \o z \o u, x \o u)
<1>1. /\ y \o z \in Seq(Msg) /\ x \o y \o z = x \o (y \o z)
  BY Regroup
<1>2. CASE y \o z = <<>> BY <1>1, <1>2, ConcatEmptySeq
<1>3. CASE y \o z # <<>> BY <1>1, <1>3, DiscardMiddle
<1>4. QED BY <1>2, <1>3

\* What becomes of the messages under way in a step.
EchoMove ==
    \/ underway' = underway
    \/ Puts(underway, underway') \/ Gets(underway, underway')
    \/ ~Undisturbed /\ Discards(underway, underway')

LEMMA EchoStep ==
    ASSUME Inv, [LoopNext]_loopVars, RunInv' PROVE EchoMove
<1> DEFINE A == inQ[peer]
<1> DEFINE B == outQ[lb]
<1> DEFINE C == inQ[lb]
<1> DEFINE D == outQ[peer]
<1>1. lb \in Port /\ peer \in Port /\ lb # peer BY Ends DEF Inv
<1>2. /\ A \in Seq(Msg) /\ B \in Seq(Msg) /\ hand \in Seq(Msg) /\ C \in Seq(Msg)
      /\ D \in Seq(Msg) /\ <<>> \in Seq(Msg)
  BY UnderwayTypes, EmptySeq DEF Inv
<1>3. /\ A \o B \in Seq(Msg) /\ A \o B \o hand \in Seq(Msg)
      /\ A \o B \o hand \o C \in Seq(Msg) /\ C \o D \in Seq(Msg)
      /\ underway = A \o B \o hand \o C \o D /\ underway \in Seq(Msg)
  BY <1>2, ConcatProperties DEF underway
<1>4. underway = (A \o B \o hand) \o (C \o D)
  <2> DEFINE x == A \o B \o hand
  <2>1. x \in Seq(Msg) BY <1>3
  <2>2. C \in Seq(Msg) /\ D \in Seq(Msg) BY <1>2
  <2> HIDE DEF x, C, D
  <2>3. x \o C \o D = x \o (C \o D) BY <2>1, <2>2, Regroup
  <2>4. QED BY <2>3 DEF x, C, D, underway
<1>5. \A s \in Seq(Msg) : s \o <<>> = s /\ <<>> \o s = s BY ConcatEmptySeq
<1>6. ASSUME UNCHANGED <<inQ, outQ, hand>> PROVE EchoMove
  BY <1>6 DEF EchoMove, underway
<1>7. CASE UNCHANGED loopVars BY <1>6, <1>7 DEF loopVars, portVars, inVars, outVars
<1>8. ASSUME NEW c, ProcessCommand(c)
      PROVE  /\ hand = <<>> /\ hand' = hand
             /\ c \in {RELEASEPORT, STOP, FLUSH, RESET} => ~Undisturbed
             /\ (\A p \in Port : inQ'[p] = <<>> /\ outQ'[p] = <<>>) /\ ~Undisturbed
                => EchoMove
  <2>1. hand = <<>> /\ hand' = hand BY <1>8, CommandRuns DEF Inv, RunInv
  <2>2. c \in use.commands
    <3>1. cmds # <<>> /\ Head(cmds) = c BY <1>8, CommandRuns
    <3>2. PICK S : cmds \in Seq(S) BY DEF Inv, RequestInv
    <3>3. 1 \in 1..Len(cmds) /\ cmds[1] = c
      BY <3>1, <3>2, HeadTailProperties, EmptySeq, LenProperties
    <3>4. QED BY <3>3 DEF Inv, RequestInv
  <2>3. ASSUME \A p \in Port : inQ'[p] = <<>> /\ outQ'[p] = <<>>, ~Undisturbed
        PROVE  EchoMove
    <3>1. underway' = <<>> BY <1>1, <1>2, <1>5, <2>1, <2>3 DEF underway
    <3>2. QED BY <1>3, <2>3, <3>1, DropAll DEF EchoMove
  <2>4. QED BY <2>1, <2>2, <2>3 DEF Undisturbed
<1>9. CASE NodeStep
  <2>1. CASE CommandWaits \/ CheckFlush
    BY <1>6, <2>1, CheckFlushIdles DEF Inv, CommandWaits, portVars, inVars, outVars
  <2>2. CASE DoInit \/ DoPrepare \/ DoStart \/ DoPause
    BY <1>6, <1>8, <2>2 DEF DoInit, DoPrepare, DoStart, DoPause, portVars, inVars, outVars
  <2>3. ASSUME NEW c, NEW S, InvalidState(c, S) PROVE EchoMove
    BY <1>6, <1>8, <2>3 DEF InvalidState, portVars, inVars, outVars
  <2>4. CASE DoFlush BY <1>6, <1>8, <2>4 DEF DoFlush, SetSuspended, inVars, outVars
  <2>5. CASE DoRequestPort BY <1>6, <1>8, <2>5 DEF DoRequestPort, inVars, outVars
  <2>6. CASE DoStop
    <3>1. hand = <<>> /\ hand' = <<>> /\ ~Undisturbed BY <1>8, <2>6 DEF DoStop
    <3>2. CASE ~port BY <1>6, <2>6, <3>1, <3>2 DEF DoStop, portVars, inVars, outVars
    <3>3. CASE port
      <4>1. /\ inQ'[lb] = <<>> /\ outQ'[lb] = <<>>
            /\ inQ'[peer] = A /\ outQ'[peer] = D
        BY <1>1, <2>6, <3>3, ResetClears DEF DoStop, Inv
      <4>2. underway' = A \o D BY <1>2, <1>5, <3>1, <4>1 DEF underway
      <4>3. underway = A \o B \o C \o D BY <1>3, <1>5, <3>1
      <4>4. QED BY <1>2, <3>1, <4>2, <4>3, DropMiddle DEF EchoMove
    <3>4. QED BY <3>2, <3>3
  <2>7. ASSUME NEW c \in {RESET, RELEASEPORT}, ProcessCommand(c),
               IF port THEN DeletePort ELSE UNCHANGED <<portVars, ioVars>>
        PROVE  EchoMove
    <3>1. hand = <<>> /\ hand' = hand /\ ~Undisturbed BY <1>8, <2>7
    <3>2. \/ UNCHANGED <<inQ, outQ>>
          \/ \A p \in Port : inQ'[p] = <<>> /\ outQ'[p] = <<>>
      BY <2>7, DeleteBoth DEF Inv, portVars, inVars, outVars
    <3>3. QED BY <1>6, <1>8, <2>7, <3>1, <3>2
  <2>8. CASE DoReset \/ DoReleasePort BY <2>7, <2>8 DEF DoReset, DoReleasePort
  <2>9. QED BY <1>9, <2>1, <2>2, <2>3, <2>4, <2>5, <2>6, <2>8 DEF NodeStep
<1>10. CASE PortRun \/ NothingToProcess \/ NothingToSend \/ ProcessWait
  BY <1>6, <1>10
  DEF PortRun, NothingToProcess, NothingToSend, ProcessWait, portVars, inVars, outVars
<1>11. CASE ProcessDequeue
  <2>1. hand = <<>> /\ hand' = <<Head(C)>> BY <1>11 DEF ProcessDequeue, Inv, RunInv
  <2>2. C # <<>> /\ inQ'[lb] = Tail(C) /\ inQ'[peer] = A /\ outQ' = outQ
    BY <1>1, <1>11, TakeAt DEF ProcessDequeue, Inv
  <2>3. Head(C) \in Msg /\ Tail(C) \in Seq(Msg) BY <1>2, <2>2, HeadTailProperties
  <2>4. (A \o B) \o <<Head(C)>> = Append(A \o B, Head(C)) BY <1>3, <2>3, AppendIsConcat
  <2>5. (A \o B \o <<Head(C)>>) \o Tail(C) = (A \o B) \o C
    <3> DEFINE x == A \o B
    <3>1. x \in Seq(Msg) BY <1>3
    <3>2. x \o <<Head(C)>> = Append(x, Head(C)) BY <2>4
    <3> HIDE DEF x
    <3>3. Append(x, Head(C)) \o Tail(C) = x \o C BY <1>2, <2>2, <3>1, MoveHead
    <3>4. QED BY <3>2, <3>3 DEF x
  <2>6. underway' = (A \o B) \o C \o D BY <2>1, <2>2, <2>5 DEF underway
  <2>7. underway = (A \o B) \o C \o D BY <1>3, <1>5, <2>1
  <2>8. QED BY <2>6, <2>7 DEF EchoMove
<1>12. CASE ProcessQueue
  <2>1. /\ Head(hand) \in Msg /\ hand = <<Head(hand)>>
        /\ QueueOutgoingMsg(lb, Head(hand)) /\ hand' = <<>>
    BY <1>12, QueueHand DEF ProcessQueue, Inv
  <2>2. /\ inQ'[lb] = C /\ outQ'[peer] = D
        /\ inQ'[peer] \o outQ'[lb] = Append(A \o B, Head(hand))
    BY <1>1, <2>1, QueueAt DEF Inv
  <2>3. Append(A \o B, Head(hand)) = A \o B \o hand
    BY <1>3, <2>1, AppendIsConcat
  <2>4. underway' = A \o B \o hand \o C \o D BY <1>3, <1>5, <2>1, <2>2, <2>3 DEF underway
  <2>5. QED BY <1>3, <2>4 DEF EchoMove
<1>13. CASE RunSend
  <2>1. /\ hand' = hand /\ inQ'[lb] = C /\ outQ'[peer] = D
        /\ inQ'[peer] \o outQ'[lb] = A \o B
    BY <1>1, <1>13, SendAt DEF RunSend, Inv, FeedInv
  <2>2. QED BY <2>1 DEF EchoMove, underway
<1>14. CASE PeerFeed
  <2>1. fed + 1 \in Msg /\ QueueOutgoingMsg(peer, fed + 1) /\ hand' = hand
    BY <1>14, FedIsMsg DEF PeerFeed, Inv
  <2>2. /\ inQ'[peer] = A /\ outQ'[lb] = B
        /\ inQ'[lb] \o outQ'[peer] = Append(C \o D, fed + 1)
    BY <1>1, <2>1, QueueAt DEF Inv
  <2>3. inQ'[lb] \in Seq(Msg) /\ outQ'[peer] \in Seq(Msg)
    <3>1. TypeOK' BY PortsStep DEF Inv
    <3>2. QED BY <1>1, <3>1 DEF TypeOK
  <2>4. underway' = (A \o B \o hand) \o (inQ'[lb] \o outQ'[peer])
    <3> DEFINE x == A \o B \o hand
    <3>1. x \in Seq(Msg) BY <1>3
    <3>2. underway' = x \o inQ'[lb] \o outQ'[peer] BY <2>1, <2>2 DEF underway
    <3> HIDE DEF x
    <3>3. underway' = x \o (inQ'[lb] \o outQ'[peer])
      BY <2>3, <3>1, <3>2, Regroup
    <3>4. QED BY <3>3 DEF x
  <2>5. underway' = Append(underway, fed + 1)
    <3> DEFINE x == A \o B \o hand
    <3> DEFINE y == C \o D
    <3>1. x \in Seq(Msg) /\ y \in Seq(Msg) BY <1>3
    <3>2. underway = x \o y /\ underway' = x \o Append(y, fed + 1)
      BY <1>4, <2>2, <2>4
    <3> HIDE DEF x, y
    <3>3. x \o Append(y, fed + 1) = Append(x \o y, fed + 1) BY <2>1, <3>1, PutLast
    <3>4. QED BY <3>2, <3>3
  <2>6. QED BY <2>1, <2>5 DEF EchoMove, Puts
<1>15. CASE PeerSend
  <2>1. Send(peer) /\ hand' = hand BY <1>15 DEF PeerSend
  <2>2. inQ'[peer] = A /\ outQ'[lb] = B BY <1>1, <2>1, SendAt DEF Inv
  <2>3. \/ inQ'[lb] \o outQ'[peer] = C \o D
        \/ suspended[lb] /\ inQ'[lb] = C /\ D # <<>> /\ outQ'[peer] = Tail(D)
    BY <1>1, <2>1, SendAt DEF Inv
  <2>4. CASE inQ'[lb] \o outQ'[peer] = C \o D
    <3>1. inQ'[lb] \in Seq(Msg) /\ outQ'[peer] \in Seq(Msg)
      <4>1. TypeOK' BY PortsStep DEF Inv
      <4>2. QED BY <1>1, <4>1 DEF TypeOK
    <3>2. underway' = (A \o B \o hand) \o (inQ'[lb] \o outQ'[peer])
      <4> DEFINE x == A \o B \o hand
      <4>1. x \in Seq(Msg) BY <1>3
      <4>2. underway' = x \o inQ'[lb] \o outQ'[peer] BY <2>1, <2>2 DEF underway
      <4> HIDE DEF x
      <4>3. underway' = x \o (inQ'[lb] \o outQ'[peer])
        BY <3>1, <4>1, <4>2, Regroup
      <4>4. QED BY <4>3 DEF x
    <3>3. QED BY <1>4, <2>4, <3>2 DEF EchoMove
  <2>5. CASE suspended[lb] /\ inQ'[lb] = C /\ D # <<>> /\ outQ'[peer] = Tail(D)
    <3>1. underway' = (A \o B \o hand \o C) \o Tail(D)
      BY <2>1, <2>2, <2>5 DEF underway
    <3>2. Discards(underway, underway') BY <1>2, <1>3, <2>5, <3>1, DropHead
    <3>3. ~Undisturbed BY <2>5 DEF Inv, FeedInv
    <3>4. QED BY <3>2, <3>3 DEF EchoMove
  <2>6. QED BY <2>3, <2>4, <2>5
<1>16. CASE PeerTake
  <2>1. /\ hand' = hand /\ A # <<>> /\ inQ'[peer] = Tail(A) /\ inQ'[lb] = C /\ outQ' = outQ
    BY <1>1, <1>16, TakeAt DEF PeerTake, Inv
  <2>2. underway # <<>> /\ Tail(underway) = Tail(A) \o B \o hand \o C \o D
    BY <2>1, UnderwayTail DEF Inv
  <2>3. underway' = Tail(underway) BY <2>1, <2>2 DEF underway
  <2>4. QED BY <2>2, <2>3 DEF EchoMove, Gets
<1>17. CASE ClientStep
  <2>1. ASSUME NEW c, QueueCommand(c) PROVE EchoMove
    BY <1>6, <2>1 DEF QueueCommand, portVars, inVars, outVars
  <2>2. CASE ClientConnect BY <1>6, <2>2 DEF ClientConnect, Connect, inVars, outVars
  <2>3. CASE "disconnect" \in use.links /\ ClientDisconnect
    <3>1. hand' = <<>> /\ \A p \in Port : inQ'[p] = <<>> /\ outQ'[p] = <<>>
      BY <2>3, DisconnectBoth DEF ClientDisconnect, Inv, RunInv
    <3>2. underway' = <<>> BY <1>1, <1>2, <1>5, <3>1 DEF underway
    <3>3. ~Undisturbed BY <2>3 DEF Undisturbed
    <3>4. QED BY <1>3, <3>2, <3>3, DropAll DEF EchoMove
  <2>4. QED BY <1>17, <2>1, <2>2, <2>3 DEF ClientStep
<1>18. QED
  BY <1>7, <1>9, <1>10, <1>11, <1>12, <1>13, <1>14, <1>15, <1>16, <1>17
  DEF LoopNext, PortStep

\* The loopback node sends back what it is fed, each message once and in the
\* order in which they came, through its two queues, the message in hand and
\* the queues of the other port; without a Stop, Flush, Reset, ReleasePort or
\* Disconnect nothing is lost.
THEOREM EchoCorrect == LoopSpec => EchoInOrder
<1>1. LoopInit => Echo!Init
  <2> SUFFICES ASSUME LoopInit PROVE underway = <<>>
    BY DEF Echo!Init
  <2>1. lb \in Port /\ peer \in Port BY LoopAssumption
  <2>2. inQ[peer] = <<>> /\ outQ[lb] = <<>> /\ hand = <<>> /\ inQ[lb] = <<>> /\ outQ[peer] = <<>>
    BY <2>1 DEF LoopInit, Init
  <2>3. <<>> \o <<>> = <<>> OBVIOUS
  <2>4. QED BY <2>2, <2>3 DEF underway
<1>2. Inv /\ Inv' /\ [LoopNext]_loopVars
      => [Echo!Put \/ Echo!Get \/ (~Undisturbed /\ Echo!Discard)]_underway
  <2> SUFFICES ASSUME Inv, Inv', [LoopNext]_loopVars
               PROVE  [Echo!Put \/ Echo!Get \/ (~Undisturbed /\ Echo!Discard)]_underway
    OBVIOUS
  <2>1. EchoMove BY EchoStep DEF Inv
  <2>2. CASE underway' = underway BY <2>2
  <2>3. CASE Puts(underway, underway') BY <2>3 DEF Puts, Echo!Put
  <2>4. CASE Gets(underway, underway') BY <2>4 DEF Gets, Echo!Get
  <2>5. CASE ~Undisturbed /\ Discards(underway, underway')
    BY <2>5 DEF Discards, Echo!Discard
  <2>6. QED BY <2>1, <2>2, <2>3, <2>4, <2>5 DEF EchoMove
<1>3. QED BY <1>1, <1>2, LoopInvariant, PTL DEF LoopSpec, EchoInOrder

=============================================================================
