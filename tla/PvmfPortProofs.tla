--------------------------- MODULE PvmfPortProofs ---------------------------
(***************************************************************************)
(* Proofs about PvmfPort, for any number of ports, any messages and any    *)
(* sizes of the queues.                                                    *)
(***************************************************************************)
EXTENDS PvmfPort, TLAPS, SequenceTheorems

\* Appending keeps a queue a sequence of messages; its head is a message and
\* its tail a queue.
LEMMA QueueTypes ==
    ASSUME NEW q \in Seq(Msg), NEW m \in Msg
    PROVE  /\ Append(q, m) \in Seq(Msg) /\ Append(q, m) # <<>>
           /\ Len(Append(q, m)) = Len(q) + 1
           /\ Head(Append(q, m)) \in Msg
           /\ Tail(Append(q, m)) \in Seq(Msg)
           /\ Len(Tail(Append(q, m))) = Len(q)
           /\ q # <<>> => /\ Head(q) \in Msg /\ Tail(q) \in Seq(Msg)
                          /\ Len(Tail(q)) = Len(q) - 1 /\ Len(q) > 0
OBVIOUS

\* What a port reports is port activity.
LEMMA ReportTypes ==
    ASSUME TypeOK, NEW p \in Port, NEW b \in BOOLEAN
    PROVE  /\ OutReport(p, b) \subseteq Port \X Activities
           /\ InReport(p, b) \subseteq Port \X Activities
BY DEF OutReport, InReport, Activities, TypeOK

\* The busy flags that the evaluations leave are flags.
LEMMA EvaluateTypes ==
    ASSUME TypeOK, NEW p \in Port, NEW b \in BOOLEAN
    PROVE  /\ EvaluateOutgoingBusy(p, b) => outBusy' \in [Port -> BOOLEAN]
           /\ EvaluateIncomingBusy(p, b) =>
                 inBusy' \in [Port -> BOOLEAN] /\ connBusy' \in [Port -> BOOLEAN]
BY DEF EvaluateOutgoingBusy, EvaluateIncomingBusy, TypeOK

LEMMA ReadyTypes ==
    ASSUME NEW p, NEW len, NEW cap, NEW pct
    PROVE  InReady(p, len, cap, pct) \in BOOLEAN /\ OutReady(p, len, cap, pct) \in BOOLEAN
BY DEF InReady, OutReady

\* Receive keeps the type of the incoming queue.
LEMMA ReceiveTypes ==
    ASSUME TypeOK, NEW q \in Port, NEW m \in Msg, Receive(q, m)
    PROVE  inQ' \in [Port -> Seq(Msg)] /\ inBusy' \in [Port -> BOOLEAN]
<1>1. Append(inQ[q], m) \in Seq(Msg) BY QueueTypes DEF TypeOK
<1>2. QED BY <1>1 DEF Receive, TypeOK

-----------------------------------------------------------------------------
(***************************************************************************)
(* The operations of a port, whoever calls them and with whatever sizes.   *)
(***************************************************************************)
Operation ==
    \/ \E p \in Port, m \in Msg : QueueOutgoingMsg(p, m)
    \/ \E p \in Port : \/ Send(p) \/ DequeueIncomingMsg(p)
                       \/ Disconnect(p) \/ ClearMsgQueues(p)
    \/ \E p, q \in Port : Connect(p, q)
    \/ \E p \in Port, v \in BOOLEAN : SetSuspended(p, v)
    \/ \E p \in Port, c, t \in Nat : SetIncoming(p, c, t) \/ SetOutgoing(p, c, t)

\* Every step of the ports is an operation.
LEMMA NextIsOperation == ASSUME TypeOK, Next PROVE Operation
<1>1. /\ \A p \in Port : inCap[p] \in Nat /\ outCap[p] \in Nat
      /\ \A p \in Port : inPct[p] \in Nat /\ outPct[p] \in Nat
      /\ Capacities \subseteq Nat /\ Percents \subseteq Nat
  <2>1. \A i \in 0..100 : i \in Nat OBVIOUS
  <2>2. Capacities \subseteq Nat /\ Percents \subseteq Nat BY PortAssumption
  <2>3. QED BY <2>1, <2>2 DEF TypeOK
<1>2. CASE DataStep(Port) BY <1>2 DEF DataStep, Operation
<1>3. CASE ControlStep(PortOps) BY <1>1, <1>3 DEF ControlStep, Operation
<1>4. QED BY <1>2, <1>3 DEF Next

\* Every operation of a port keeps the types of the state.
LEMMA OperationType == ASSUME TypeOK, Operation PROVE TypeOK'
<1> USE PortAssumption
<1>1. ASSUME NEW p \in Port, NEW m \in Msg, QueueDirectly(p, m) PROVE TypeOK'
  <2>1. p \in Port /\ conn[p] \in Port BY <1>1 DEF QueueDirectly, TypeOK
  <2>2. /\ Head(Append(outQ[p], m)) \in Msg
        /\ Tail(Append(outQ[p], m)) \in Seq(Msg)
    BY <2>1, QueueTypes DEF TypeOK
  <2>3. inQ' \in [Port -> Seq(Msg)] /\ inBusy' \in [Port -> BOOLEAN]
    BY <1>1, <2>1, <2>2, ReceiveTypes DEF QueueDirectly
  <2>4. outQ' \in [Port -> Seq(Msg)] BY <1>1, <2>1, <2>2 DEF QueueDirectly, TypeOK
  <2>5. acts' \subseteq Port \X Activities BY <1>1, <2>1 DEF QueueDirectly, Activities
  <2>6. QED BY <1>1, <2>3, <2>4, <2>5 DEF QueueDirectly, TypeOK, sizeVars
<1>2. ASSUME NEW p \in Port, NEW m \in Msg, QueueRefused(p, m) PROVE TypeOK'
  <2>1. p \in Port OBVIOUS
  <2>2. Append(outQ[p], m) \in Seq(Msg) BY <2>1, QueueTypes DEF TypeOK
  <2>3. outQ' \in [Port -> Seq(Msg)] BY <1>2, <2>1, <2>2 DEF QueueRefused, TypeOK
  <2>4. QueueFull(Len(outQ[p]) + 1, outCap[p], outPct[p], FALSE) \in BOOLEAN BY DEF QueueFull
  <2>5. outBusy' \in [Port -> BOOLEAN] BY <1>2, <2>1, <2>4 DEF QueueRefused, TypeOK
  <2>6. acts' \subseteq Port \X Activities
    <3>1. /\ <<p, "outgoing">> \in Port \X Activities
          /\ <<p, "out_busy">> \in Port \X Activities
      BY <2>1 DEF Activities
    <3>2. acts' \subseteq {<<p, "outgoing">>, <<p, "out_busy">>}
      BY <1>2 DEF QueueRefused
    <3>3. QED BY <3>1, <3>2
  <2>7. QED BY <1>2, <2>3, <2>5, <2>6 DEF QueueRefused, TypeOK, inVars, sizeVars
<1>3. ASSUME NEW p \in Port, SendBusy(p) PROVE TypeOK'
  <2>1. acts' \subseteq Port \X Activities BY <1>3 DEF SendBusy, Activities
  <2>2. QED BY <1>3, <2>1 DEF SendBusy, TypeOK, inVars, outVars, sizeVars
<1>4. ASSUME NEW p \in Port, SendDone(p) PROVE TypeOK'
  <2>1. conn[p] \in Port /\ outQ[p] # <<>> BY <1>4 DEF SendDone, SendGuard, TypeOK
  <2>2. Head(outQ[p]) \in Msg /\ Tail(outQ[p]) \in Seq(Msg)
    BY <2>1, QueueTypes DEF TypeOK
  <2>3. inQ' \in [Port -> Seq(Msg)] /\ inBusy' \in [Port -> BOOLEAN]
    BY <1>4, <2>1, <2>2, ReceiveTypes DEF SendDone, TypeOK, inVars
  <2>4. outQ' \in [Port -> Seq(Msg)] BY <1>4, <2>2 DEF SendDone, TypeOK
  <2> DEFINE ready == OutReady(p, Len(outQ[p]) - 1, outCap[p], outPct[p])
  <2>5. outBusy' \in [Port -> BOOLEAN]
    BY <1>4, ReadyTypes, EvaluateTypes DEF SendDone
  <2>6. acts' \subseteq Port \X Activities
    <3>1. OutReport(p, ready) \subseteq Port \X Activities BY ReadyTypes, ReportTypes
    <3>2. {<<conn[p], "incoming">>} \subseteq Port \X Activities BY <2>1 DEF Activities
    <3>3. QED BY <1>4, <3>1, <3>2 DEF SendDone
  <2>7. QED BY <1>4, <2>3, <2>4, <2>5, <2>6 DEF SendDone, TypeOK, sizeVars
<1>5. ASSUME NEW p \in Port, DequeueIncomingMsg(p) PROVE TypeOK'
  <2>1. Tail(inQ[p]) \in Seq(Msg) BY <1>5, QueueTypes DEF DequeueIncomingMsg, TypeOK
  <2>2. inQ' \in [Port -> Seq(Msg)] BY <1>5, <2>1 DEF DequeueIncomingMsg, TypeOK
  <2>3. inBusy' \in [Port -> BOOLEAN] /\ connBusy' \in [Port -> BOOLEAN]
    BY <1>5, ReadyTypes, EvaluateTypes DEF DequeueIncomingMsg
  <2>4. acts' \subseteq Port \X Activities
    BY <1>5, ReadyTypes, ReportTypes DEF DequeueIncomingMsg
  <2>5. QED BY <1>5, <2>2, <2>3, <2>4 DEF DequeueIncomingMsg, TypeOK, outVars, sizeVars
<1>6. ASSUME NEW p \in Port, NEW q \in Port, Connect(p, q) PROVE TypeOK'
  <2>1. acts' \subseteq Port \X Activities BY <1>6 DEF Connect, Activities
  <2>2. conn' \in [Port -> Port \cup {NoPort}] BY <1>6 DEF Connect, TypeOK
  <2>3. QED BY <1>6, <2>1, <2>2 DEF Connect, TypeOK, inVars, outVars, sizeVars
<1>7. ASSUME NEW p \in Port, Disconnect(p) PROVE TypeOK'
  <2>1. conn[p] \in Port BY <1>7 DEF Disconnect, TypeOK
  <2>2. <<>> \in Seq(Msg) OBVIOUS
  <2>3. conn' \in [Port -> Port \cup {NoPort}] BY <1>7 DEF Disconnect, TypeOK
  <2>4. inQ' \in [Port -> Seq(Msg)] /\ outQ' \in [Port -> Seq(Msg)]
    BY <1>7, <2>2 DEF Disconnect, TypeOK
  <2>5. inBusy' \in [Port -> BOOLEAN] /\ outBusy' \in [Port -> BOOLEAN]
    BY <1>7 DEF Disconnect, TypeOK
  <2>6. acts' \subseteq Port \X Activities BY <1>7, <2>1 DEF Disconnect, Activities
  <2>7. QED BY <1>7, <2>3, <2>4, <2>5, <2>6 DEF Disconnect, TypeOK, sizeVars
<1>8. ASSUME NEW p \in Port, ClearMsgQueues(p) PROVE TypeOK'
  <2>1. <<>> \in Seq(Msg) OBVIOUS
  <2>2. inQ' \in [Port -> Seq(Msg)] /\ outQ' \in [Port -> Seq(Msg)]
    BY <1>8, <2>1 DEF ClearMsgQueues, TypeOK
  <2>3. /\ inBusy' \in [Port -> BOOLEAN] /\ outBusy' \in [Port -> BOOLEAN]
        /\ connBusy' \in [Port -> BOOLEAN]
    BY <1>8, ReadyTypes, EvaluateTypes DEF ClearMsgQueues
  <2>4. acts' \subseteq Port \X Activities
    BY <1>8, ReadyTypes, ReportTypes DEF ClearMsgQueues
  <2>5. QED BY <1>8, <2>2, <2>3, <2>4 DEF ClearMsgQueues, TypeOK, sizeVars
<1>9. ASSUME NEW p \in Port, NEW v \in BOOLEAN, SetSuspended(p, v) PROVE TypeOK'
  BY <1>9 DEF SetSuspended, TypeOK, inVars, outVars, sizeVars
<1>10. ASSUME NEW p \in Port, NEW c \in Nat, NEW t \in Nat, SetIncoming(p, c, t)
       PROVE  TypeOK'
  <2>1. inCap' \in [Port -> Nat] /\ inPct' \in [Port -> 0..100]
    BY <1>10 DEF SetIncoming, TypeOK
  <2>2. inBusy' \in [Port -> BOOLEAN] /\ connBusy' \in [Port -> BOOLEAN]
    BY <1>10, ReadyTypes, EvaluateTypes DEF SetIncoming
  <2>3. acts' \subseteq Port \X Activities
    BY <1>10, ReadyTypes, ReportTypes DEF SetIncoming
  <2>4. QED BY <1>10, <2>1, <2>2, <2>3 DEF SetIncoming, TypeOK, outVars
<1>11. ASSUME NEW p \in Port, NEW c \in Nat, NEW t \in Nat, SetOutgoing(p, c, t)
       PROVE  TypeOK'
  <2>1. outCap' \in [Port -> Nat] /\ outPct' \in [Port -> 0..100]
    BY <1>11 DEF SetOutgoing, TypeOK
  <2>2. outBusy' \in [Port -> BOOLEAN]
    BY <1>11, ReadyTypes, EvaluateTypes DEF SetOutgoing
  <2>3. acts' \subseteq Port \X Activities
    BY <1>11, ReadyTypes, ReportTypes DEF SetOutgoing
  <2>4. QED BY <1>11, <2>1, <2>2, <2>3 DEF SetOutgoing, TypeOK, inVars
<1>12. QED
  BY <1>1, <1>2, <1>3, <1>4, <1>5, <1>6, <1>7, <1>8, <1>9, <1>10, <1>11
  DEF Operation, QueueOutgoingMsg, Send

LEMMA TypeStep == ASSUME TypeOK, [Next]_portVars PROVE TypeOK'
<1>1. CASE UNCHANGED portVars
  BY <1>1 DEF portVars, inVars, outVars, sizeVars, TypeOK
<1>2. QED BY <1>1, NextIsOperation, OperationType

\* The state of the ports always has its types.
THEOREM PortTypeCorrect == Spec => []TypeOK
<1>1. Init => TypeOK
  <2>1. <<>> \in Seq(Msg) OBVIOUS
  <2>2. QED BY <2>1, PortAssumption DEF Init, TypeOK
<1>2. TypeOK /\ [Next]_portVars => TypeOK' BY TypeStep
<1>3. QED BY <1>1, <1>2, PTL DEF Spec

-----------------------------------------------------------------------------
\* Receive changes nothing of the other ports.
LEMMA ReceiveFrame ==
    ASSUME TypeOK, NEW q \in Port, NEW m, Receive(q, m)
    PROVE  \A r \in Port \ {q} : inQ'[r] = inQ[r] /\ inBusy'[r] = inBusy[r]
BY DEF Receive, TypeOK

\* No operation breaks a connection at one end only, or leaves messages or a
\* busy queue at a port that is not connected.
LEMMA OperationConnection ==
    ASSUME TypeOK, ConnectionClean, Operation PROVE ConnectionClean'
<1> USE PortAssumption
<1>1. ASSUME NEW p \in Port, NEW m \in Msg, QueueDirectly(p, m) PROVE ConnectionClean'
  <2>1. p \in Port /\ conn[p] \in Port /\ conn' = conn
    BY <1>1 DEF QueueDirectly, TypeOK
  <2>2. conn[conn[p]] # NoPort BY <2>1 DEF ConnectionClean
  <2>3. \A r \in Port \ {conn[p]} : inQ'[r] = inQ[r] /\ inBusy'[r] = inBusy[r]
    BY <1>1, <2>1, ReceiveFrame DEF QueueDirectly
  <2>4. \A r \in Port \ {p} : outQ'[r] = outQ[r] BY <1>1 DEF QueueDirectly, TypeOK
  <2>5. outBusy' = outBusy BY <1>1 DEF QueueDirectly
  <2>6. QED BY <1>1, <2>1, <2>2, <2>3, <2>4, <2>5 DEF ConnectionClean, QueueDirectly
<1>2. ASSUME NEW p \in Port, NEW m \in Msg, QueueRefused(p, m) PROVE ConnectionClean'
  <2>1. \A r \in Port \ {p} : outQ'[r] = outQ[r] /\ outBusy'[r] = outBusy[r]
    BY <1>2 DEF QueueRefused, TypeOK
  <2>2. QED BY <1>2, <2>1 DEF ConnectionClean, QueueRefused, inVars
<1>3. ASSUME NEW p \in Port, SendBusy(p) PROVE ConnectionClean'
  BY <1>3 DEF ConnectionClean, SendBusy, inVars, outVars
<1>4. ASSUME NEW p \in Port, SendDone(p) PROVE ConnectionClean'
  <2>1. conn[p] \in Port /\ conn' = conn BY <1>4 DEF SendDone, SendGuard, TypeOK
  <2>2. conn[conn[p]] # NoPort BY <2>1 DEF ConnectionClean
  <2>3. \A r \in Port \ {conn[p]} : inQ'[r] = inQ[r] /\ inBusy'[r] = inBusy[r]
    BY <1>4, <2>1, ReceiveFrame DEF SendDone, inVars
  <2>4. \A r \in Port \ {p} : outQ'[r] = outQ[r] /\ outBusy'[r] = outBusy[r]
    BY <1>4 DEF SendDone, EvaluateOutgoingBusy, TypeOK
  <2>5. QED BY <1>4, <2>1, <2>2, <2>3, <2>4 DEF ConnectionClean, SendDone, SendGuard
<1>5. ASSUME NEW p \in Port, DequeueIncomingMsg(p) PROVE ConnectionClean'
  <2>1. conn[p] # NoPort BY <1>5 DEF DequeueIncomingMsg, ConnectionClean
  <2>2. \A r \in Port \ {p} : inQ'[r] = inQ[r] /\ inBusy'[r] = inBusy[r]
    BY <1>5 DEF DequeueIncomingMsg, EvaluateIncomingBusy, TypeOK
  <2>3. QED BY <1>5, <2>1, <2>2 DEF ConnectionClean, DequeueIncomingMsg, outVars
<1>6. ASSUME NEW p \in Port, NEW q \in Port, Connect(p, q) PROVE ConnectionClean'
  <2>1. /\ p # q /\ conn[p] = NoPort /\ conn[q] = NoPort
        /\ conn'[p] = q /\ conn'[q] = p
        /\ \A r \in Port \ {p, q} : conn'[r] = conn[r]
    BY <1>6 DEF Connect, TypeOK
  <2>2. UNCHANGED <<inQ, outQ, inBusy, outBusy>> BY <1>6 DEF Connect, inVars, outVars
  <2>3. ASSUME NEW r \in Port \ {p, q}, conn[r] # NoPort
        PROVE  conn'[r] # r /\ conn'[conn'[r]] = r
    <3>1. conn[r] \in Port /\ conn[r] # r /\ conn[conn[r]] = r
      BY <2>3 DEF ConnectionClean, TypeOK
    <3>2. conn[r] # p /\ conn[r] # q BY <2>1, <3>1
    <3>3. QED BY <2>1, <3>1, <3>2
  <2>4. QED BY <2>1, <2>2, <2>3 DEF ConnectionClean
<1>7. ASSUME NEW p \in Port, Disconnect(p) PROVE ConnectionClean'
  <2> DEFINE both == {p, conn[p]}
  <2>1. conn[p] \in Port /\ conn[conn[p]] = p
    BY <1>7 DEF Disconnect, TypeOK, ConnectionClean
  <2>2. ASSUME NEW r \in Port \ both
        PROVE  /\ conn'[r] = conn[r] /\ inQ'[r] = inQ[r] /\ outQ'[r] = outQ[r]
               /\ inBusy'[r] = inBusy[r] /\ outBusy'[r] = outBusy[r]
               /\ conn[r] # NoPort => conn[r] \in Port \ both
    <3>1. conn[r] # NoPort => conn[conn[r]] = r /\ conn[r] \in Port
      BY DEF ConnectionClean, TypeOK
    <3>2. conn[r] # NoPort => conn[r] \notin both BY <2>1, <3>1
    <3>3. inBusy[r] \in BOOLEAN /\ outBusy[r] \in BOOLEAN BY DEF TypeOK
    <3>4. QED BY <1>7, <3>1, <3>2, <3>3 DEF Disconnect
  <2>3. ASSUME NEW r \in both
        PROVE  /\ conn'[r] = NoPort /\ inQ'[r] = <<>> /\ outQ'[r] = <<>>
               /\ ~inBusy'[r] /\ ~outBusy'[r]
    BY <1>7, <2>1 DEF Disconnect
  <2>4. QED BY <2>2, <2>3 DEF ConnectionClean
<1>8. ASSUME NEW p \in Port, ClearMsgQueues(p) PROVE ConnectionClean'
  <2>1. \A r \in Port : /\ inBusy'[r] => inBusy[r]
                        /\ outBusy'[r] => outBusy[r]
                        /\ inQ[r] = <<>> => inQ'[r] = <<>>
                        /\ outQ[r] = <<>> => outQ'[r] = <<>>
    BY <1>8 DEF ClearMsgQueues, EvaluateIncomingBusy, EvaluateOutgoingBusy, TypeOK
  <2>2. QED BY <1>8, <2>1 DEF ClearMsgQueues, ConnectionClean
<1>9. ASSUME NEW p \in Port, NEW v \in BOOLEAN, SetSuspended(p, v) PROVE ConnectionClean'
  BY <1>9 DEF SetSuspended, ConnectionClean, inVars, outVars
<1>10. ASSUME NEW p \in Port, NEW c, NEW t, SetIncoming(p, c, t) PROVE ConnectionClean'
  <2>1. \A r \in Port : inBusy'[r] => inBusy[r]
    BY <1>10 DEF SetIncoming, EvaluateIncomingBusy, TypeOK
  <2>2. QED BY <1>10, <2>1 DEF SetIncoming, ConnectionClean, outVars
<1>11. ASSUME NEW p \in Port, NEW c, NEW t, SetOutgoing(p, c, t) PROVE ConnectionClean'
  <2>1. \A r \in Port : outBusy'[r] => outBusy[r]
    BY <1>11 DEF SetOutgoing, EvaluateOutgoingBusy, TypeOK
  <2>2. QED BY <1>11, <2>1 DEF SetOutgoing, ConnectionClean, inVars
<1>12. QED
  BY <1>1, <1>2, <1>3, <1>4, <1>5, <1>6, <1>7, <1>8, <1>9, <1>10, <1>11
  DEF Operation, QueueOutgoingMsg, Send

LEMMA ConnectionStep ==
    ASSUME TypeOK, ConnectionClean, [Next]_portVars PROVE ConnectionClean'
<1>1. CASE UNCHANGED portVars
  BY <1>1 DEF portVars, inVars, outVars, ConnectionClean
<1>2. QED BY <1>1, NextIsOperation, OperationConnection

\* Connections are symmetric, and nothing of an old one is left for the next:
\* Connect, Disconnect and every operation in between keep ConnectionClean.
THEOREM ConnectionCorrect == Spec => []ConnectionClean
<1>1. Init => ConnectionClean BY DEF Init, ConnectionClean
<1>2. TypeOK /\ ConnectionClean /\ [Next]_portVars => ConnectionClean' BY ConnectionStep
<1>3. QED BY <1>1, <1>2, PortTypeCorrect, PTL DEF Spec

-----------------------------------------------------------------------------
\* An evaluation that ends the busy state of an incoming queue also ends the
\* wait of the port connected to it, the only one that can wait for it.
LEMMA EvaluateKeepsWaiters ==
    ASSUME TypeOK, ConnectionClean, WaitsForBusyPort, conn' = conn,
           NEW p \in Port, NEW b \in BOOLEAN, EvaluateIncomingBusy(p, b)
    PROVE  WaitsForBusyPort'
<1> SUFFICES ASSUME NEW r \in Port, connBusy'[r]
             PROVE  conn[r] # NoPort /\ inBusy'[conn[r]]
  BY DEF WaitsForBusyPort
<1>1. connBusy[r] /\ ~(b /\ conn[p] = r) BY DEF EvaluateIncomingBusy
<1>2. conn[r] # NoPort /\ inBusy[conn[r]] BY <1>1 DEF WaitsForBusyPort
<1>3. conn[r] \in Port /\ conn[conn[r]] = r BY <1>2 DEF TypeOK, ConnectionClean
<1>4. CASE conn[r] = p BY <1>1, <1>2, <1>3, <1>4 DEF EvaluateIncomingBusy, TypeOK
<1>5. CASE conn[r] # p BY <1>2, <1>3, <1>5 DEF EvaluateIncomingBusy, TypeOK
<1>6. QED BY <1>2, <1>4, <1>5

\* While connections are not broken, no operation leaves a port waiting for a
\* connected port that is ready.
LEMMA WaitStep ==
    ASSUME NEW ops, "disconnect" \notin ops, TypeOK, ConnectionClean, WaitsForBusyPort,
           DataStep(Port) \/ ControlStep(ops) \/ UNCHANGED portVars
    PROVE  WaitsForBusyPort'
<1> USE PortAssumption
<1>1. ASSUME NEW p \in Port, NEW q \in Port, NEW m, conn[p] = q, ~connBusy[p],
             Receive(q, m), conn' = conn, connBusy' = connBusy
      PROVE  WaitsForBusyPort'
  <2> SUFFICES ASSUME NEW r \in Port, connBusy[r]
               PROVE  conn[r] # NoPort /\ inBusy'[conn[r]]
    BY <1>1 DEF WaitsForBusyPort
  <2>1. conn[r] # NoPort /\ inBusy[conn[r]] BY DEF WaitsForBusyPort
  <2>2. conn[r] \in Port /\ conn[conn[r]] = r BY <2>1 DEF TypeOK, ConnectionClean
  <2>3. conn[q] = p BY <1>1 DEF ConnectionClean
  <2>4. conn[r] # q BY <1>1, <2>2, <2>3
  <2>5. inBusy'[conn[r]] = inBusy[conn[r]] BY <1>1, <2>2, <2>4, ReceiveFrame
  <2>6. QED BY <2>1, <2>5
<1>2. ASSUME NEW p \in Port, NEW m \in Msg, QueueDirectly(p, m)
      PROVE  WaitsForBusyPort'
  <2>1. p \in Port /\ conn[p] \in Port /\ ~inBusy[conn[p]]
    BY <1>2 DEF QueueDirectly, Accepts, TypeOK
  <2>2. ~connBusy[p] BY <2>1 DEF WaitsForBusyPort
  <2>3. /\ Receive(conn[p], Head(Append(outQ[p], m)))
        /\ conn' = conn /\ connBusy' = connBusy
    BY <1>2 DEF QueueDirectly
  <2>4. QED BY <1>1, <2>1, <2>2, <2>3
<1>3. ASSUME NEW p \in Port, NEW m \in Msg, QueueRefused(p, m)
      PROVE  WaitsForBusyPort'
  BY <1>3 DEF QueueRefused, WaitsForBusyPort, inVars
<1>4. ASSUME NEW p \in Port, SendBusy(p) PROVE WaitsForBusyPort'
  <2>1. conn' = conn /\ inBusy' = inBusy BY <1>4 DEF SendBusy, inVars
  <2>2. \A r \in Port \ {p} : connBusy'[r] = connBusy[r] BY <1>4 DEF SendBusy, TypeOK
  <2>3. conn[p] # NoPort /\ inBusy[conn[p]] BY <1>4 DEF SendBusy, SendGuard
  <2>4. QED BY <2>1, <2>2, <2>3 DEF WaitsForBusyPort
<1>5. ASSUME NEW p \in Port, SendDone(p) PROVE WaitsForBusyPort'
  <2>1. /\ conn[p] \in Port /\ ~connBusy[p]
        /\ conn' = conn /\ connBusy' = connBusy
    BY <1>5 DEF SendDone, SendGuard, TypeOK
  <2>2. CASE suspended[conn[p]]
    BY <1>5, <2>1, <2>2 DEF SendDone, WaitsForBusyPort, inVars
  <2>3. CASE ~suspended[conn[p]]
    <3>1. Receive(conn[p], Head(outQ[p])) BY <1>5, <2>3 DEF SendDone
    <3>2. QED BY <1>1, <2>1, <3>1
  <2>4. QED BY <2>2, <2>3
<1>6. ASSUME NEW p \in Port, DequeueIncomingMsg(p) PROVE WaitsForBusyPort'
  BY <1>6, ReadyTypes, EvaluateKeepsWaiters DEF DequeueIncomingMsg
<1>7. ASSUME NEW p \in Port, NEW q \in Port, Connect(p, q) PROVE WaitsForBusyPort'
  <2>1. UNCHANGED <<inBusy, connBusy>> BY <1>7 DEF Connect, inVars
  <2>2. \A r \in Port : conn[r] # NoPort => conn'[r] = conn[r]
    BY <1>7 DEF Connect, TypeOK
  <2>3. QED BY <2>1, <2>2 DEF WaitsForBusyPort
<1>8. ASSUME NEW p \in Port, ClearMsgQueues(p) PROVE WaitsForBusyPort'
  BY <1>8, ReadyTypes, EvaluateKeepsWaiters DEF ClearMsgQueues
<1>9. ASSUME NEW p \in Port, NEW v \in BOOLEAN, SetSuspended(p, v)
      PROVE  WaitsForBusyPort'
  BY <1>9 DEF SetSuspended, WaitsForBusyPort, inVars
<1>10. ASSUME NEW p \in Port, NEW c, NEW t, SetIncoming(p, c, t)
       PROVE  WaitsForBusyPort'
  BY <1>10, ReadyTypes, EvaluateKeepsWaiters DEF SetIncoming
<1>11. ASSUME NEW p \in Port, NEW c, NEW t, SetOutgoing(p, c, t)
       PROVE  WaitsForBusyPort'
  BY <1>11 DEF SetOutgoing, WaitsForBusyPort, inVars
<1>12. CASE UNCHANGED portVars
  BY <1>12 DEF portVars, inVars, WaitsForBusyPort
<1>13. CASE DataStep(Port)
  BY <1>13, <1>2, <1>3, <1>4, <1>5, <1>6 DEF DataStep, QueueOutgoingMsg, Send
<1>14. CASE ControlStep(ops)
  BY <1>14, <1>7, <1>8, <1>9, <1>10, <1>11 DEF ControlStep
<1>15. QED BY <1>12, <1>13, <1>14

-----------------------------------------------------------------------------
(***************************************************************************)
(* A busy queue has a backlog, as long as no threshold is zero: what the   *)
(* assertions of isIncomingFull and isOutgoingFull ask of the users.       *)
(***************************************************************************)
PositiveThresholds ==
    \A c \in {InitCap} \cup Capacities, t \in {InitPct} \cup Percents : Threshold(c, t) # 0

\* The sizes in use are those of the construction or of a later call.
SizesGiven ==
    \A p \in Port :
        /\ inCap[p] \in {InitCap} \cup Capacities /\ outCap[p] \in {InitCap} \cup Capacities
        /\ inPct[p] \in {InitPct} \cup Percents /\ outPct[p] \in {InitPct} \cup Percents

\* A threshold of at most 100 per cent is at most the capacity.
LEMMA ThresholdBound ==
    ASSUME NEW cap \in Nat, NEW pct \in 0..100
    PROVE  Threshold(cap, pct) \in Nat /\ Threshold(cap, pct) <= cap
<1>1. cap * pct \in Nat /\ cap * pct <= cap * 100
  <2>1. cap * (100 - pct) \in Nat OBVIOUS
  <2>2. cap * pct \in Nat OBVIOUS
  <2>3. cap * (100 - pct) = cap * 100 - cap * pct OBVIOUS
  <2>4. QED BY <2>1, <2>2, <2>3
<1> DEFINE x == cap * pct
<1>2. x \in Nat /\ x <= cap * 100 BY <1>1
<1> HIDE DEF x
<1>3. x \div 100 \in Nat /\ x \div 100 <= cap BY <1>2
<1>4. QED BY <1>3 DEF Threshold, x

\* A queue that an evaluation leaves busy is at or above its threshold.
LEMMA FullBound ==
    ASSUME NEW cap \in Nat, NEW pct \in 0..100, NEW len \in Nat, NEW b \in BOOLEAN,
           Threshold(cap, pct) # 0, QueueFull(len, cap, pct, b)
    PROVE  len >= Threshold(cap, pct) /\ len > 0
<1>1. Threshold(cap, pct) \in Nat /\ Threshold(cap, pct) <= cap BY ThresholdBound
<1>2. len = cap \/ len >= Threshold(cap, pct) BY DEF QueueFull
<1>3. QED BY <1>1, <1>2


\* The calls that resize a queue give it one of the sizes they may give.
LEMMA SizesStep == ASSUME TypeOK, SizesGiven, [Next]_portVars PROVE SizesGiven'
<1>1. CASE UNCHANGED sizeVars BY <1>1 DEF SizesGiven, sizeVars
<1>2. ASSUME NEW p \in Port, NEW c \in {inCap[p]} \cup Capacities,
             NEW t \in {inPct[p]} \cup Percents, SetIncoming(p, c, t)
      PROVE  SizesGiven'
  BY <1>2 DEF SetIncoming, SizesGiven, TypeOK
<1>3. ASSUME NEW p \in Port, NEW c \in {outCap[p]} \cup Capacities,
             NEW t \in {outPct[p]} \cup Percents, SetOutgoing(p, c, t)
      PROVE  SizesGiven'
  BY <1>3 DEF SetOutgoing, SizesGiven, TypeOK
<1>4. CASE UNCHANGED portVars BY <1>1, <1>4 DEF portVars
<1>5. CASE DataStep(Port)
  BY <1>1, <1>5 DEF DataStep, QueueOutgoingMsg, QueueDirectly, QueueRefused, Send,
     SendBusy, SendDone, DequeueIncomingMsg
<1>6. CASE ControlStep(PortOps)
  BY <1>1, <1>2, <1>3, <1>6 DEF ControlStep, Connect, Disconnect, ClearMsgQueues, SetSuspended
<1>7. QED BY <1>4, <1>5, <1>6 DEF Next

\* What the evaluation after a removal or a change of size leaves busy is at
\* or above its threshold.
LEMMA InEvaluateBacklog ==
    ASSUME TypeOK, NEW p \in Port, NEW len \in Nat, NEW cap \in Nat, NEW pct \in 0..100,
           Threshold(cap, pct) # 0,
           EvaluateIncomingBusy(p, InReady(p, len, cap, pct)), inBusy'[p]
    PROVE  inBusy[p] /\ len >= Threshold(cap, pct) /\ len > 0
<1>1. inBusy[p] /\ ~InReady(p, len, cap, pct) BY DEF EvaluateIncomingBusy, TypeOK
<1>2. QueueFull(len, cap, pct, TRUE) BY <1>1 DEF InReady
<1>3. QED BY <1>1, <1>2, FullBound

LEMMA OutEvaluateBacklog ==
    ASSUME TypeOK, NEW p \in Port, NEW len \in Nat, NEW cap \in Nat, NEW pct \in 0..100,
           Threshold(cap, pct) # 0,
           EvaluateOutgoingBusy(p, OutReady(p, len, cap, pct)), outBusy'[p]
    PROVE  outBusy[p] /\ len >= Threshold(cap, pct) /\ len > 0
<1>1. outBusy[p] /\ ~OutReady(p, len, cap, pct) BY DEF EvaluateOutgoingBusy, TypeOK
<1>2. QueueFull(len, cap, pct, TRUE) BY <1>1 DEF OutReady
<1>3. QED BY <1>1, <1>2, FullBound

\* A message received makes the queue busy only at its capacity.
LEMMA ReceiveBacklog ==
    ASSUME TypeOK, BusyHasBacklog, NEW q \in Port, NEW m \in Msg, Receive(q, m)
    PROVE  /\ inBusy'[q] => inQ'[q] # <<>> /\ Len(inQ'[q]) >= Threshold(inCap[q], inPct[q])
           /\ \A r \in Port \ {q} : inQ'[r] = inQ[r] /\ inBusy'[r] = inBusy[r]
<1>1. inQ'[q] = Append(inQ[q], m) /\ inQ[q] \in Seq(Msg) BY DEF Receive, TypeOK
<1>2. inQ'[q] # <<>> /\ Len(inQ'[q]) = Len(inQ[q]) + 1 BY <1>1, QueueTypes
<1>3. inCap[q] \in Nat /\ inPct[q] \in 0..100 /\ Len(inQ[q]) \in Nat BY DEF TypeOK
<1>4. inBusy'[q] => Len(inQ[q]) + 1 >= inCap[q] BY DEF Receive, TypeOK
<1>5. Threshold(inCap[q], inPct[q]) \in Nat /\ Threshold(inCap[q], inPct[q]) <= inCap[q]
  BY <1>3, ThresholdBound
<1>6. inBusy'[q] => Len(inQ'[q]) >= Threshold(inCap[q], inPct[q]) BY <1>2, <1>3, <1>4, <1>5
<1>7. QED BY <1>2, <1>6, ReceiveFrame

LEMMA BacklogStep ==
    ASSUME PositiveThresholds, TypeOK, ConnectionClean, SizesGiven, BusyHasBacklog, [Next]_portVars
    PROVE  BusyHasBacklog'
<1> USE PortAssumption
<1>a. ASSUME NEW p \in Port
      PROVE  /\ Threshold(inCap[p], inPct[p]) # 0 /\ Threshold(outCap[p], outPct[p]) # 0
             /\ inCap[p] \in Nat /\ inPct[p] \in 0..100
             /\ outCap[p] \in Nat /\ outPct[p] \in 0..100
             /\ inQ[p] \in Seq(Msg) /\ outQ[p] \in Seq(Msg)
             /\ Len(inQ[p]) \in Nat /\ Len(outQ[p]) \in Nat
  <2>1. Threshold(inCap[p], inPct[p]) # 0 /\ Threshold(outCap[p], outPct[p]) # 0
    BY DEF PositiveThresholds, SizesGiven
  <2>2. /\ inCap[p] \in Nat /\ inPct[p] \in 0..100
        /\ outCap[p] \in Nat /\ outPct[p] \in 0..100
        /\ inQ[p] \in Seq(Msg) /\ outQ[p] \in Seq(Msg)
    BY DEF TypeOK
  <2>3. Len(inQ[p]) \in Nat /\ Len(outQ[p]) \in Nat BY <2>2
  <2>4. QED BY <2>1, <2>2, <2>3
<1>1. ASSUME NEW p \in Port, NEW m \in Msg, QueueDirectly(p, m) PROVE BusyHasBacklog'
  <2>1. p \in Port /\ conn[p] \in Port BY <1>1 DEF QueueDirectly, TypeOK
  <2>2. Head(Append(outQ[p], m)) \in Msg BY <2>1, QueueTypes DEF TypeOK
  <2>3. UNCHANGED <<outBusy, inCap, outCap, inPct, outPct>>
    BY <1>1 DEF QueueDirectly, sizeVars
  <2>4. /\ inBusy'[conn[p]] =>
             /\ inQ'[conn[p]] # <<>>
             /\ Len(inQ'[conn[p]]) >= Threshold(inCap[conn[p]], inPct[conn[p]])
        /\ \A r \in Port \ {conn[p]} : inQ'[r] = inQ[r] /\ inBusy'[r] = inBusy[r]
    BY <1>1, <2>1, <2>2, ReceiveBacklog DEF QueueDirectly
  <2>5. ~outBusy[p] /\ \A r \in Port \ {p} : outQ'[r] = outQ[r]
    BY <1>1 DEF QueueDirectly, TypeOK
  <2>6. QED BY <2>1, <2>3, <2>4, <2>5 DEF BusyHasBacklog
<1>2. ASSUME NEW p \in Port, NEW m \in Msg, QueueRefused(p, m) PROVE BusyHasBacklog'
  <2>1. p \in Port OBVIOUS
  <2>2. UNCHANGED <<inQ, inBusy, inCap, outCap, inPct, outPct>>
    BY <1>2 DEF QueueRefused, inVars, sizeVars
  <2>3. \A r \in Port \ {p} : outQ'[r] = outQ[r] /\ outBusy'[r] = outBusy[r]
    BY <1>2 DEF QueueRefused, TypeOK
  <2>4. outQ'[p] = Append(outQ[p], m) BY <1>2, <2>1 DEF QueueRefused, TypeOK
  <2>5. outQ'[p] # <<>> /\ Len(outQ'[p]) = Len(outQ[p]) + 1 BY <1>a, <2>1, <2>4, QueueTypes
  <2>6. outBusy'[p] => QueueFull(Len(outQ[p]) + 1, outCap[p], outPct[p], FALSE)
    BY <1>2, <2>1 DEF QueueRefused, TypeOK
  <2>7. outBusy'[p] => Len(outQ[p]) + 1 >= Threshold(outCap[p], outPct[p])
    <3>1. Len(outQ[p]) + 1 \in Nat BY <1>a, <2>1
    <3>2. QED BY <1>a, <2>1, <2>6, <3>1, FullBound
  <2>8. QED BY <2>1, <2>2, <2>3, <2>5, <2>7 DEF BusyHasBacklog
<1>3. ASSUME NEW p \in Port, SendBusy(p) PROVE BusyHasBacklog'
  BY <1>3 DEF BusyHasBacklog, SendBusy, inVars, outVars, sizeVars
<1>4. ASSUME NEW p \in Port, SendDone(p) PROVE BusyHasBacklog'
  <2>1. conn[p] \in Port /\ outQ[p] # <<>> BY <1>4 DEF SendDone, SendGuard, TypeOK
  <2>2. Head(outQ[p]) \in Msg /\ Len(Tail(outQ[p])) = Len(outQ[p]) - 1 /\ Len(outQ[p]) > 0
        /\ Tail(outQ[p]) \in Seq(Msg)
    BY <2>1, <1>a, QueueTypes
  <2>3. UNCHANGED <<inCap, outCap, inPct, outPct>> BY <1>4 DEF SendDone, sizeVars
  <2>4. /\ inBusy'[conn[p]] =>
             /\ inQ'[conn[p]] # <<>>
             /\ Len(inQ'[conn[p]]) >= Threshold(inCap[conn[p]], inPct[conn[p]])
        /\ \A r \in Port \ {conn[p]} : inQ'[r] = inQ[r] /\ inBusy'[r] = inBusy[r]
    <3>1. CASE suspended[conn[p]]
      BY <1>4, <2>1, <3>1 DEF SendDone, inVars, BusyHasBacklog
    <3>2. CASE ~suspended[conn[p]]
      <4>1. Receive(conn[p], Head(outQ[p])) BY <1>4, <3>2 DEF SendDone
      <4>2. QED BY <2>1, <2>2, <4>1, ReceiveBacklog
    <3>3. QED BY <3>1, <3>2
  <2>5. \A r \in Port \ {p} : outQ'[r] = outQ[r] /\ outBusy'[r] = outBusy[r]
    BY <1>4 DEF SendDone, EvaluateOutgoingBusy, TypeOK
  <2>6. outQ'[p] = Tail(outQ[p]) BY <1>4 DEF SendDone, TypeOK
  <2>7. outBusy'[p] => Len(outQ[p]) - 1 >= Threshold(outCap[p], outPct[p]) /\ Len(outQ[p]) - 1 > 0
    <3>1. EvaluateOutgoingBusy(p, OutReady(p, Len(outQ[p]) - 1, outCap[p], outPct[p]))
      BY <1>4 DEF SendDone
    <3>2. Len(outQ[p]) - 1 \in Nat BY <1>a, <2>2
    <3>3. QED BY <1>a, <3>1, <3>2, OutEvaluateBacklog
  <2>8. outBusy'[p] => outQ'[p] # <<>>
    <3>1. outBusy'[p] => Len(outQ'[p]) > 0 BY <2>2, <2>6, <2>7
    <3>2. QED BY <3>1
  <2>9. outBusy'[p] => Len(outQ'[p]) >= Threshold(outCap[p], outPct[p]) BY <2>2, <2>6, <2>7
  <2>10. QED BY <2>1, <2>3, <2>4, <2>5, <2>8, <2>9 DEF BusyHasBacklog
<1>5. ASSUME NEW p \in Port, DequeueIncomingMsg(p) PROVE BusyHasBacklog'
  <2>1. UNCHANGED <<outQ, outBusy, inCap, outCap, inPct, outPct>>
    BY <1>5 DEF DequeueIncomingMsg, outVars, sizeVars
  <2>2. /\ inQ'[p] = Tail(inQ[p]) /\ inQ[p] # <<>>
        /\ \A r \in Port \ {p} : inQ'[r] = inQ[r] /\ inBusy'[r] = inBusy[r]
    BY <1>5 DEF DequeueIncomingMsg, EvaluateIncomingBusy, TypeOK
  <2>3. Len(Tail(inQ[p])) = Len(inQ[p]) - 1 /\ Len(inQ[p]) > 0 BY <1>a, <2>2, QueueTypes
  <2>4. inBusy'[p] => Len(inQ[p]) - 1 >= Threshold(inCap[p], inPct[p]) /\ Len(inQ[p]) - 1 > 0
    <3>1. EvaluateIncomingBusy(p, InReady(p, Len(inQ[p]) - 1, inCap[p], inPct[p]))
      BY <1>5 DEF DequeueIncomingMsg
    <3>2. Len(inQ[p]) - 1 \in Nat BY <1>a, <2>3
    <3>3. QED BY <1>a, <3>1, <3>2, InEvaluateBacklog
  <2>5. inBusy'[p] => inQ'[p] # <<>>
    <3>1. inBusy'[p] => Len(inQ'[p]) > 0 BY <2>2, <2>3, <2>4
    <3>2. QED BY <3>1
  <2>6. QED BY <2>1, <2>2, <2>3, <2>4, <2>5 DEF BusyHasBacklog
<1>6. ASSUME NEW p \in Port, NEW q \in Port, Connect(p, q) PROVE BusyHasBacklog'
  BY <1>6 DEF Connect, BusyHasBacklog, inVars, outVars, sizeVars
<1>7. ASSUME NEW p \in Port, Disconnect(p) PROVE BusyHasBacklog'
  <2>1. \A r \in Port : /\ inBusy'[r] => inBusy[r] /\ inQ'[r] = inQ[r]
                        /\ outBusy'[r] => outBusy[r] /\ outQ'[r] = outQ[r]
    BY <1>7 DEF Disconnect
  <2>2. QED BY <1>7, <2>1 DEF Disconnect, BusyHasBacklog, sizeVars
<1>8. ASSUME NEW p \in Port, ClearMsgQueues(p) PROVE BusyHasBacklog'
  <2>1. UNCHANGED <<inCap, outCap, inPct, outPct>> BY <1>8 DEF ClearMsgQueues, sizeVars
  <2>2. \A r \in Port \ {p} : /\ inQ'[r] = inQ[r] /\ inBusy'[r] = inBusy[r]
                              /\ outQ'[r] = outQ[r] /\ outBusy'[r] = outBusy[r]
    BY <1>8 DEF ClearMsgQueues, EvaluateIncomingBusy, EvaluateOutgoingBusy, TypeOK
  <2>3. /\ EvaluateIncomingBusy(p, InReady(p, 0, inCap[p], inPct[p]))
        /\ EvaluateOutgoingBusy(p, OutReady(p, 0, outCap[p], outPct[p]))
    BY <1>8 DEF ClearMsgQueues
  <2>4. ~inBusy'[p]
    <3>1. inBusy'[p] => 0 > 0 BY <1>a, <2>3, InEvaluateBacklog
    <3>2. QED BY <3>1
  <2>5. ~outBusy'[p]
    <3>1. outBusy'[p] => 0 > 0 BY <1>a, <2>3, OutEvaluateBacklog, ZenonT(40)
    <3>2. QED BY <3>1
  <2>6. QED BY <2>1, <2>2, <2>4, <2>5 DEF BusyHasBacklog
<1>9. ASSUME NEW p \in Port, NEW v \in BOOLEAN, SetSuspended(p, v) PROVE BusyHasBacklog'
  BY <1>9 DEF SetSuspended, BusyHasBacklog, inVars, outVars, sizeVars
<1>10. ASSUME NEW p \in Port, NEW c \in {InitCap} \cup Capacities,
              NEW t \in {InitPct} \cup Percents, SetIncoming(p, c, t)
       PROVE  BusyHasBacklog'
  <2>1. UNCHANGED <<inQ, outQ, outBusy, outCap, outPct>> BY <1>10 DEF SetIncoming, outVars
  <2>2. \A r \in Port \ {p} :
           inBusy'[r] = inBusy[r] /\ inCap'[r] = inCap[r] /\ inPct'[r] = inPct[r]
    BY <1>10 DEF SetIncoming, EvaluateIncomingBusy, TypeOK
  <2>3. inCap'[p] = c /\ inPct'[p] = t BY <1>10 DEF SetIncoming, TypeOK
  <2>4. c \in Nat /\ t \in 0..100 /\ Threshold(c, t) # 0
    <3>1. c \in Nat /\ t \in Nat OBVIOUS
    <3>2. QED BY <1>10, <3>1 DEF SetIncoming, PositiveThresholds
  <2>5. inBusy'[p] => Len(inQ[p]) >= Threshold(c, t) /\ inBusy[p]
    <3>1. EvaluateIncomingBusy(p, InReady(p, Len(inQ[p]), c, t)) BY <1>10 DEF SetIncoming
    <3>2. QED BY <1>a, <2>4, <3>1, InEvaluateBacklog
  <2>6. QED BY <2>1, <2>2, <2>3, <2>5 DEF BusyHasBacklog
<1>11. ASSUME NEW p \in Port, NEW c \in {InitCap} \cup Capacities,
              NEW t \in {InitPct} \cup Percents, SetOutgoing(p, c, t)
       PROVE  BusyHasBacklog'
  <2>1. UNCHANGED <<inQ, outQ, inBusy, inCap, inPct>> BY <1>11 DEF SetOutgoing, inVars
  <2>2. \A r \in Port \ {p} :
           outBusy'[r] = outBusy[r] /\ outCap'[r] = outCap[r] /\ outPct'[r] = outPct[r]
    BY <1>11 DEF SetOutgoing, EvaluateOutgoingBusy, TypeOK
  <2>3. outCap'[p] = c /\ outPct'[p] = t BY <1>11 DEF SetOutgoing, TypeOK
  <2>4. c \in Nat /\ t \in 0..100 /\ Threshold(c, t) # 0
    <3>1. c \in Nat /\ t \in Nat OBVIOUS
    <3>2. QED BY <1>11, <3>1 DEF SetOutgoing, PositiveThresholds
  <2>5. outBusy'[p] => Len(outQ[p]) >= Threshold(c, t) /\ outBusy[p]
    <3>1. EvaluateOutgoingBusy(p, OutReady(p, Len(outQ[p]), c, t)) BY <1>11 DEF SetOutgoing
    <3>2. QED BY <1>a, <2>4, <3>1, OutEvaluateBacklog
  <2>6. QED BY <2>1, <2>2, <2>3, <2>5 DEF BusyHasBacklog
<1>12. CASE UNCHANGED portVars
  BY <1>12 DEF portVars, inVars, outVars, sizeVars, BusyHasBacklog
<1>13. CASE DataStep(Port)
  BY <1>13, <1>1, <1>2, <1>3, <1>4, <1>5 DEF DataStep, QueueOutgoingMsg, Send
<1>14. CASE ControlStep(PortOps)
  BY <1>14, <1>6, <1>7, <1>8, <1>9, <1>10, <1>11 DEF ControlStep, SizesGiven
<1>15. QED BY <1>12, <1>13, <1>14 DEF Next

\* With thresholds that are not zero, a busy queue holds at least a threshold
\* of messages, so that the removals to come make it ready: whatever is sent,
\* cleared, disconnected, suspended or resized in between.
THEOREM BacklogCorrect == PositiveThresholds /\ Spec => []BusyHasBacklog
<1> SUFFICES ASSUME PositiveThresholds PROVE Spec => []BusyHasBacklog
  OBVIOUS
<1>1. Init => SizesGiven /\ BusyHasBacklog BY DEF Init, SizesGiven, BusyHasBacklog
<1>2. TypeOK /\ ConnectionClean /\ (SizesGiven /\ BusyHasBacklog) /\ [Next]_portVars
      => (SizesGiven /\ BusyHasBacklog)'
  BY SizesStep, BacklogStep
<1>3. QED BY <1>1, <1>2, PortTypeCorrect, ConnectionCorrect, PTL DEF Spec

-----------------------------------------------------------------------------
\* What may become of the contents s of a channel.
Puts(s, t) == \E m \in Msg : t = Append(s, m)
Gets(s, t) == s # <<>> /\ t = Tail(s)
Discards(s, t) ==
    \E i \in 1..Len(s), j \in 1..Len(s) :
        i <= j /\ t = SubSeq(s, 1, i - 1) \o SubSeq(s, j + 1, Len(s))

-----------------------------------------------------------------------------
(***************************************************************************)
(* Lemmas about two queues in a row.                                       *)
(***************************************************************************)

LEMMA MoveHead ==
    ASSUME NEW q \in Seq(Msg), NEW r \in Seq(Msg), r # <<>>
    PROVE  Append(q, Head(r)) \o Tail(r) = q \o r
<1>1. Head(r) \in Msg /\ Tail(r) \in Seq(Msg) BY HeadTailProperties
<1>2. r = <<Head(r)>> \o Tail(r) OBVIOUS
<1>3. Append(q, Head(r)) = q \o <<Head(r)>> BY <1>1, AppendIsConcat
<1>4. <<Head(r)>> \in Seq(Msg) BY <1>1
<1>5. (q \o <<Head(r)>>) \o Tail(r) = q \o (<<Head(r)>> \o Tail(r))
  BY <1>1, <1>4, ConcatAssociative
<1>6. QED BY <1>2, <1>3, <1>5

LEMMA PutLast ==
    ASSUME NEW q \in Seq(Msg), NEW r \in Seq(Msg), NEW m \in Msg
    PROVE  q \o Append(r, m) = Append(q \o r, m)
<1>1. q \o r \in Seq(Msg) /\ <<m>> \in Seq(Msg) BY ConcatProperties
<1>2. Append(r, m) = r \o <<m>> /\ Append(q \o r, m) = (q \o r) \o <<m>>
  BY <1>1, AppendIsConcat
<1>3. QED BY <1>1, <1>2, ConcatAssociative

LEMMA GetFirst ==
    ASSUME NEW q \in Seq(Msg), NEW r \in Seq(Msg), q # <<>>
    PROVE  Gets(q \o r, Tail(q) \o r)
BY DEF Gets

\* Leaving out a part in the middle is a Discard.
LEMMA DiscardMiddle ==
    ASSUME NEW a \in Seq(Msg), NEW b \in Seq(Msg), NEW c \in Seq(Msg), b # <<>>
    PROVE  Discards((a \o b) \o c, a \o c)
<1> DEFINE s == (a \o b) \o c
<1> DEFINE la == Len(a)
<1> DEFINE lb == Len(b)
<1> DEFINE lc == Len(c)
<1>1. la \in Nat /\ lb \in Nat /\ lb > 0 /\ lc \in Nat BY EmptySeq, LenProperties
<1>2. /\ a \o b \in Seq(Msg) /\ Len(a \o b) = la + lb
      /\ \A i \in 1..(la + lb) : (a \o b)[i] = IF i <= la THEN a[i] ELSE b[i - la]
  BY ConcatProperties
<1>3. /\ s \in Seq(Msg) /\ Len(s) = la + lb + lc
      /\ \A i \in 1..(la + lb + lc) : s[i] = IF i <= la + lb THEN (a \o b)[i] ELSE c[i - (la + lb)]
  BY <1>2, ConcatProperties
<1>4. /\ \A i \in 1..la : s[i] = a[i]
      /\ \A i \in 1..lc : s[la + lb + i] = c[i]
  <2>1. \A i \in 1..la : i \in 1..(la + lb) /\ i \in 1..(la + lb + lc) /\ i <= la + lb BY <1>1
  <2>2. \A i \in 1..lc : /\ la + lb + i \in 1..(la + lb + lc) /\ ~(la + lb + i <= la + lb)
                         /\ (la + lb + i) - (la + lb) = i
    BY <1>1
  <2>3. QED BY <1>2, <1>3, <2>1, <2>2
<1> HIDE DEF s, la, lb, lc
<1>5. /\ SubSeq(s, 1, la) \in Seq(Msg) /\ Len(SubSeq(s, 1, la)) = la
      /\ \A i \in 1..la : SubSeq(s, 1, la)[i] = s[i]
  <2>1. \A i \in 1..la : s[i] \in Msg
    <3>1. \A i \in 1..la : i \in 1..Len(s) BY <1>1, <1>3
    <3>2. QED BY <1>3, <3>1, ElementOfSeq
  <2>2. /\ SubSeq(s, 1, la) \in Seq(Msg)
        /\ Len(SubSeq(s, 1, la)) = (IF 1 <= la THEN la - 1 + 1 ELSE 0)
        /\ \A i \in 1..(la - 1 + 1) : SubSeq(s, 1, la)[i] = s[1 + i - 1]
    BY <1>1, <2>1, SubSeqProperties
  <2>3. la - 1 + 1 = la /\ \A i \in 1..la : 1 + i - 1 = i BY <1>1
  <2>4. QED BY <1>1, <2>2, <2>3
<1>6. /\ SubSeq(s, la + lb + 1, la + lb + lc) \in Seq(Msg)
      /\ Len(SubSeq(s, la + lb + 1, la + lb + lc)) = lc
      /\ \A i \in 1..lc : SubSeq(s, la + lb + 1, la + lb + lc)[i] = s[la + lb + i]
  <2> DEFINE m == la + lb + 1
  <2> DEFINE n == la + lb + lc
  <2>1. m \in Int /\ n \in Int /\ n - m + 1 = lc /\ (m <= n <=> lc >= 1) BY <1>1
  <2>2. \A i \in m..n : s[i] \in Msg
    <3>1. \A i \in m..n : i \in 1..Len(s) BY <1>1, <1>3
    <3>2. QED BY <1>3, <3>1, ElementOfSeq
  <2>3. \A i \in 1..lc : m + i - 1 = la + lb + i BY <1>1
  <2> HIDE DEF m, n
  <2>4. /\ SubSeq(s, m, n) \in Seq(Msg)
        /\ Len(SubSeq(s, m, n)) = (IF m <= n THEN n - m + 1 ELSE 0)
        /\ \A i \in 1..(n - m + 1) : SubSeq(s, m, n)[i] = s[m + i - 1]
    BY <2>1, <2>2, SubSeqProperties
  <2>5. Len(SubSeq(s, m, n)) = lc BY <1>1, <2>1, <2>4
  <2>6. \A i \in 1..lc : SubSeq(s, m, n)[i] = s[la + lb + i] BY <2>1, <2>3, <2>4
  <2>7. QED BY <2>4, <2>5, <2>6 DEF m, n
<1>7. SubSeq(s, 1, la) = a BY <1>4, <1>5, SeqEqual DEF la
<1>8. SubSeq(s, la + lb + 1, la + lb + lc) = c BY <1>4, <1>6, SeqEqual DEF lc
<1>9. /\ la + 1 \in 1..Len(s) /\ la + lb \in 1..Len(s) /\ la + 1 <= la + lb
      /\ (la + 1) - 1 = la /\ (la + lb) + 1 = la + lb + 1
  BY <1>1, <1>3
<1>10. Discards(s, SubSeq(s, 1, la) \o SubSeq(s, la + lb + 1, la + lb + lc))
  BY <1>3, <1>9 DEF Discards
<1>11. QED BY <1>7, <1>8, <1>10 DEF s

LEMMA DropHead ==
    ASSUME NEW q \in Seq(Msg), NEW r \in Seq(Msg), r # <<>>
    PROVE  Discards(q \o r, q \o Tail(r))
<1>1. Head(r) \in Msg /\ Tail(r) \in Seq(Msg) BY HeadTailProperties
<1>2. r = <<Head(r)>> \o Tail(r) OBVIOUS
<1>3. <<Head(r)>> \in Seq(Msg) /\ <<Head(r)>> # <<>> BY <1>1
<1>4. (q \o <<Head(r)>>) \o Tail(r) = q \o (<<Head(r)>> \o Tail(r))
  BY <1>1, <1>3, ConcatAssociative
<1>5. Discards((q \o <<Head(r)>>) \o Tail(r), q \o Tail(r)) BY <1>1, <1>3, DiscardMiddle
<1>6. QED BY <1>2, <1>4, <1>5
=============================================================================
