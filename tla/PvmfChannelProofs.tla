-------------------------- MODULE PvmfChannelProofs --------------------------
(***************************************************************************)
(* Two connected ports implement the channels of MediaChannel, for any     *)
(* messages and any sizes of the queues.                                   *)
(***************************************************************************)
EXTENDS MCPvmfPort, PvmfPortProofs

\* The two ports of the connection are all there are.
TwoPorts == src # snk /\ Port = {src, snk}

-----------------------------------------------------------------------------
(***************************************************************************)
(* What the operations do to the messages under way.                       *)
(***************************************************************************)

LEMMA QueueTypesHere ==
    ASSUME TwoPorts, TypeOK
    PROVE  /\ inQ[snk] \in Seq(Msg) /\ outQ[src] \in Seq(Msg)
           /\ src \in Port /\ snk \in Port /\ src # snk
           /\ \A p \in Port : p = src \/ p = snk
BY DEF TwoPorts, TypeOK

\* A connected port is connected to the other one.
LEMMA OtherEnd ==
    ASSUME TwoPorts, TypeOK, ConnectionClean, NEW p \in Port, conn[p] # NoPort
    PROVE  /\ p = src => conn[p] = snk
           /\ p = snk => conn[p] = src
BY DEF TwoPorts, TypeOK, ConnectionClean

\* A message queued at src is put at the end; one queued at snk goes the
\* other way.
LEMMA QueuePuts ==
    ASSUME TwoPorts, TypeOK, ConnectionClean, NEW p \in Port, NEW m \in Msg, QueueOutgoingMsg(p, m)
    PROVE  underway' = underway \/ Puts(underway, underway')
<1>1. /\ inQ[snk] \in Seq(Msg) /\ outQ[src] \in Seq(Msg)
      /\ src \in Port /\ snk \in Port /\ src # snk /\ (p = src \/ p = snk)
  BY QueueTypesHere
<1>2. /\ conn[p] # NoPort /\ (p = src => conn[p] = snk) /\ (p = snk => conn[p] = src)
  BY OtherEnd DEF QueueOutgoingMsg, QueueDirectly, QueueRefused
<1>3. CASE QueueDirectly(p, m) /\ p = src
  <2>1. /\ inQ'[snk] = Append(inQ[snk], Head(Append(outQ[src], m)))
        /\ outQ'[src] = Tail(Append(outQ[src], m))
    BY <1>1, <1>2, <1>3 DEF QueueDirectly, Receive, TypeOK
  <2>2. Append(outQ[src], m) \in Seq(Msg) /\ Append(outQ[src], m) # <<>>
    BY <1>1, AppendProperties
  <2>3. underway' = inQ[snk] \o Append(outQ[src], m)
    BY <1>1, <2>1, <2>2, MoveHead DEF underway
  <2>4. underway' = Append(underway, m) BY <1>1, <2>3, PutLast DEF underway
  <2>5. QED BY <2>4 DEF Puts
<1>4. CASE QueueDirectly(p, m) /\ p = snk
  <2>1. inQ'[snk] = inQ[snk] /\ outQ'[src] = outQ[src]
    BY <1>1, <1>2, <1>4 DEF QueueDirectly, Receive, TypeOK
  <2>2. QED BY <2>1 DEF underway
<1>5. CASE QueueRefused(p, m) /\ p = src
  <2>1. inQ' = inQ /\ outQ'[src] = Append(outQ[src], m)
    BY <1>1, <1>5 DEF QueueRefused, inVars, TypeOK
  <2>2. underway' = Append(underway, m) BY <1>1, <2>1, PutLast, ZenonT(40) DEF underway
  <2>3. QED BY <2>2 DEF Puts
<1>6. CASE QueueRefused(p, m) /\ p = snk
  <2>1. inQ' = inQ /\ outQ'[src] = outQ[src]
    BY <1>1, <1>6 DEF QueueRefused, inVars, TypeOK
  <2>2. QED BY <2>1 DEF underway
<1>7. QED BY <1>1, <1>3, <1>4, <1>5, <1>6 DEF QueueOutgoingMsg

\* Send moves the front of the outgoing queue to the end of the incoming one
\* or, when the other end is suspended, drops it.
LEMMA SendMoves ==
    ASSUME TwoPorts, TypeOK, ConnectionClean, NEW p \in Port, Send(p)
    PROVE  \/ underway' = underway
           \/ (\E q \in Port : suspended[q]) /\ Discards(underway, underway')
<1>1. /\ inQ[snk] \in Seq(Msg) /\ outQ[src] \in Seq(Msg)
      /\ src \in Port /\ snk \in Port /\ src # snk /\ (p = src \/ p = snk)
  BY QueueTypesHere
<1>2. /\ conn[p] # NoPort /\ outQ[p] # <<>>
      /\ (p = src => conn[p] = snk) /\ (p = snk => conn[p] = src)
  BY OtherEnd DEF Send, SendBusy, SendDone, SendGuard
<1>3. CASE SendBusy(p) BY <1>3 DEF SendBusy, inVars, outVars, underway
<1>4. CASE SendDone(p) /\ p = src /\ ~suspended[snk]
  <2>1. inQ'[snk] = Append(inQ[snk], Head(outQ[src])) /\ outQ'[src] = Tail(outQ[src])
    BY <1>1, <1>2, <1>4 DEF SendDone, Receive, TypeOK
  <2>2. QED BY <1>1, <1>2, <1>4, <2>1, MoveHead DEF underway
<1>5. CASE SendDone(p) /\ p = src /\ suspended[snk]
  <2>1. inQ'[snk] = inQ[snk] /\ outQ'[src] = Tail(outQ[src]) /\ outQ[src] # <<>>
    BY <1>1, <1>2, <1>5 DEF SendDone, inVars, TypeOK
  <2>2. Discards(underway, underway') BY <1>1, <2>1, DropHead DEF underway
  <2>3. QED BY <1>1, <1>5, <2>2
<1>6. CASE SendDone(p) /\ p = snk
  <2>1. inQ'[snk] = inQ[snk] /\ outQ'[src] = outQ[src]
    BY <1>1, <1>2, <1>6 DEF SendDone, Receive, inVars, TypeOK
  <2>2. QED BY <2>1 DEF underway
<1>7. QED BY <1>1, <1>3, <1>4, <1>5, <1>6 DEF Send

LEMMA DequeueGets ==
    ASSUME TwoPorts, TypeOK, NEW p \in Port, DequeueIncomingMsg(p)
    PROVE  underway' = underway \/ Gets(underway, underway')
<1>1. /\ inQ[snk] \in Seq(Msg) /\ outQ[src] \in Seq(Msg)
      /\ src \in Port /\ snk \in Port /\ src # snk /\ (p = src \/ p = snk)
  BY QueueTypesHere
<1>2. outQ' = outQ /\ (p = snk => inQ[snk] # <<>> /\ inQ'[snk] = Tail(inQ[snk]))
      /\ (p = src => inQ'[snk] = inQ[snk])
  BY <1>1 DEF DequeueIncomingMsg, outVars, TypeOK
<1>3. QED BY <1>1, <1>2, GetFirst DEF underway

\* Emptying either queue, or both, is a stutter or a Discard.
LEMMA EmptyDiscards ==
    ASSUME TwoPorts, TypeOK, inQ'[snk] \in {inQ[snk], <<>>}, outQ'[src] \in {outQ[src], <<>>}
    PROVE  underway' = underway \/ Discards(underway, underway')
<1> DEFINE q == inQ[snk]
<1> DEFINE r == outQ[src]
<1>1. q \in Seq(Msg) /\ r \in Seq(Msg) /\ <<>> \in Seq(Msg) BY QueueTypesHere, EmptySeq
<1> HIDE DEF q, r
<1>2. /\ q \o r \in Seq(Msg) /\ <<>> \o q = q /\ q \o <<>> = q
      /\ <<>> \o r = r /\ r \o <<>> = r /\ <<>> \o <<>> = <<>>
  BY <1>1, ConcatProperties, ConcatEmptySeq
<1>3. <<>> \o (q \o r) = q \o r /\ (q \o r) \o <<>> = q \o r
  BY <1>2, ConcatEmptySeq
<1>4. q = <<>> \/ Discards(q \o r, <<>> \o r)
  <2>1. q # <<>> => Discards((<<>> \o q) \o r, <<>> \o r) BY <1>1, DiscardMiddle
  <2>2. QED BY <1>2, <2>1
<1>5. r = <<>> \/ Discards(q \o r, q \o <<>>)
  <2>1. r # <<>> => Discards((q \o r) \o <<>>, q \o <<>>) BY <1>1, DiscardMiddle
  <2>2. QED BY <1>3, <2>1
<1>6. (q = <<>> /\ r = <<>>) \/ Discards(q \o r, <<>> \o <<>>)
  <2>1. q \o r = <<>> <=> q = <<>> /\ r = <<>> BY <1>1, ConcatEqualIffEmpty
  <2>2. q \o r # <<>> => Discards((<<>> \o (q \o r)) \o <<>>, <<>> \o <<>>)
    BY <1>1, <1>2, DiscardMiddle
  <2>3. QED BY <1>3, <2>1, <2>2
<1>7. QED BY <1>4, <1>5, <1>6 DEF underway, q, r

\* Clearing or disconnecting a port.
LEMMA ClearDiscards ==
    ASSUME TwoPorts, TypeOK, NEW p \in Port, ClearMsgQueues(p) \/ Disconnect(p)
    PROVE  underway' = underway \/ Discards(underway, underway')
<1>1. src \in Port /\ snk \in Port BY QueueTypesHere
<1>2. inQ'[snk] \in {inQ[snk], <<>>} /\ outQ'[src] \in {outQ[src], <<>>}
  BY <1>1 DEF ClearMsgQueues, Disconnect, TypeOK
<1>3. QED BY <1>2, EmptyDiscards

\* The other control operations do not touch the queues.
LEMMA ControlKeeps ==
    ASSUME NEW ops, ControlStep(ops),
           ~("clear" \in ops /\ \E p \in Port : ClearMsgQueues(p)),
           ~("disconnect" \in ops /\ \E p \in Port : Disconnect(p))
    PROVE  underway' = underway
<1>1. inQ' = inQ /\ outQ' = outQ
  BY DEF ControlStep, Connect, SetSuspended, SetIncoming, SetOutgoing, inVars, outVars
<1>2. QED BY <1>1 DEF underway

LEMMA LossyStep ==
    ASSUME TwoPorts, TypeOK, ConnectionClean, [Next]_portVars
    PROVE  \/ underway' = underway
           \/ Puts(underway, underway') \/ Gets(underway, underway')
           \/ Discards(underway, underway')
<1>1. CASE UNCHANGED portVars BY <1>1 DEF portVars, inVars, outVars, underway
<1>2. CASE DataStep(Port) BY <1>2, QueuePuts, SendMoves, DequeueGets DEF DataStep
<1>3. CASE ControlStep(PortOps) BY <1>3, ClearDiscards, ControlKeeps
<1>4. QED BY <1>1, <1>2, <1>3 DEF Next

-----------------------------------------------------------------------------
(***************************************************************************)
(* The uses of UseSpec: each of them is a behaviour of the ports, and the  *)
(* use never changes.                                                      *)
(***************************************************************************)
UseOK == use \in Uses

LEMMA UseIsPorts ==
    ASSUME UseOK, [UseNext]_useVars
    PROVE  /\ [Next]_portVars /\ use' = use
           /\ DataStep(Port) \/ ControlStep(use.ops) \/ UNCHANGED portVars
<1>1. use.senders \subseteq Port /\ use.ops \subseteq PortOps
  BY UsesAssumption DEF UseOK
<1>2. CASE UNCHANGED useVars BY <1>2 DEF useVars
<1>3. CASE UseNext /\ DataStep(use.senders)
  <2>1. DataStep(Port) BY <1>1, <1>3 DEF DataStep
  <2>2. QED BY <1>3, <2>1 DEF UseNext, Next
<1>4. CASE UseNext /\ ControlStep(use.ops)
  <2>1. ControlStep(PortOps) BY <1>1, <1>4 DEF ControlStep
  <2>2. QED BY <1>4, <2>1 DEF UseNext, Next
<1>5. QED BY <1>2, <1>3, <1>4 DEF UseNext

LEMMA UsesCorrect == UseSpec => Spec /\ []UseOK
<1>1. UseInit => Init /\ UseOK BY DEF UseInit, UseOK
<1>2. UseOK /\ [UseNext]_useVars => UseOK' /\ [Next]_portVars
  BY UseIsPorts DEF UseOK
<1>3. QED BY <1>1, <1>2, PTL DEF UseSpec, Spec

\* As long as connections are not broken, a port whose Send was refused waits
\* for a connected port that is really busy, whatever is sent, dequeued,
\* cleared, suspended or resized in between.
THEOREM WaitCorrect == UseSpec => []SenderWaitsForBusyPort
<1>1. UseInit => SenderWaitsForBusyPort
  BY DEF UseInit, Init, SenderWaitsForBusyPort, WaitsForBusyPort
<1>2. UseOK /\ TypeOK /\ ConnectionClean /\ SenderWaitsForBusyPort /\ [UseNext]_useVars
      => SenderWaitsForBusyPort'
  BY UseIsPorts, WaitStep DEF SenderWaitsForBusyPort
<1>3. QED
  BY <1>1, <1>2, UsesCorrect, PortTypeCorrect, ConnectionCorrect, PTL DEF UseSpec

-----------------------------------------------------------------------------
\* Without "suspend" no input is ever suspended.
NoneSuspended == Lossless => \A p \in Port : ~suspended[p]

LEMMA SuspendedStep ==
    ASSUME UseOK, NoneSuspended, [UseNext]_useVars PROVE NoneSuspended'
<1> SUFFICES ASSUME Lossless' PROVE \A p \in Port : ~suspended'[p]
  BY DEF NoneSuspended
<1>1. /\ use' = use
      /\ DataStep(Port) \/ ControlStep(use.ops) \/ UNCHANGED portVars
  BY UseIsPorts
<1>2. Lossless BY <1>1 DEF Lossless
<1>3. suspended' = suspended
  <2>1. CASE UNCHANGED portVars BY <2>1 DEF portVars
  <2>2. CASE DataStep(Port)
    BY <2>2 DEF DataStep, QueueOutgoingMsg, QueueDirectly, QueueRefused, Send, SendBusy,
       SendDone, DequeueIncomingMsg
  <2>3. CASE ControlStep(use.ops)
    BY <1>2, <2>3 DEF Lossless, ControlStep, Connect, SetIncoming, SetOutgoing
  <2>4. QED BY <1>1, <2>1, <2>2, <2>3
<1>4. QED BY <1>2, <1>3 DEF NoneSuspended

LEMMA ReliableStep ==
    ASSUME TwoPorts, UseOK, TypeOK, ConnectionClean, NoneSuspended, Lossless,
           [UseNext]_useVars
    PROVE  \/ underway' = underway
           \/ Puts(underway, underway') \/ Gets(underway, underway')
<1>1. DataStep(Port) \/ ControlStep(use.ops) \/ UNCHANGED portVars BY UseIsPorts
<1>2. CASE UNCHANGED portVars BY <1>2 DEF portVars, inVars, outVars, underway
<1>3. CASE DataStep(Port)
  BY <1>3, QueuePuts, SendMoves, DequeueGets DEF DataStep, NoneSuspended
<1>4. CASE ControlStep(use.ops) BY <1>4, ControlKeeps DEF Lossless
<1>5. QED BY <1>1, <1>2, <1>3, <1>4

LEMMA ChannelInit == ASSUME TwoPorts, Init PROVE Channel!Init
<1>1. inQ[snk] = <<>> /\ outQ[src] = <<>> BY DEF TwoPorts, Init
<1>2. QED BY <1>1 DEF Channel!Init, underway

-----------------------------------------------------------------------------
\* Whatever is done to two ports, messages pass from the one to the other in
\* order, each at most once: QueueOutgoingMsg, Send, Receive and
\* DequeueIncomingMsg implement the lossy channel.
THEOREM LossyChannelCorrect == TwoPorts /\ Spec => ImplementsLossyChannel
<1> SUFFICES ASSUME TwoPorts PROVE Spec => ImplementsLossyChannel
  OBVIOUS
<1>1. Init => Channel!Init BY ChannelInit
<1>2. TypeOK /\ ConnectionClean /\ [Next]_portVars
      => [Channel!Put \/ Channel!Get \/ Channel!Discard]_(underway)
  BY LossyStep DEF Channel!Put, Channel!Get, Channel!Discard, Puts, Gets, Discards
<1>3. QED BY <1>1, <1>2, PortTypeCorrect, ConnectionCorrect, PTL
  DEF Spec, ImplementsLossyChannel, Channel!Lossy, underway

\* On a connection that nobody clears, suspends or breaks no message is lost,
\* however the queues are filled, drained and resized.
THEOREM ReliableChannelCorrect == TwoPorts /\ UseSpec => ImplementsReliableChannel
<1> SUFFICES ASSUME TwoPorts PROVE UseSpec => ImplementsReliableChannel
  OBVIOUS
<1>1. UseInit => Channel!Init /\ NoneSuspended
  BY ChannelInit DEF UseInit, Init, NoneSuspended
<1>2. UseOK /\ NoneSuspended /\ [UseNext]_useVars => NoneSuspended' BY SuspendedStep
<1>3. UseOK /\ TypeOK /\ ConnectionClean /\ NoneSuspended /\ [UseNext]_useVars
      => [Lossless => Channel!Put \/ Channel!Get]_underway
  BY ReliableStep DEF Channel!Put, Channel!Get, Puts, Gets
<1>4. QED
  BY <1>1, <1>2, <1>3, UsesCorrect, PortTypeCorrect, ConnectionCorrect, PTL
  DEF UseSpec, ImplementsReliableChannel
=============================================================================
