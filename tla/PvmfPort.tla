------------------------------ MODULE PvmfPort ------------------------------
(***************************************************************************)
(* PvmfPortBaseImpl (pvmf_port_base_impl.cpp): the ports through which the *)
(* nodes of a PVMF graph exchange media messages.  A port has an incoming  *)
(* and an outgoing queue, each with a capacity, a threshold and a busy     *)
(* flag.  Everything happens in one thread: an operation of a port, with   *)
(* the calls it makes on the connected port, is one step.  What it reports *)
(* to the nodes through PortActivity is in acts.                           *)
(***************************************************************************)
EXTENDS Integers, Sequences, FiniteSets

CONSTANTS
    Port,        \* the ports
    NoPort,      \* a NULL iConnectedPort
    Msg,         \* media messages
    InitCap,     \* capacity of the queues at construction
    InitPct,     \* threshold of the queues at construction, in per cent
    Capacities,  \* arguments of SetCapacity
    Percents,    \* arguments of SetThreshold
    MaxQueue     \* bound of the model on the length of a queue

ASSUME PortAssumption ==
    /\ NoPort \notin Port
    /\ InitCap \in Nat /\ InitPct \in 0..100
    /\ Capacities \subseteq Nat /\ Percents \subseteq Nat
    /\ MaxQueue \in Nat

VARIABLES
    conn,       \* iConnectedPort
    inQ, outQ,  \* iIncomingQueue.iQ, iOutgoingQueue.iQ
    inBusy, outBusy,
    connBusy,   \* iConnectedPortBusy
    suspended,  \* iInputSuspended
    inCap, outCap, inPct, outPct,
    acts        \* port activity reported by the last operation

inVars   == <<inQ, inBusy>>
outVars  == <<outQ, outBusy>>
sizeVars == <<inCap, outCap, inPct, outPct>>
portVars == <<conn, inVars, outVars, connBusy, suspended, sizeVars, acts>>

-----------------------------------------------------------------------------
Threshold(cap, pct) == (cap * pct) \div 100

\* isIncomingFull, isOutgoingFull.  The assertion on a zero threshold is
\* compiled out of a release build; the function then returns true.
QueueFull(len, cap, pct, busy) ==
    \/ Threshold(cap, pct) = 0
    \/ len = cap
    \/ busy /\ len >= Threshold(cap, pct)

Init ==
    /\ conn = [p \in Port |-> NoPort]
    /\ inQ = [p \in Port |-> <<>>] /\ outQ = [p \in Port |-> <<>>]
    /\ inBusy = [p \in Port |-> FALSE] /\ outBusy = [p \in Port |-> FALSE]
    /\ connBusy = [p \in Port |-> FALSE]
    /\ suspended = [p \in Port |-> FALSE]
    /\ inCap = [p \in Port |-> InitCap] /\ outCap = [p \in Port |-> InitCap]
    /\ inPct = [p \in Port |-> InitPct] /\ outPct = [p \in Port |-> InitPct]
    /\ acts = {}

-----------------------------------------------------------------------------
\* Connect, which makes the connected port's PeerConnect.
Connect(p, q) ==
    /\ p # q
    /\ conn[p] = NoPort /\ conn[q] = NoPort
    /\ conn' = [conn EXCEPT ![p] = q, ![q] = p]
    /\ acts' = {<<p, "connect">>, <<q, "connect">>}
    /\ UNCHANGED <<inVars, outVars, connBusy, suspended, sizeVars>>

\* Mutant: PeerDisconnect does not clear the queues of the peer.
DisconnectPeerKeepsQueues(p) ==
    /\ conn[p] # NoPort
    /\ conn' = [conn EXCEPT ![p] = NoPort, ![conn[p]] = NoPort]
    /\ inQ' = [inQ EXCEPT ![p] = <<>>] /\ outQ' = [outQ EXCEPT ![p] = <<>>]
    /\ inBusy' = [inBusy EXCEPT ![p] = FALSE]
    /\ outBusy' = [outBusy EXCEPT ![p] = FALSE]
    /\ acts' = {p, conn[p]} \X {"disconnect"}
    /\ UNCHANGED <<connBusy, suspended, sizeVars>>

\* Disconnect and PeerDisconnect: the busy flags are reset first, so that
\* clearing the queues reports nothing.
Disconnect(p) ==
    /\ conn[p] # NoPort
    /\ LET both == {p, conn[p]} IN
       /\ conn' = [r \in Port |-> IF r \in both THEN NoPort ELSE conn[r]]
       /\ inQ' = [r \in Port |-> IF r \in both THEN <<>> ELSE inQ[r]]
       /\ outQ' = [r \in Port |-> IF r \in both THEN <<>> ELSE outQ[r]]
       /\ inBusy' = [r \in Port |-> r \notin both /\ inBusy[r]]
       /\ outBusy' = [r \in Port |-> r \notin both /\ outBusy[r]]
       /\ acts' = both \X {"disconnect"}
    /\ UNCHANGED <<connBusy, suspended, sizeVars>>

-----------------------------------------------------------------------------
(***************************************************************************)
(* EvaluateOutgoingBusy and EvaluateIncomingBusy, for a queue that has     *)
(* become len long.  An incoming queue that is ready again calls the       *)
(* connected port's ReadyToReceive.                                        *)
(***************************************************************************)
OutReady(p, len, cap, pct) == outBusy[p] /\ ~QueueFull(len, cap, pct, TRUE)

OutReport(p, ready) == IF ready THEN {<<p, "out_ready">>} ELSE {}

EvaluateOutgoingBusy(p, ready) ==
    outBusy' = [outBusy EXCEPT ![p] = @ /\ ~ready]

InReady(p, len, cap, pct) == inBusy[p] /\ ~QueueFull(len, cap, pct, TRUE)

InReport(p, ready) ==
    IF ready /\ conn[p] # NoPort THEN {<<conn[p], "conn_ready">>} ELSE {}

\* Mutant: ReadyToReceive is not called.
EvaluateIncomingBusySilent(p, ready) ==
    /\ inBusy' = [inBusy EXCEPT ![p] = @ /\ ~ready]
    /\ UNCHANGED connBusy

EvaluateIncomingBusy(p, ready) ==
    /\ inBusy' = [inBusy EXCEPT ![p] = @ /\ ~ready]
    /\ connBusy' = [r \in Port |->
                      connBusy[r] /\ ~(ready /\ conn[p] = r)]

-----------------------------------------------------------------------------
(***************************************************************************)
(* Receive: PVMFErrInvalidState while the input is suspended, PVMFErrBusy  *)
(* while the incoming queue is busy; otherwise the message is queued, and  *)
(* a queue at capacity becomes busy.                                       *)
(***************************************************************************)
Accepts(q) == ~suspended[q] /\ ~inBusy[q]

Receive(q, m) ==
    /\ Len(inQ[q]) < MaxQueue
    /\ inQ' = [inQ EXCEPT ![q] = Append(@, m)]
    /\ inBusy' = [inBusy EXCEPT ![q] = /\ Threshold(inCap[q], inPct[q]) # 0
                                       /\ Len(inQ[q]) + 1 >= inCap[q]]

(***************************************************************************)
(* QueueOutgoingMsg.  The message is pushed and the front of the queue is  *)
(* offered to the connected port at once; if that is refused, for whatever *)
(* reason, the queue has grown and may have become busy.                   *)
(***************************************************************************)
\* Mutant: the new message is offered instead of the front of the queue.
QueueDirectlyNewest(p, m) ==
    /\ conn[p] # NoPort
    /\ ~outBusy[p]
    /\ Accepts(conn[p])
    /\ Receive(conn[p], m)
    /\ acts' = {<<conn[p], "incoming">>}
    /\ UNCHANGED <<conn, outVars, connBusy, suspended, sizeVars>>

QueueDirectly(p, m) ==
    /\ conn[p] # NoPort
    /\ ~outBusy[p]
    /\ Accepts(conn[p])
    /\ Receive(conn[p], Head(Append(outQ[p], m)))
    /\ outQ' = [outQ EXCEPT ![p] = Tail(Append(@, m))]
    /\ acts' = {<<conn[p], "incoming">>}
    /\ UNCHANGED <<conn, outBusy, connBusy, suspended, sizeVars>>

QueueRefused(p, m) ==
    /\ conn[p] # NoPort
    /\ ~outBusy[p]
    /\ ~Accepts(conn[p])
    /\ Len(outQ[p]) < MaxQueue
    /\ outQ' = [outQ EXCEPT ![p] = Append(@, m)]
    /\ LET full == QueueFull(Len(outQ[p]) + 1, outCap[p], outPct[p], FALSE) IN
       /\ outBusy' = [outBusy EXCEPT ![p] = full]
       /\ acts' = {<<p, "outgoing">>} \cup
                  (IF full THEN {<<p, "out_busy">>} ELSE {})
    /\ UNCHANGED <<conn, inVars, connBusy, suspended, sizeVars>>

QueueOutgoingMsg(p, m) == QueueDirectly(p, m) \/ QueueRefused(p, m)

(***************************************************************************)
(* Send.  A busy port keeps the message and is remembered to be busy; a    *)
(* suspended one makes Send drop the message.                              *)
(***************************************************************************)
SendGuard(p) == conn[p] # NoPort /\ outQ[p] # <<>> /\ ~connBusy[p]

\* Mutant: the message a busy port refused is dequeued all the same.
SendBusyDrops(p) ==
    /\ SendGuard(p)
    /\ ~suspended[conn[p]] /\ inBusy[conn[p]]
    /\ connBusy' = [connBusy EXCEPT ![p] = TRUE]
    /\ outQ' = [outQ EXCEPT ![p] = Tail(@)]
    /\ acts' = {<<p, "conn_busy">>}
    /\ UNCHANGED <<conn, inVars, outBusy, suspended, sizeVars>>

SendBusy(p) ==
    /\ SendGuard(p)
    /\ ~suspended[conn[p]] /\ inBusy[conn[p]]
    /\ connBusy' = [connBusy EXCEPT ![p] = TRUE]
    /\ acts' = {<<p, "conn_busy">>}
    /\ UNCHANGED <<conn, inVars, outVars, suspended, sizeVars>>

SendDone(p) ==
    /\ SendGuard(p)
    /\ suspended[conn[p]] \/ ~inBusy[conn[p]]
    /\ IF suspended[conn[p]]
       THEN UNCHANGED inVars
       ELSE Receive(conn[p], Head(outQ[p]))
    /\ outQ' = [outQ EXCEPT ![p] = Tail(@)]
    /\ LET ready == OutReady(p, Len(outQ[p]) - 1, outCap[p], outPct[p]) IN
       /\ EvaluateOutgoingBusy(p, ready)
       /\ acts' = OutReport(p, ready) \cup
                  (IF suspended[conn[p]] THEN {} ELSE {<<conn[p], "incoming">>})
    /\ UNCHANGED <<conn, connBusy, suspended, sizeVars>>

Send(p) == SendBusy(p) \/ SendDone(p)

\* Mutant: the busy flag is not evaluated after the removal.
DequeueIncomingMsgOnly(p) ==
    /\ inQ[p] # <<>>
    /\ inQ' = [inQ EXCEPT ![p] = Tail(@)]
    /\ acts' = {}
    /\ UNCHANGED <<conn, inBusy, outVars, connBusy, suspended, sizeVars>>

DequeueIncomingMsg(p) ==
    /\ inQ[p] # <<>>
    /\ inQ' = [inQ EXCEPT ![p] = Tail(@)]
    /\ LET ready == InReady(p, Len(inQ[p]) - 1, inCap[p], inPct[p]) IN
       /\ EvaluateIncomingBusy(p, ready)
       /\ acts' = InReport(p, ready)
    /\ UNCHANGED <<conn, outVars, suspended, sizeVars>>

ClearMsgQueues(p) ==
    /\ inQ' = [inQ EXCEPT ![p] = <<>>]
    /\ outQ' = [outQ EXCEPT ![p] = <<>>]
    /\ LET inReady == InReady(p, 0, inCap[p], inPct[p])
           outReady == OutReady(p, 0, outCap[p], outPct[p])
       IN /\ EvaluateIncomingBusy(p, inReady)
          /\ EvaluateOutgoingBusy(p, outReady)
          /\ acts' = InReport(p, inReady) \cup OutReport(p, outReady)
    /\ UNCHANGED <<conn, suspended, sizeVars>>

SetSuspended(p, value) ==
    /\ suspended' = [suspended EXCEPT ![p] = value]
    /\ acts' = {}
    /\ UNCHANGED <<conn, inVars, outVars, connBusy, sizeVars>>

\* Mutant: SetThreshold accepts more than 100 per cent.
SetIncomingUnchecked(p, cap, pct) ==
    /\ inCap' = [inCap EXCEPT ![p] = cap]
    /\ inPct' = [inPct EXCEPT ![p] = pct]
    /\ acts' = {}
    /\ UNCHANGED <<conn, inVars, outVars, connBusy, suspended, outCap, outPct>>

\* SetCapacity and SetThreshold of the incoming queue; SetThreshold refuses
\* more than 100 per cent.
SetIncoming(p, cap, pct) ==
    /\ pct <= 100
    /\ inCap' = [inCap EXCEPT ![p] = cap]
    /\ inPct' = [inPct EXCEPT ![p] = pct]
    /\ LET ready == InReady(p, Len(inQ[p]), cap, pct) IN
       /\ EvaluateIncomingBusy(p, ready)
       /\ acts' = InReport(p, ready)
    /\ UNCHANGED <<conn, inQ, outVars, suspended, outCap, outPct>>

\* SetCapacity and SetThreshold of the outgoing queue.
SetOutgoing(p, cap, pct) ==
    /\ pct <= 100
    /\ outCap' = [outCap EXCEPT ![p] = cap]
    /\ outPct' = [outPct EXCEPT ![p] = pct]
    /\ LET ready == OutReady(p, Len(outQ[p]), cap, pct) IN
       /\ EvaluateOutgoingBusy(p, ready)
       /\ acts' = OutReport(p, ready)
    /\ UNCHANGED <<conn, inVars, outQ, connBusy, suspended, inCap, inPct>>

-----------------------------------------------------------------------------
\* The nodes use the data path of their ports as they like; the ones that
\* have something to send own the ports in senders.
DataStep(senders) ==
    \/ \E p \in senders, m \in Msg : QueueOutgoingMsg(p, m)
    \/ \E p \in Port : Send(p) \/ DequeueIncomingMsg(p)

\* What the nodes and the engine call besides the data path.
PortOps == {"connect", "disconnect", "clear", "suspend", "insize", "outsize"}

\* They control the ports as they like, by the calls in ops.
ControlStep(ops) ==
    \/ "connect" \in ops /\ \E p, q \in Port : Connect(p, q)
    \/ "disconnect" \in ops /\ \E p \in Port : Disconnect(p)
    \/ "clear" \in ops /\ \E p \in Port : ClearMsgQueues(p)
    \/ "suspend" \in ops /\ \E p \in Port, v \in BOOLEAN : SetSuspended(p, v)
    \/ "insize" \in ops /\ \E p \in Port :
          \/ \E c \in Capacities : SetIncoming(p, c, inPct[p])
          \/ \E t \in Percents : SetIncoming(p, inCap[p], t)
    \/ "outsize" \in ops /\ \E p \in Port :
          \/ \E c \in Capacities : SetOutgoing(p, c, outPct[p])
          \/ \E t \in Percents : SetOutgoing(p, outCap[p], t)

Next == DataStep(Port) \/ ControlStep(PortOps)

Spec == Init /\ [][Next]_portVars

-----------------------------------------------------------------------------
Activities == {"connect", "disconnect", "outgoing", "incoming", "out_busy",
               "out_ready", "conn_busy", "conn_ready"}

\* Types of the ports' state.
TypeOK ==
    /\ conn \in [Port -> Port \cup {NoPort}]
    /\ inQ \in [Port -> Seq(Msg)] /\ outQ \in [Port -> Seq(Msg)]
    /\ inBusy \in [Port -> BOOLEAN] /\ outBusy \in [Port -> BOOLEAN]
    /\ connBusy \in [Port -> BOOLEAN] /\ suspended \in [Port -> BOOLEAN]
    /\ inCap \in [Port -> Nat] /\ outCap \in [Port -> Nat]
    /\ inPct \in [Port -> 0..100] /\ outPct \in [Port -> 0..100]
    /\ acts \subseteq Port \X Activities

(***************************************************************************)
(* Connecting and disconnecting change both ends, and no traffic of an old *)
(* connection is left for the next one: a port that is not connected has   *)
(* no messages, and neither of its queues is busy.  connBusy, which        *)
(* Disconnect and PeerDisconnect do not reset, is another matter.          *)
(***************************************************************************)
ConnectionClean ==
    \A p \in Port :
        IF conn[p] = NoPort
        THEN inQ[p] = <<>> /\ outQ[p] = <<>> /\ ~inBusy[p] /\ ~outBusy[p]
        ELSE conn[p] # p /\ conn[conn[p]] = p

(***************************************************************************)
(* A busy queue will become ready: as long as it is busy it holds at least *)
(* a threshold of messages, and below the threshold the evaluation that    *)
(* follows every removal reports it ready.                                 *)
(***************************************************************************)
BusyHasBacklog ==
    \A p \in Port :
        /\ inBusy[p] => inQ[p] # <<>> /\ Len(inQ[p]) >= Threshold(inCap[p], inPct[p])
        /\ outBusy[p] => outQ[p] # <<>> /\ Len(outQ[p]) >= Threshold(outCap[p], outPct[p])

\* IsConnectedPortBusy: "true if connected port is busy".  A port that waits
\* for the connected port is connected to one that is busy.
WaitsForBusyPort ==
    \A p \in Port : connBusy[p] => conn[p] # NoPort /\ inBusy[conn[p]]

=============================================================================
