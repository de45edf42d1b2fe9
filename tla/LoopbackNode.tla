---------------------------- MODULE LoopbackNode ----------------------------
(***************************************************************************)
(* PVMFLoopbackNode and its PVMFLoopbackIOPort (pvmf_loopback_node.cpp,    *)
(* pvmf_loopback_ioport.cpp): a node that sends back every message it      *)
(* receives.  It is composed of a command queue served by the node's       *)
(* active object, a media port (PvmfPort) served by an active object of    *)
(* its own, and the port of the node at the other end.                     *)
(*                                                                         *)
(* All of it runs in one thread under the scheduler: a Run is finished     *)
(* before the next one begins.  A Run that makes several calls on its port *)
(* takes several steps here, during which pc names the next one and        *)
(* nothing else happens.                                                   *)
(***************************************************************************)
EXTENDS PvmfPort

CONSTANTS
    lb, peer,   \* the loopback port and the port it is connected to
    Uses,       \* what the client does: the commands it issues, what it does to
                \* the connection ("connect", "disconnect"), and bounds on the
                \* commands issued and the messages fed
    MaxCmds,    \* bound on the commands waiting
    MaxIssued,  \* bound on the commands issued, in any use
    MaxFed      \* bound on the messages fed, in any use

ASSUME LoopAssumption ==
    /\ lb # peer /\ Port = {lb, peer}
    /\ Msg = 1..MaxFed
    /\ Uses \subseteq [commands : SUBSET (1..9), issued : 0..MaxIssued,
                        links : SUBSET {"connect", "disconnect"}, fed : 0..MaxFed]
    /\ MaxCmds \in Nat /\ MaxIssued \in Nat /\ MaxFed \in Nat

VARIABLES
    state,      \* iInterfaceState
    cmds,       \* iInputCommands
    cur,        \* iCurrentCommand
    port,       \* iIOPort is not NULL
    nodeReady,  \* the node's active object is in the ready queue
    portReady,  \* the port's active object is
    waiting,    \* iWaiting of the port
    pc,         \* next step of the Run under way, or "idle"
    hand,       \* the message between DequeueIncomingMsg and QueueOutgoingMsg
    fed, issued, \* messages fed and commands issued so far
    use         \* one of Uses

nodeVars == <<state, cmds, cur, nodeReady>>
ioVars   == <<port, portReady, waiting>>
envVars  == <<fed, issued>>
loopVars == <<portVars, nodeVars, ioVars, pc, hand, envVars, use>>

\* TPVMFGenericNodeCommand
REQUESTPORT == 1
RELEASEPORT == 2
INIT == 3
PREPARE == 4
START == 5
STOP == 6
FLUSH == 7
PAUSE == 8
RESET == 9

\* PVMFLOOPBACK_NODE_CMD_FLUSH of PVMFLoopbackNodeCmdType
LOOPBACK_CMD_FLUSH == 8

\* FlushPending, for the current command c.
FlushPending(c) == c # <<>> /\ Head(c) = LOOPBACK_CMD_FLUSH

\* The node after ThreadLogon.
LoopInit ==
    /\ Init
    /\ state = "Idle" /\ cmds = <<>> /\ cur = <<>>
    /\ port = FALSE /\ nodeReady = FALSE /\ portReady = FALSE /\ waiting = FALSE
    /\ pc = "idle" /\ hand = <<>>
    /\ fed = 0 /\ issued = 0 /\ use \in Uses

-----------------------------------------------------------------------------
(***************************************************************************)
(* HandlePortActivity of the loopback port, for what the operation of this *)
(* step reports; wake is a RunIfNotReady of the Run itself.                *)
(***************************************************************************)
Wakeup ==
    \/ <<lb, "outgoing">> \in acts' /\ Len(outQ'[lb]) = 1
    \/ <<lb, "incoming">> \in acts' /\ Len(inQ'[lb]) = 1
    \/ <<lb, "out_ready">> \in acts' /\ waiting
    \/ <<lb, "conn_ready">> \in acts' /\ outQ'[lb] # <<>>

HandlePortActivity(wake) ==
    /\ portReady' = (portReady \/ wake \/ Wakeup)
    /\ waiting' = (waiting /\ <<lb, "out_ready">> \notin acts')
    /\ UNCHANGED port

-----------------------------------------------------------------------------
(***************************************************************************)
(* Run of the port: at most one message from the incoming to the outgoing  *)
(* queue, then at most one Send.                                           *)
(***************************************************************************)
PortRun ==
    /\ pc = "idle" /\ portReady
    /\ portReady' = FALSE
    /\ pc' = IF state = "Started" \/ FlushPending(cur) THEN "process" ELSE "idle"
    /\ UNCHANGED <<portVars, nodeVars, port, waiting, hand, envVars>>

NothingToProcess ==
    /\ pc = "process"
    /\ waiting \/ inQ[lb] = <<>>
    /\ pc' = "send"
    /\ UNCHANGED <<portVars, nodeVars, ioVars, hand, envVars>>

\* Mutant: the busy outgoing queue is not looked at before dequeuing, and
\* QueueOutgoingMsg then refuses the message.
ProcessWaitUnchecked ==
    /\ pc = "process"
    /\ ~waiting /\ inQ[lb] # <<>> /\ outBusy[lb]
    /\ DequeueIncomingMsg(lb)
    /\ pc' = "send"
    /\ HandlePortActivity(FALSE)
    /\ UNCHANGED <<nodeVars, hand, envVars>>

\* ProcessIncomingMsg with a busy outgoing queue
ProcessWait ==
    /\ pc = "process"
    /\ ~waiting /\ inQ[lb] # <<>> /\ outBusy[lb]
    /\ waiting' = TRUE
    /\ pc' = "send"
    /\ UNCHANGED <<portVars, nodeVars, port, portReady, hand, envVars>>

ProcessDequeue ==
    /\ pc = "process"
    /\ ~waiting /\ inQ[lb] # <<>> /\ ~outBusy[lb]
    /\ DequeueIncomingMsg(lb)
    /\ hand' = <<Head(inQ[lb])>>
    /\ pc' = "queue"
    /\ HandlePortActivity(FALSE)
    /\ UNCHANGED <<nodeVars, envVars>>

\* Mutant: the port is not re-scheduled if there is more.
ProcessQueueOnce ==
    /\ pc = "queue"
    /\ QueueOutgoingMsg(lb, Head(hand))
    /\ hand' = <<>>
    /\ pc' = "send"
    /\ HandlePortActivity(FALSE)
    /\ UNCHANGED <<nodeVars, envVars>>

ProcessQueue ==
    /\ pc = "queue"
    /\ QueueOutgoingMsg(lb, Head(hand))
    /\ hand' = <<>>
    /\ pc' = "send"
    /\ HandlePortActivity(inQ[lb] # <<>>)
    /\ UNCHANGED <<nodeVars, envVars>>

RunSend ==
    /\ pc = "send"
    /\ outQ[lb] # <<>> /\ ~connBusy[lb]
    /\ Send(lb)
    /\ pc' = "idle"
    /\ HandlePortActivity(outQ'[lb] # <<>> /\ ~connBusy'[lb])
    /\ UNCHANGED <<nodeVars, hand, envVars>>

NothingToSend ==
    /\ pc = "send"
    /\ outQ[lb] = <<>> \/ connBusy[lb]
    /\ pc' = "idle"
    /\ UNCHANGED <<portVars, nodeVars, ioVars, hand, envVars>>

PortStep ==
    \/ PortRun \/ NothingToProcess \/ ProcessWait \/ ProcessDequeue
    \/ ProcessQueue \/ RunSend \/ NothingToSend

-----------------------------------------------------------------------------
(***************************************************************************)
(* Run of the node: at most one command, then the check for the end of a   *)
(* flush.  A command is not begun while another one is current.            *)
(***************************************************************************)
CommandWaits ==
    /\ pc = "idle" /\ nodeReady
    /\ cmds = <<>> \/ cur # <<>>
    /\ nodeReady' = FALSE
    /\ pc' = "flush"
    /\ UNCHANGED <<portVars, state, cmds, cur, ioVars, hand, envVars>>

\* Mutant: the node is not re-scheduled if there are more commands.
ProcessCommandOnce(c) ==
    /\ pc = "idle" /\ nodeReady
    /\ cmds # <<>> /\ cur = <<>>
    /\ Head(cmds) = c
    /\ cmds' = Tail(cmds)
    /\ nodeReady' = FALSE
    /\ pc' = "flush"
    /\ UNCHANGED <<hand, envVars>>

\* ProcessCommand of c: it leaves the input queue, which is served again if
\* there are more.
ProcessCommand(c) ==
    /\ pc = "idle" /\ nodeReady
    /\ cmds # <<>> /\ cur = <<>>
    /\ Head(cmds) = c
    /\ cmds' = Tail(cmds)
    /\ nodeReady' = (Len(cmds) > 1)
    /\ pc' = "flush"
    /\ UNCHANGED <<hand, envVars>>

\* A command the state does not allow completes with PVMFErrInvalidState.
InvalidState(c, states) ==
    /\ ProcessCommand(c)
    /\ state \notin states
    /\ UNCHANGED <<portVars, state, cur, ioVars>>

DoInit ==
    /\ ProcessCommand(INIT)
    /\ state = "Idle" /\ state' = "Initialized"
    /\ UNCHANGED <<portVars, cur, ioVars>>

DoPrepare ==
    /\ ProcessCommand(PREPARE)
    /\ state = "Initialized" /\ state' = "Prepared"
    /\ UNCHANGED <<portVars, cur, ioVars>>

\* Mutant: the port is not woken up.
DoStartAsleep ==
    /\ ProcessCommand(START)
    /\ state \in {"Prepared", "Paused"} /\ state' = "Started"
    /\ UNCHANGED <<portVars, cur, ioVars>>

DoStart ==
    /\ ProcessCommand(START)
    /\ state \in {"Prepared", "Paused"} /\ state' = "Started"
    /\ portReady' = TRUE
    /\ UNCHANGED <<portVars, cur, port, waiting>>

\* Mutant: Reset keeps iWaiting.
PortResetStillWaiting ==
    /\ ClearMsgQueues(lb)
    /\ portReady' = FALSE
    /\ UNCHANGED <<port, waiting>>

\* The port's Reset: Cancel, ClearMsgQueues, iWaiting = false.
PortReset ==
    /\ ClearMsgQueues(lb)
    /\ portReady' = Wakeup
    /\ waiting' = FALSE
    /\ UNCHANGED port

DoStop ==
    /\ ProcessCommand(STOP)
    /\ state \in {"Started", "Paused"} /\ state' = "Prepared"
    /\ IF port THEN PortReset ELSE UNCHANGED <<portVars, ioVars>>
    /\ UNCHANGED cur

DoPause ==
    /\ ProcessCommand(PAUSE)
    /\ state = "Started" /\ state' = "Paused"
    /\ UNCHANGED <<portVars, cur, ioVars>>

DoFlush ==
    /\ ProcessCommand(FLUSH)
    /\ state \in {"Started", "Paused"}
    /\ cur' = <<FLUSH>>
    /\ SetSuspended(lb, TRUE)
    /\ portReady' = (portReady \/ state # "Started")
    /\ UNCHANGED <<state, port, waiting>>

\* The port's destructor: Disconnect, Reset, RemoveFromScheduler.
DeletePort ==
    /\ port' = FALSE /\ portReady' = FALSE /\ waiting' = FALSE
    /\ IF conn[lb] # NoPort THEN Disconnect(lb) ELSE UNCHANGED portVars

DoReset ==
    /\ ProcessCommand(RESET)
    /\ state \in {"Idle", "Initialized", "Prepared"} /\ state' = "Idle"
    /\ IF port THEN DeletePort ELSE UNCHANGED <<portVars, ioVars>>
    /\ UNCHANGED cur

\* A new port has its flags reset; its queues are empty because it is not
\* connected.
DoRequestPort ==
    /\ ProcessCommand(REQUESTPORT)
    /\ port' = TRUE
    /\ connBusy' = [connBusy EXCEPT ![lb] = FALSE]
    /\ suspended' = [suspended EXCEPT ![lb] = FALSE]
    /\ UNCHANGED <<conn, inVars, outVars, sizeVars, acts,
                   state, cur, portReady, waiting>>

DoReleasePort ==
    /\ ProcessCommand(RELEASEPORT)
    /\ IF port THEN DeletePort ELSE UNCHANGED <<portVars, ioVars>>
    /\ UNCHANGED <<state, cur>>

\* The second part of the node's Run.
CheckFlush ==
    /\ pc = "flush"
    /\ pc' = "idle"
    /\ IF ~FlushPending(cur)
       THEN UNCHANGED <<portVars, state, cur, nodeReady>>
       ELSE IF inQ[lb] # <<>> \/ outQ[lb] # <<>>
       THEN /\ nodeReady' = TRUE
            /\ UNCHANGED <<portVars, state, cur>>
       ELSE /\ state' = "Prepared" /\ cur' = <<>>
            /\ SetSuspended(lb, FALSE)
            /\ UNCHANGED nodeReady
    /\ UNCHANGED <<cmds, ioVars, hand, envVars>>

NodeStep ==
    \/ CommandWaits \/ CheckFlush
    \/ DoInit \/ InvalidState(INIT, {"Idle"})
    \/ DoPrepare \/ InvalidState(PREPARE, {"Initialized"})
    \/ DoStart \/ InvalidState(START, {"Prepared", "Paused"})
    \/ DoStop \/ InvalidState(STOP, {"Started", "Paused"})
    \/ DoPause \/ InvalidState(PAUSE, {"Started"})
    \/ DoFlush \/ InvalidState(FLUSH, {"Started", "Paused"})
    \/ DoReset \/ InvalidState(RESET, {"Idle", "Initialized", "Prepared"})
    \/ DoRequestPort \/ DoReleasePort

-----------------------------------------------------------------------------
(***************************************************************************)
(* The client of the node.  It asks for a port only if there is none, and  *)
(* starts and flushes the node only if there is one.                       *)
(***************************************************************************)
Queued(cs) == \E i \in DOMAIN cmds : cmds[i] \in cs

Sensible(c) ==
    /\ c = REQUESTPORT => ~port /\ ~Queued({REQUESTPORT})
    /\ c \in {START, FLUSH} => port /\ ~Queued({RELEASEPORT, RESET})

QueueCommand(c) ==
    /\ pc = "idle"
    /\ Sensible(c)
    /\ Len(cmds) < MaxCmds /\ issued < use.issued
    /\ cmds' = Append(cmds, c)
    /\ nodeReady' = TRUE
    /\ issued' = issued + 1
    /\ UNCHANGED <<portVars, state, cur, ioVars, pc, hand, fed>>

ClientConnect ==
    /\ pc = "idle" /\ port
    /\ Connect(lb, peer)
    /\ UNCHANGED <<nodeVars, ioVars, pc, hand, envVars>>

ClientDisconnect ==
    /\ pc = "idle"
    /\ Disconnect(lb)
    /\ UNCHANGED <<nodeVars, ioVars, pc, hand, envVars>>

ClientStep ==
    \/ \E c \in use.commands : QueueCommand(c)
    \/ "connect" \in use.links /\ ClientConnect
    \/ "disconnect" \in use.links /\ ClientDisconnect

-----------------------------------------------------------------------------
\* The node at the other end: it feeds messages, sends what its port holds
\* and takes what comes back.
PeerFeed ==
    /\ pc = "idle" /\ fed < use.fed
    /\ QueueOutgoingMsg(peer, fed + 1)
    /\ fed' = fed + 1
    /\ HandlePortActivity(FALSE)
    /\ UNCHANGED <<nodeVars, pc, hand, issued>>

PeerSend ==
    /\ pc = "idle"
    /\ Send(peer)
    /\ HandlePortActivity(FALSE)
    /\ UNCHANGED <<nodeVars, pc, hand, envVars>>

PeerTake ==
    /\ pc = "idle"
    /\ DequeueIncomingMsg(peer)
    /\ HandlePortActivity(FALSE)
    /\ UNCHANGED <<nodeVars, pc, hand, envVars>>

LoopNext ==
    /\ NodeStep \/ PortStep \/ ClientStep \/ PeerFeed \/ PeerSend \/ PeerTake
    /\ UNCHANGED use

LoopSpec == LoopInit /\ [][LoopNext]_loopVars

\* The scheduler runs every ready object; the other node, in the same
\* thread, serves its port likewise.
FairLoopSpec ==
    /\ LoopSpec
    /\ WF_loopVars(NodeStep /\ UNCHANGED use) /\ WF_loopVars(PortStep /\ UNCHANGED use)
    /\ WF_loopVars(PeerSend /\ UNCHANGED use) /\ WF_loopVars(PeerTake /\ UNCHANGED use)

-----------------------------------------------------------------------------
(***************************************************************************)
(* "Wakeup the AO on the first message only -- after that it re-schedules  *)
(* itself as needed": a started node between two Runs, whose port could    *)
(* move or send a message, is in the ready queue.                          *)
(***************************************************************************)
NoLostWakeup ==
    pc = "idle" /\ state = "Started" /\ port /\ ~portReady
    => /\ inQ[lb] = <<>> \/ waiting
       /\ outQ[lb] = <<>> \/ connBusy[lb]

(***************************************************************************)
(* Stop "discards any un-processed data": a node that is not started,      *)
(* paused or flushing has nothing to send and waits for nothing, so that   *)
(* the next start begins afresh.                                           *)
(***************************************************************************)
StoppedIsClean ==
    state \in {"Idle", "Initialized", "Prepared"}
    => outQ[lb] = <<>> /\ ~waiting /\ hand = <<>>

\* Everything on the way from the other node through the loopback port and
\* back, the oldest message first.
underway == inQ[peer] \o outQ[lb] \o hand \o inQ[lb] \o outQ[peer]

\* The client does not stop, flush or take away what is under way.
Undisturbed ==
    /\ use.commands \cap {RELEASEPORT, STOP, FLUSH, RESET} = {}
    /\ "disconnect" \notin use.links

\* While the node stays started, all that is fed comes back and is taken
\* (HandlePortActivity, PVMFLoopbackIOPort::Run).
EchoDrains ==
    Undisturbed /\ <>[](state = "Started" /\ fed = use.fed) => <>[](underway = <<>>)

(***************************************************************************)
(* Every command is answered, in every use and whatever is stopped, reset  *)
(* or released: the queue and the current command run empty                *)
(* (PVMFLoopbackNode::Run), unless the node has accepted a flush, which    *)
(* stays the current command and keeps the others waiting.                 *)
(***************************************************************************)
CommandsAnswered ==
    (cmds # <<>> \/ cur # <<>>) ~> (cmds = <<>> /\ cur = <<>>) \/ cur = <<FLUSH>>

(***************************************************************************)
(* DoFlush makes a flush the current command, "where it will remain until  *)
(* the flush completes": when the queues of the port have run empty, Run   *)
(* is to answer it.                                                        *)
(***************************************************************************)
FlushCompletes == cur = <<FLUSH>> ~> cur = <<>>
=============================================================================
