----------------------------- MODULE MCPvmfPort -----------------------------
(***************************************************************************)
(* Two ports of PvmfPort in one of several uses: a use says which ports    *)
(* are sent on and what is called besides the data path.                   *)
(***************************************************************************)
EXTENDS PvmfPort

CONSTANTS
    src, snk,  \* the two ports
    Uses       \* the uses, records of the senders and the calls

ASSUME UsesAssumption == Uses \subseteq [senders : SUBSET Port, ops : SUBSET PortOps]

VARIABLE use   \* one of Uses

useVars == <<portVars, use>>

UseInit == Init /\ use \in Uses

UseNext ==
    /\ DataStep(use.senders) \/ ControlStep(use.ops)
    /\ UNCHANGED use

UseSpec == UseInit /\ [][UseNext]_useVars

\* Everything but a change of size, in both directions; and one direction
\* that is only sent on and received from, while the sizes change.
MCUses ==
    {[senders |-> {src, snk}, ops |-> {"connect", "disconnect", "clear", "suspend"}],
     [senders |-> {src}, ops |-> {"connect", "insize", "outsize"}]}

-----------------------------------------------------------------------------
(***************************************************************************)
(* As long as connections are not broken, a port that has stopped sending  *)
(* waits for a port that is really busy, and therefore for a               *)
(* ReadyToReceive that will come.  Disconnect does not reset               *)
(* iConnectedPortBusy, which is why the uses with it are excepted.         *)
(***************************************************************************)
SenderWaitsForBusyPort == "disconnect" \notin use.ops => WaitsForBusyPort

\* The direction from src to snk as a channel: the receiver's incoming queue
\* is ahead of the sender's outgoing queue.
underway == inQ[snk] \o outQ[src]

Channel == INSTANCE MediaChannel WITH chan <- underway

\* Messages pass from src to snk in order, each at most once; what is lost
\* is lost by clearing, disconnecting or a suspended input.
ImplementsLossyChannel == Channel!Lossy

\* The uses that neither break the connection nor throw messages away.
Lossless == use.ops \cap {"disconnect", "clear", "suspend"} = {}

\* On a connection that is only sent to and received from, none is lost
\* (QueueOutgoingMsg, Send, Receive, DequeueIncomingMsg, SetCapacity).
ImplementsReliableChannel ==
    Channel!Init /\ [][Lossless => Channel!Put \/ Channel!Get]_underway
=============================================================================
