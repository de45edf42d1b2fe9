-------------------------------- MODULE Srp --------------------------------
(***************************************************************************)
(* SRP (h324/srp/src/srp.cpp): the retransmission layer that carries the   *)
(* H.245 control channel of the 3G-324M terminal, here two terminals over  *)
(* the multiplex, a pair of first-in first-out channels that lose frames   *)
(* (a frame whose check sequence is wrong is a lost frame).                *)
(*                                                                         *)
(* An H.245 message is cut into numbered chunks.  In SRP and NSRP mode one *)
(* chunk at a time is under way; an SRP response carries no number, an     *)
(* NSRP response does.  In WNSRP mode a window of chunks is under way.     *)
(* With WNSRP_TX_SUPPORT a terminal sends each chunk both ways until it    *)
(* finds out what its peer understands.                                    *)
(*                                                                         *)
(* A terminal is a record, and each method of SRP a function of it; what   *)
(* the method hands to the lower and the upper layer is gathered in the    *)
(* fields tx and up, which are empty between steps.                        *)
(***************************************************************************)
EXTENDS Integers, Sequences, FiniteSets, SequencesExt

CONSTANTS
    Peer,         \* the two terminals
    Calls,        \* kinds of call: is it on multiplex level 0, and on which
                  \* terminals is WNSRP enabled
    MsgsOf,       \* how many messages H.245 sends at each terminal
    Chunks,       \* into how many chunks a message may be cut
    SeqSpace,     \* sequence numbers are modulo this, 256 in the code
    Window,       \* iWNSRPTxWindow = iWNSRPRxWindow
    N400Max,      \* iN400MaxCounter
    N402Max,      \* iN402MaxCounter
    NumTxMsgs,    \* iNumTxMsgs: the chunks for which there are buffers
    LinkCap,      \* bound of the model: frames under way in one direction
    MaxLoss       \* bound of the model: frames lost in a call

ASSUME SrpAssumption ==
    /\ \E p, q \in Peer : p # q /\ Peer = {p, q}
    /\ Calls \subseteq [level0 : BOOLEAN, wnsrp : SUBSET Peer]
    /\ MsgsOf \in [Peer -> Nat]
    /\ Chunks \subseteq Nat \ {0}
    /\ {SeqSpace, Window, N400Max, N402Max, LinkCap, NumTxMsgs} \subseteq Nat \ {0}
    /\ MaxLoss \in Nat
    /\ Window < SeqSpace /\ NumTxMsgs < SeqSpace

VARIABLES
    ep,       \* the SRP object of each terminal
    call,     \* the kind of this call
    link,     \* the frames under way to each terminal
    lost,     \* how many were lost
    sent,     \* the messages H.245 has sent at each terminal
    rcvd,     \* the messages H.245 has received at each terminal
    failed    \* TransmissionFailure was reported at the terminal

vars == <<ep, call, link, lost, sent, rcvd, failed>>

Other(p) == CHOOSE q \in Peer : q # p

NextSeq(n) == (n + 1) % SeqSpace

-----------------------------------------------------------------------------
(* Frames, timers and the terminal.                                        *)

\* The payload of a chunk is its position in what its terminal sent.
Chunk(seq, data, last) == [seq |-> seq, data |-> data, last |-> last]

CommandHeader  == {"SRP_COMMAND", "WNSRP_COMMAND"}
ResponseHeader == {"SRP_RESPONSE", "NSRP_RESPONSE", "WNSRP_RESPONSE"}

SrpCommandCreate(chunk, header) == [header |-> header, chunk |-> chunk]

\* An SRP response has no sequence number.
SrpResponseCreate(seq, header) ==
    [header |-> header,
     chunk  |-> Chunk(IF header = "SRP_RESPONSE" THEN 0 ELSE seq, 0, FALSE)]

\* SrpT401Start: an SRPRespTimer that is running for a command.
SrpT401Start(frame) == [pkt |-> frame, n400 |-> 0]

TimerSeq(t) == t.pkt.chunk.seq

LowerLayerTx(s, frames) == [s EXCEPT !.tx = @ \o frames]

\* The constructor, ConfigureSrp and SrpStart.
SrpStart(p, c) ==
    [status        |-> "IDLE",
     wnsrp         |-> IF p \in c.wnsrp /\ ~c.level0
                       THEN "WNSRP_TX" ELSE "NO_WNSRP",
     handleWNSRP   |-> p \in c.wnsrp /\ ~c.level0,
     useNSRP       |-> ~c.level0,
     firstNSRPResp |-> FALSE,
     firstCmd      |-> TRUE,
     sendSeq       |-> 0,
     recvSeq       |-> 0,
     oldest        |-> (0 - ((SeqSpace - Window) \div 2)) % SeqSpace,
     n402          |-> 0,
     queue         |-> <<>>,  \* iSrpWaitQueue
     save          |-> <<>>,  \* iSrpCommandSave: empty or one running timer
     active        |-> <<>>,  \* iActiveWnsrpCommandSave
     pending       |-> <<>>,  \* iPendingRxFragList
     buffer        |-> <<>>,  \* iFrag: the part of a message received so far
     tx            |-> <<>>,
     up            |-> <<>>]

Init ==
    /\ call \in Calls
    /\ ep = [p \in Peer |-> SrpStart(p, call)]
    /\ link = [p \in Peer |-> <<>>]
    /\ lost = 0
    /\ sent = [p \in Peer |-> <<>>]
    /\ rcvd = [p \in Peer |-> <<>>]
    /\ failed = [p \in Peer |-> FALSE]

-----------------------------------------------------------------------------
(* WNSRP status, wait queue and timers.                                    *)

\* As WnsrpStatusSet, but settling on WNSRP stops every timer.
WnsrpStopsAll(s, new) ==
    [s EXCEPT !.wnsrp = new, !.active = <<>>,
              !.save = IF new = "WNSRP_FULL" THEN <<>> ELSE @]

\* Giving up WNSRP stops the window's timers, settling on it the SRP timer.
WnsrpStatusSet(s, new) ==
    CASE new = "NO_WNSRP"   -> [s EXCEPT !.wnsrp = new, !.active = <<>>]
      [] new = "WNSRP_FULL" -> [s EXCEPT !.wnsrp = new, !.save = <<>>]
      [] new = "WNSRP_TX"   -> [s EXCEPT !.wnsrp = new]

\* The first chunk with this number leaves the wait queue.
SrpCommandClear(s, seq) ==
    LET hits == {i \in DOMAIN s.queue : s.queue[i].seq = seq} IN
    IF hits = {} THEN s ELSE [s EXCEPT !.queue = RemoveAt(@, Min(hits))]

RemoveActiveWnsrpTimer(s, i) == [s EXCEPT !.active = RemoveAt(@, i)]

ActiveWith(s, seq) == {i \in DOMAIN s.active : TimerSeq(s.active[i]) = seq}

\* The head of the wait queue goes out as an SRP command.
SendSrpCommand(s) ==
    LET f == SrpCommandCreate(Head(s.queue), "SRP_COMMAND") IN
    LowerLayerTx([s EXCEPT !.save = <<SrpT401Start(f)>>], <<f>>)

\* The chunks of the wait queue up to position n that are not under way.
SendWnsrpCommands(s, n) ==
    LET new == SubSeq(s.queue, Len(s.active) + 1, n)
        f   == [i \in DOMAIN new |-> SrpCommandCreate(new[i], "WNSRP_COMMAND")]
    IN  LowerLayerTx([s EXCEPT !.active =
                          @ \o [i \in DOMAIN f |-> SrpT401Start(f[i])]], f)

FillWindow(s) == SendWnsrpCommands(s, Min({Window, Len(s.queue)}))

-----------------------------------------------------------------------------
(* The sender.                                                             *)

\* A message while idle.
Srp_0_1(s) ==
    LET s1 == IF s.wnsrp = "WNSRP_FULL" THEN s ELSE SendSrpCommand(s)
        s2 == IF s.wnsrp = "NO_WNSRP" THEN s1 ELSE FillWindow(s1)
    IN  [s2 EXCEPT !.status = "WAIT_RESPONSE"]

\* A message while waiting for responses.
Srp_1_1(s) == IF s.wnsrp = "NO_WNSRP" THEN s ELSE FillWindow(s)

\* As SendNext, but what waits is not sent.
SendNextForgets(s) ==
    IF s.save = <<>> /\ s.active = <<>> THEN [s EXCEPT !.status = "IDLE"] ELSE s

\* The end of Srp_1_3: the next chunk goes out in each mode that is in use.
SendNext(s) ==
    LET s1 == IF s.wnsrp = "WNSRP_FULL" \/ s.queue = <<>>
              THEN s ELSE SendSrpCommand(s)
        s2 == IF s.wnsrp = "NO_WNSRP" \/ Len(s.active) >= Len(s.queue)
              THEN s1 ELSE SendWnsrpCommands(s1, Len(s.active) + 1)
    IN  IF s2.save = <<>> /\ s2.active = <<>>
        THEN [s2 EXCEPT !.status = "IDLE"] ELSE s2

\* A WNSRP response: what was sent before the chunk and is still
\* unanswered is sent again at once.
OnWnsrpResponse(s, seq) ==
    LET s1 == SrpCommandClear(s, seq)
        i  == Min(ActiveWith(s1, seq))
        s2 == [s1 EXCEPT !.active =
                   [k \in DOMAIN @ |-> IF k < i THEN [@[k] EXCEPT !.n400 = 1]
                                       ELSE @[k]]]
    IN  IF ActiveWith(s1, seq) = {} THEN s1
        ELSE SendNext(RemoveActiveWnsrpTimer(
                 LowerLayerTx(s2, [k \in 1..i - 1 |-> s.active[k].pkt]), i))

\* As OnNsrpResponse, but the number of the response is not looked at.
NsrpResponseAnyNumber(s, seq) ==
    IF s.save = <<>> THEN s
    ELSE LET s1 == SrpCommandClear(s, TimerSeq(s.save[1])) IN
         SendNext([s1 EXCEPT !.save = <<>>,
                             !.active = IF @ = <<>> THEN @ ELSE Tail(@)])

OnNsrpResponse(s, seq) ==
    LET s1 == SrpCommandClear(s, seq)
        s2 == IF ActiveWith(s1, seq) = {} THEN s1
              ELSE RemoveActiveWnsrpTimer(s1, Min(ActiveWith(s1, seq)))
    IN  IF s2.save # <<>> /\ TimerSeq(s2.save[1]) = seq
        THEN SendNext([s2 EXCEPT !.save = <<>>]) ELSE s2

\* An SRP response answers whatever SRP command is under way.
OnSrpResponse(s) ==
    LET s1 == IF s.active = <<>> THEN s ELSE RemoveActiveWnsrpTimer(s, 1)
        s2 == SrpCommandClear(s1, TimerSeq(s.save[1]))
    IN  IF s.save = <<>> THEN s ELSE SendNext([s2 EXCEPT !.save = <<>>])

\* Srp_1_3: a response while waiting for one.
Srp_1_3(s, frame, event) ==
    CASE event = "WNSRP_RESPONSE" -> OnWnsrpResponse(s, frame.chunk.seq)
      [] event = "NSRP_RESPONSE"  -> OnNsrpResponse(s, frame.chunk.seq)
      [] event = "RESPONSE"       -> OnSrpResponse(s)

SrpN400Check(t) == t.n400 < N400Max

\* Srp_1_4 with retries left.  The timer of an active WNSRP command is named
\* by its place in the list, the SRP timer by 0; both go on running.
Resend(s, i) ==
    IF i = 0 THEN LowerLayerTx([s EXCEPT !.save[1].n400 = @ + 1], <<s.save[1].pkt>>)
    ELSE LowerLayerTx([s EXCEPT !.active[i].n400 = @ + 1], <<s.active[i].pkt>>)

\* Srp_1_4 without: the command is dropped and the failure reported.
GiveUp(s, i) ==
    IF i = 0 THEN [SrpCommandClear(s, TimerSeq(s.save[1])) EXCEPT !.save = <<>>]
    ELSE RemoveActiveWnsrpTimer(SrpCommandClear(s, TimerSeq(s.active[i])), i)

-----------------------------------------------------------------------------
(* The receiver.                                                           *)

\* The chunk numbers that CheckRxSeqNum lets in, both ends included.
InRxWindow(s, seq) ==
    LET end == (s.recvSeq + Window) % SeqSpace IN
    IF end > s.recvSeq THEN s.recvSeq <= seq /\ seq <= end
    ELSE s.recvSeq <= seq \/ seq <= end

CheckWNSRPRetrans(s, seq) ==
    IF s.oldest < s.recvSeq THEN s.oldest < seq /\ seq < s.recvSeq
    ELSE seq < s.recvSeq \/ s.oldest < seq

CheckPendingRxList(s, seq) == \E i \in DOMAIN s.pending : s.pending[i].seq = seq

\* CheckRxSeqNum: is the chunk taken, only answered again, or ignored?
CheckRxSeqNum(s, seq, header) ==
    IF header = "WNSRP_RESPONSE"
    THEN CASE CheckPendingRxList(s, seq)                            -> "answer"
           [] ~CheckPendingRxList(s, seq) /\ InRxWindow(s, seq)     -> "take"
           [] ~InRxWindow(s, seq) /\ CheckWNSRPRetrans(s, seq)      -> "answer"
           [] OTHER                                                 -> "ignore"
    ELSE CASE seq = s.recvSeq          -> "take"
           [] NextSeq(seq) = s.recvSeq -> "answer"
           [] OTHER                    -> "ignore"

\* Ahead of the first chunk with a larger number.
AddPendingRxFrag(s, chunk) ==
    LET larger == {i \in DOMAIN s.pending : s.pending[i].seq > chunk.seq} IN
    [s EXCEPT !.pending = IF larger = {} THEN Append(@, chunk)
                          ELSE InsertAt(@, Min(larger), chunk)]

\* The loop of Srp_0_2: the head of the list goes up while it is the chunk
\* that is expected next.
DeliverPending(s) ==
    LET inOrder == {n \in 0..Len(s.pending) :
                      \A i \in 1..n :
                        s.pending[i].seq = (s.recvSeq + i - 1) % SeqSpace}
        n == Max(inOrder)
    IN  [s EXCEPT !.up      = SubSeq(s.pending, 1, n),
                  !.pending = SubSeq(@, n + 1, Len(@)),
                  !.recvSeq = (@ + n) % SeqSpace,
                  !.oldest  = (@ + n) % SeqSpace]

\* Srp_0_2: a command.  SrpMsgCopy needs a free SRPRxData, of which there are
\* iWNSRPRxWindow; without one the chunk is not answered.
Srp_0_2(s, frame, event) ==
    LET seq    == frame.chunk.seq
        header == CASE event = "WNSRP_COMMAND" -> "WNSRP_RESPONSE"
                    [] event = "COMMAND" /\ s.useNSRP -> "NSRP_RESPONSE"
                    [] OTHER -> "SRP_RESPONSE"
        s1 == IF ~s.firstCmd THEN s
              ELSE [s EXCEPT !.firstCmd = FALSE,
                             !.recvSeq = IF event = "WNSRP_COMMAND" THEN 0 ELSE seq]
        answered == LowerLayerTx(s1, <<SrpResponseCreate(seq, header)>>)
        check == CheckRxSeqNum(s1, seq, header)
    IN  CASE check = "ignore" -> s1
          [] check = "answer" -> answered
          [] check = "take" /\ Len(s1.pending) >= Window -> s1
          [] OTHER ->
                DeliverPending(AddPendingRxFrag(answered, frame.chunk))

-----------------------------------------------------------------------------
(* Events.                                                                 *)

\* An SRP or NSRP response counts against WNSRP while that is still open.
CountN402(s) ==
    IF s.wnsrp # "WNSRP_TX" THEN s
    ELSE LET s1 == [s EXCEPT !.n402 = @ + 1] IN
         IF s1.n402 < N402Max THEN s1 ELSE WnsrpStatusSet(s1, "NO_WNSRP")

\* What a valid frame does to the terminal before it becomes an event.
SrpNoteFrame(s, frame) ==
    CASE frame.header = "SRP_COMMAND" ->
            IF s.wnsrp = "WNSRP_TX" /\ s.firstCmd /\ frame.chunk.seq # 0
            THEN WnsrpStatusSet(s, "NO_WNSRP") ELSE s
      [] frame.header = "SRP_RESPONSE"  -> CountN402(s)
      [] frame.header = "NSRP_RESPONSE" ->
            LET s1 == CountN402(s) IN
            [s1 EXCEPT !.firstNSRPResp = @ \/ s1.useNSRP]
      [] frame.header \in {"WNSRP_COMMAND", "WNSRP_RESPONSE"} ->
            IF s.handleWNSRP /\ s.wnsrp = "WNSRP_TX"
            THEN WnsrpStatusSet(s, "WNSRP_FULL") ELSE s

\* SrpGetEventNoFromAL1, after SrpNoteFrame.
SrpGetEvent(s, frame) ==
    CASE frame.header = "SRP_COMMAND" -> "COMMAND"
      [] frame.header = "SRP_RESPONSE" ->
            IF s.useNSRP /\ s.firstNSRPResp THEN "NOP" ELSE "RESPONSE"
      [] frame.header = "NSRP_RESPONSE" ->
            IF s.useNSRP THEN "NSRP_RESPONSE" ELSE "RESPONSE"
      [] frame.header \in {"WNSRP_COMMAND", "WNSRP_RESPONSE"} ->
            IF s.handleWNSRP /\ s.wnsrp # "NO_WNSRP"
            THEN frame.header ELSE "NOP"

\* The columns of iSrpStateTable for the event of a frame.
SrpFrame(s, frame) ==
    LET event == SrpGetEvent(s, frame) IN
    CASE event \in {"COMMAND", "WNSRP_COMMAND"} -> Srp_0_2(s, frame, event)
      [] event \in {"RESPONSE", "NSRP_RESPONSE", "WNSRP_RESPONSE"} ->
            IF s.status = "IDLE" THEN s ELSE Srp_1_3(s, frame, event)
      [] event = "NOP" -> s

\* As BufferReceive, but the buffer is not emptied after a message.
BufferNotReset(r, chunk) ==
    LET buffer == Append(r.buffer, chunk.data) IN
    [buffer |-> buffer,
     pdus |-> IF chunk.last THEN Append(r.pdus, buffer) ELSE r.pdus]

\* TscSrpBufferLLPortIn::Receive: chunks are put together up to the one
\* marked last; r.pdus are the messages passed on to H.245.
BufferReceive(r, chunk) ==
    LET buffer == Append(r.buffer, chunk.data) IN
    IF chunk.last THEN [buffer |-> <<>>, pdus |-> Append(r.pdus, buffer)]
    ELSE [r EXCEPT !.buffer = buffer]

Reassemble(s) == FoldLeft(BufferReceive, [buffer |-> s.buffer, pdus |-> <<>>], s.up)

\* The outcome of a method at p: frames go on the link, where those beyond
\* LinkCap are lost, and messages go up to H.245.
Commit(p, s, rest) ==
    LET q == Other(p) IN
    /\ ep' = [ep EXCEPT ![p] = [s EXCEPT !.buffer = Reassemble(s).buffer,
                                         !.tx = <<>>, !.up = <<>>]]
    /\ rcvd' = [rcvd EXCEPT ![p] = @ \o Reassemble(s).pdus]
    /\ LET out == link[q] \o s.tx IN
       link' = [link EXCEPT ![p] = rest,
                            ![q] = SubSeq(out, 1, Min({LinkCap, Len(out)}))]
    /\ UNCHANGED call

-----------------------------------------------------------------------------
(* Actions.                                                                *)

Pdu(n, k) == [i \in 1..k |-> n + i]

\* How many chunks H.245 has had p send: the position of the last one.
ChunksSent(p) == IF sent[p] = <<>> THEN 0 ELSE Last(Last(sent[p]))

\* UpperLayerRx: H.245 sends a message of k chunks.  One for which there are
\* not enough buffers is dropped before it takes a number; as nothing else
\* happens then, that is no step here.
UpperLayerRx(p, k) ==
    LET s == ep[p]
        n == ChunksSent(p)
        new == [i \in 1..k |->
                  Chunk((s.sendSeq + i - 1) % SeqSpace, n + i, i = k)]
        s1 == [s EXCEPT !.queue = @ \o new, !.sendSeq = (@ + k) % SeqSpace]
    IN  /\ ~failed[p] /\ Len(sent[p]) < MsgsOf[p]
        /\ call.level0 => k = 1
        /\ Len(s.queue) + k <= NumTxMsgs
        /\ sent' = [sent EXCEPT ![p] = Append(@, Pdu(n, k))]
        /\ Commit(p, IF s.status = "IDLE" THEN Srp_0_1(s1) ELSE Srp_1_1(s1), link[p])
        /\ UNCHANGED <<lost, failed>>

\* LowerLayerRx: the next frame arrives intact.
LowerLayerRx(p) ==
    /\ ~failed[p] /\ link[p] # <<>>
    /\ \E s \in {SrpNoteFrame(ep[p], Head(link[p]))} :
       \E t \in {SrpFrame(s, Head(link[p]))} : Commit(p, t, Tail(link[p]))
    /\ UNCHANGED <<lost, sent, failed>>

\* LowerLayerRx: the next frame is damaged, or it does not arrive.
LoseFrame(p) ==
    /\ link[p] # <<>> /\ lost < MaxLoss
    /\ link' = [link EXCEPT ![p] = Tail(@)]
    /\ lost' = lost + 1
    /\ UNCHANGED <<ep, call, sent, rcvd, failed>>

\* The running timers of a terminal: 0 is iSrpCommandSave, the others are
\* places in iActiveWnsrpCommandSave.
Timers(s) == (IF s.save = <<>> THEN {} ELSE {0}) \cup DOMAIN s.active

TimerOf(s, i) == IF i = 0 THEN s.save[1] ELSE s.active[i]

\* TimeoutOccurred and Srp_1_4 with retries left.  A timeout does nothing to
\* an idle terminal.
Retransmit(p) ==
    /\ ~failed[p] /\ ep[p].status = "WAIT_RESPONSE"
    /\ Len(link[Other(p)]) < LinkCap
    /\ \E i \in Timers(ep[p]) :
         /\ SrpN400Check(TimerOf(ep[p], i))
         /\ Commit(p, Resend(ep[p], i), link[p])
    /\ UNCHANGED <<lost, sent, failed>>

\* TimeoutOccurred and Srp_1_4 without: TransmissionFailure ends the call.
TransmissionFailure(p) ==
    /\ ~failed[p] /\ ep[p].status = "WAIT_RESPONSE"
    /\ \E i \in Timers(ep[p]) :
         /\ ~SrpN400Check(TimerOf(ep[p], i))
         /\ Commit(p, GiveUp(ep[p], i), link[p])
    /\ failed' = [failed EXCEPT ![p] = TRUE]
    /\ UNCHANGED <<lost, sent>>

\* SrpStop, by which the terminal controller ends the call after a failure.
SrpStop(p) ==
    LET s == ep[p]
        stopped == [s EXCEPT !.save = <<>>, !.active = <<>>, !.wnsrp = "WNSRP_TX",
                             !.queue = <<>>, !.pending = <<>>, !.useNSRP = FALSE]
    IN  /\ failed[p] /\ s # stopped
        /\ ep' = [ep EXCEPT ![p] = stopped]
        /\ UNCHANGED <<call, link, lost, sent, rcvd, failed>>

\* UseNSRP(true): on level 0 once the peer has signalled that it knows NSRP.
UseNSRP(p) ==
    /\ call.level0 /\ ~failed[p] /\ ~ep[p].useNSRP
    /\ ep' = [ep EXCEPT ![p].useNSRP = TRUE, ![p].firstNSRPResp = FALSE]
    /\ UNCHANGED <<call, link, lost, sent, rcvd, failed>>

\* DisableWNSRPSupport: the peer uses multiplex entry 15 for something else,
\* which a terminal without WNSRP may do.
DisableWNSRPSupport(p) ==
    /\ ~failed[p] /\ Other(p) \notin call.wnsrp /\ ep[p].handleWNSRP
    /\ LET s == IF ep[p].wnsrp = "WNSRP_TX"
                THEN WnsrpStatusSet(ep[p], "NO_WNSRP") ELSE ep[p]
       IN  ep' = [ep EXCEPT ![p] = [s EXCEPT !.handleWNSRP = FALSE]]
    /\ UNCHANGED <<call, link, lost, sent, rcvd, failed>>

Next ==
    \E p \in Peer :
        \/ \E k \in Chunks : UpperLayerRx(p, k)
        \/ LowerLayerRx(p)
        \/ LoseFrame(p)
        \/ Retransmit(p)
        \/ TransmissionFailure(p)
        \/ SrpStop(p)
        \/ UseNSRP(p)
        \/ DisableWNSRPSupport(p)

\* A frame under way arrives or is lost; a timer that runs expires.  The
\* first conjunct is WF_vars(LowerLayerRx(p)), with the condition under
\* which a frame can arrive written out.
Fairness ==
    \A p \in Peer :
        /\ []<>(failed[p] \/ link[p] = <<>>) \/ []<><<LowerLayerRx(p)>>_vars
        /\ WF_vars(Retransmit(p) \/ TransmissionFailure(p))

Spec == Init /\ [][Next]_vars

FairSpec == Spec /\ Fairness

-----------------------------------------------------------------------------
(* Properties.                                                             *)

ChunkSet == [seq : 0..SeqSpace - 1, data : Nat, last : BOOLEAN]

FrameSet == [header : CommandHeader \cup ResponseHeader, chunk : ChunkSet]

TimerSet == [pkt : FrameSet, n400 : 0..N400Max]

TypeOK ==
    /\ call \in Calls /\ lost \in 0..MaxLoss
    /\ failed \in [Peer -> BOOLEAN]
    /\ \A p \in Peer :
         /\ link[p] \in Seq(FrameSet) /\ Len(link[p]) <= LinkCap
         /\ sent[p] \in Seq(Seq(Nat)) /\ rcvd[p] \in Seq(Seq(Nat))
         /\ ep[p].status \in {"IDLE", "WAIT_RESPONSE"}
         /\ ep[p].wnsrp \in {"NO_WNSRP", "WNSRP_TX", "WNSRP_FULL"}
         /\ {ep[p].sendSeq, ep[p].recvSeq, ep[p].oldest} \subseteq 0..SeqSpace - 1
         /\ ep[p].n402 \in 0..N402Max
         /\ ep[p].queue \in Seq(ChunkSet) /\ ep[p].pending \in Seq(ChunkSet)
         /\ ep[p].save \in Seq(TimerSet) /\ Len(ep[p].save) <= 1
         /\ ep[p].active \in Seq(TimerSet)
         /\ ep[p].buffer \in Seq(Nat)

\* A chunk that waits has a timer behind it: no sequence of responses, late
\* responses of another mode and changes of mode leaves the head of the wait
\* queue without a running timer, and a terminal goes idle only with nothing
\* left to send.  Nor does it ever need more timers than the window has, so
\* GetFreeWnsrpTimer, whose result is used unchecked, finds one.
TimersCoverQueue ==
    \A p \in Peer : ~failed[p] =>
        LET s == ep[p] IN
        /\ s.queue # <<>> =>
             \E i \in Timers(s) : TimerSeq(TimerOf(s, i)) = s.queue[1].seq
        /\ s.status = "IDLE" => s.queue = <<>> /\ Timers(s) = {}
        /\ Len(s.active) <= Window

\* The chunks of p's call that its peer has passed up or holds back until
\* the gap before them is filled.
Received(p) ==
    LET q == Other(p) IN
    Range(FlattenSeq(rcvd[q])) \cup Range(ep[q].buffer)
        \cup {c.data : c \in Range(ep[q].pending)}

\* A response answers the chunk it was made for: a chunk that has left the
\* wait queue of a terminal that is not in failure has reached the other
\* terminal, even when responses come late, twice, or after a change of
\* mode.  (On level 0 responses have no number, and this does not hold.)
AckedWasReceived ==
    \A p \in Peer : ~call.level0 /\ ~failed[p] /\ ~failed[Other(p)] =>
        Range(FlattenSeq(sent[p])) \subseteq
            Received(p) \cup {c.data : c \in Range(ep[p].queue)}

\* Every message that H.245 sends arrives, unless a failure is reported: no
\* loss of frames leaves both terminals waiting.
SentArrives ==
    \A p \in Peer : \A n \in 1..MsgsOf[p] :
        (~call.level0 /\ Len(sent[p]) >= n) ~>
            (Len(rcvd[Other(p)]) >= n \/ \E q \in Peer : failed[q])
=============================================================================
