----------------------------- MODULE SrpProofs -----------------------------
(***************************************************************************)
(* What is proved about SRP, for every number of messages and chunks whose *)
(* sequence numbers do not wrap, every window of at least two, and any     *)
(* loss of frames.                                                         *)
(*                                                                         *)
(* No chunk is left in the wait queue without a running timer              *)
(* (TimersCoverQueue).  The property is not inductive.  What it rests on   *)
(* is how the two modes share the queue: the SRP timer is always that of   *)
(* the head of the queue, and the window's timers are those of a prefix of *)
(* it.  A late NSRP response can take the head away after the terminal has *)
(* settled on WNSRP, without sending anything in its place; the second     *)
(* chunk of the window then becomes the head, and its timer is the one     *)
(* that is left.  So the invariant also says where such late numbers can   *)
(* point: to nothing behind the head (Late), and to the head only while at *)
(* least two chunks are under way or none waits (TwoUnderWay).             *)
(*                                                                         *)
(* The receiver's list of early chunks rises strictly and lies between the *)
(* expected number and those the peer has given out (RecvInv), which the   *)
(* numbers of all commands under way are known to be (RxInv).              *)
(*                                                                         *)
(* The two directions of a call are reliable transports                    *)
(* (ImplementsTransport).  For each, Flows says that every chunk in a wait *)
(* queue, behind a timer, on the link or held back is the chunk of the     *)
(* messages sent that its number names, and that the messages that have    *)
(* come out, the chunks in the buffer and the number expected next are at  *)
(* one place in what was sent (Assembled).                                 *)
(*                                                                         *)
(* What has left a wait queue has been received (AckedWasReceived): a      *)
(* chunk waits or the peer has it, and every response under way answers    *)
(* one that the peer has (AckOf).                                          *)
(***************************************************************************)
EXTENDS MCSrp, SequenceTheorems, WellFoundedInduction, TLAPS

-----------------------------------------------------------------------------
(* The inductive invariant.                                                *)

\* The fields of a terminal.
Fields == {"status", "wnsrp", "handleWNSRP", "useNSRP", "firstNSRPResp",
           "firstCmd", "sendSeq", "recvSeq", "oldest", "n402", "queue", "save",
           "active", "pending", "buffer", "tx", "up"}

\* The types of the sender's state.
Terminal(s) ==
    /\ DOMAIN s = Fields
    /\ s.status \in {"IDLE", "WAIT_RESPONSE"}
    /\ s.wnsrp \in {"NO_WNSRP", "WNSRP_TX", "WNSRP_FULL"}
    /\ s.sendSeq \in Nat
    /\ s.queue \in Seq(ChunkSet)
    /\ s.save \in Seq(TimerSet) /\ Len(s.save) <= 1
    /\ s.active \in Seq(TimerSet)
    /\ s.tx \in Seq(FrameSet)

\* The wait queue is in the order of the numbers, all of them given out.
Ordered(s) ==
    /\ \A i, j \in DOMAIN s.queue : i < j => s.queue[i].seq < s.queue[j].seq
    /\ \A i \in DOMAIN s.queue : s.queue[i].seq < s.sendSeq

\* The timers of the window are those of the first chunks of the queue.
WindowIsPrefix(s) ==
    /\ Len(s.active) <= Len(s.queue) /\ Len(s.active) <= Window
    /\ \A i \in 1..Len(s.active) :
         /\ TimerSeq(s.active[i]) = s.queue[i].seq
         /\ s.active[i].pkt.header = "WNSRP_COMMAND"

\* The SRP timer is that of the head, and runs only before WNSRP is settled.
SaveIsHead(s) ==
    s.save # <<>> => /\ s.queue # <<>> /\ s.wnsrp # "WNSRP_FULL"
                     /\ TimerSeq(s.save[1]) = s.queue[1].seq
                     /\ s.save[1].pkt.header = "SRP_COMMAND"

\* If one chunk leaves the window, another is left, or nothing waits.
TwoUnderWay(s) == Len(s.active) >= 2 \/ Len(s.active) = Len(s.queue)

\* Whatever waits has a timer, in each of the three modes.
Covered(s) ==
    /\ s.status = "IDLE" => s.queue = <<>>
    /\ s.wnsrp # "WNSRP_FULL" =>
         /\ s.queue # <<>> => s.save # <<>>
         /\ s.queue = <<>> => s.status = "IDLE"
    /\ s.wnsrp = "WNSRP_FULL" => (s.queue # <<>> => s.active # <<>>)
    /\ s.wnsrp = "NO_WNSRP" => s.active = <<>>
    /\ s.wnsrp = "WNSRP_TX" => TwoUnderWay(s)

\* N are the numbers that an NSRP response may still come with.
Late(s, N) ==
    /\ \A n \in N : /\ n \in Nat /\ n < s.sendSeq
                    /\ \A i \in 2..Len(s.queue) : n < s.queue[i].seq
    /\ s.wnsrp = "WNSRP_FULL" /\ s.queue # <<>> /\ s.queue[1].seq \in N
         => TwoUnderWay(s)

TerminalInv(s, N) ==
    /\ Terminal(s) /\ Ordered(s) /\ WindowIsPrefix(s) /\ SaveIsHead(s)
    /\ Covered(s) /\ Late(s, N)

\* The numbers of the frames of one kind on a link.
Numbers(frames, header) ==
    {frames[i].chunk.seq : i \in {j \in DOMAIN frames : frames[j].header = header}}

\* The NSRP responses under way to p, and the commands that its peer has yet
\* to answer with one.
Numbered(p) == Numbers(link[p], "NSRP_RESPONSE")
                   \cup Numbers(link[Other(p)], "SRP_COMMAND")

PeerInv(p, K) ==
    /\ TerminalInv(ep[p], Numbered(p))
    /\ ep[p].tx = <<>>
    /\ ep[p].sendSeq <= K * Len(sent[p])
    /\ Len(sent[p]) <= MsgsOf[p]

\* The invariant; K bounds the chunks of one message.
SrpInv(K) ==
    /\ link \in [Peer -> Seq(FrameSet)] /\ failed \in [Peer -> BOOLEAN]
    /\ DOMAIN ep = Peer
    /\ sent \in [Peer -> Seq(Seq(Nat) \ {<<>>})]
    /\ \A p \in Peer : ~failed[p] => PeerInv(p, K)

-----------------------------------------------------------------------------
(* Sequences, frames and timers.                                           *)

\* RemoveAt closes the gap.
LEMMA RemoveAtFacts ==
    ASSUME NEW S, NEW q \in Seq(S), NEW j \in 1..Len(q)
    PROVE  /\ RemoveAt(q, j) \in Seq(S)
           /\ Len(RemoveAt(q, j)) = Len(q) - 1
           /\ \A i \in 1..Len(q) - 1 :
                RemoveAt(q, j)[i] = IF i < j THEN q[i] ELSE q[i + 1]
<1>1. \A i \in 1..Len(q) : q[i] \in S BY LenProperties
<1>2. /\ SubSeq(q, 1, j - 1) \in Seq(S) /\ Len(SubSeq(q, 1, j - 1)) = j - 1
      /\ \A i \in 1..j - 1 : SubSeq(q, 1, j - 1)[i] = q[i]
  BY <1>1, SubSeqProperties, LenProperties
<1>3. /\ SubSeq(q, j + 1, Len(q)) \in Seq(S)
      /\ Len(SubSeq(q, j + 1, Len(q))) = Len(q) - j
      /\ \A i \in 1..Len(q) - j : SubSeq(q, j + 1, Len(q))[i] = q[j + i]
  <2>1. Len(q) \in Nat BY LenProperties
  <2>2. \A i \in j + 1..Len(q) : q[i] \in S BY <1>1, <2>1
  <2>3. QED BY <2>1, <2>2, SubSeqProperties
<1> DEFINE front == SubSeq(q, 1, j - 1)
<1> DEFINE back == SubSeq(q, j + 1, Len(q))
<1> HIDE DEF front, back
<1>4. /\ front \o back \in Seq(S) /\ Len(front \o back) = Len(front) + Len(back)
      /\ \A i \in 1..Len(front) + Len(back) :
           (front \o back)[i] = IF i <= Len(front) THEN front[i] ELSE back[i - Len(front)]
  BY <1>2, <1>3, ConcatProperties DEF front, back
<1>5. RemoveAt(q, j) = front \o back BY DEF RemoveAt, front, back
<1>6. Len(front) = j - 1 /\ Len(back) = Len(q) - j /\ Len(q) \in Nat
  BY <1>2, <1>3, LenProperties DEF front, back
<1>7. ASSUME NEW i \in 1..Len(q) - 1
      PROVE  RemoveAt(q, j)[i] = IF i < j THEN q[i] ELSE q[i + 1]
  <2>1. CASE i < j
    BY <1>2, <1>4, <1>5, <1>6, <2>1 DEF front
  <2>2. CASE ~(i < j)
    <3>1. i - Len(front) \in 1..Len(q) - j /\ j + (i - Len(front)) = i + 1 BY <1>6, <2>2
    <3>2. RemoveAt(q, j)[i] = back[i - Len(front)] BY <1>4, <1>5, <1>6, <2>2
    <3>3. QED BY <1>3, <2>2, <3>1, <3>2 DEF back
  <2>3. QED BY <2>1, <2>2
<1>8. Len(RemoveAt(q, j)) = Len(q) - 1
  <2>1. j \in Int /\ Len(front) + Len(back) = Len(q) - 1 BY <1>6
  <2>2. Len(RemoveAt(q, j)) = Len(front) + Len(back) BY <1>4, <1>5
  <2>3. QED BY <2>1, <2>2
<1>9. QED BY <1>4, <1>5, <1>7, <1>8

\* The least of one number.
LEMMA MinOfOne ==
    ASSUME NEW j \in Int
    PROVE  Min({j}) = j
BY DEF Min

\* The least of two numbers.
LEMMA MinOfTwo ==
    ASSUME NEW m \in Int, NEW n \in Int
    PROVE  Min({m, n}) = IF m <= n THEN m ELSE n
BY DEF Min

\* SrpCommandCreate and SrpT401Start keep the number and the mode of a chunk.
LEMMA FrameTypes ==
    ASSUME NEW c \in ChunkSet, NEW h \in CommandHeader
    PROVE  /\ SrpCommandCreate(c, h) \in FrameSet
           /\ SrpT401Start(SrpCommandCreate(c, h)) \in TimerSet
           /\ TimerSeq(SrpT401Start(SrpCommandCreate(c, h))) = c.seq
           /\ SrpT401Start(SrpCommandCreate(c, h)).pkt.header = h
BY SrpAssumption DEF SrpCommandCreate, SrpT401Start, FrameSet, TimerSet, TimerSeq, CommandHeader

\* An SRP command for the head of the queue goes out.
LEMMA SendSrpFacts ==
    ASSUME NEW s, Terminal(s), s.queue # <<>>
    PROVE  LET r == SendSrpCommand(s) IN
           /\ Terminal(r)
           /\ r.status = s.status /\ r.wnsrp = s.wnsrp /\ r.sendSeq = s.sendSeq
           /\ r.queue = s.queue /\ r.active = s.active
           /\ r.save # <<>> /\ TimerSeq(r.save[1]) = s.queue[1].seq
           /\ r.save[1].pkt.header = "SRP_COMMAND"
           /\ Len(r.tx) = Len(s.tx) + 1
           /\ \A i \in 1..Len(s.tx) : r.tx[i] = s.tx[i]
           /\ r.tx[Len(s.tx) + 1].header = "SRP_COMMAND"
           /\ r.tx[Len(s.tx) + 1].chunk.seq = s.queue[1].seq
<1> DEFINE f == SrpCommandCreate(Head(s.queue), "SRP_COMMAND")
<1> DEFINE t == SrpT401Start(f)
<1>1. Head(s.queue) = s.queue[1] /\ s.queue[1] \in ChunkSet
  BY LenProperties, EmptySeq DEF Terminal
<1>2. /\ f \in FrameSet /\ t \in TimerSet /\ TimerSeq(t) = s.queue[1].seq
      /\ t.pkt.header = "SRP_COMMAND"
      /\ f.header = "SRP_COMMAND" /\ f.chunk.seq = s.queue[1].seq
  BY <1>1, FrameTypes DEF CommandHeader, SrpCommandCreate
<1>3. SendSrpCommand(s) = [[s EXCEPT !.save = <<t>>] EXCEPT !.tx = @ \o <<f>>]
  BY DEF SendSrpCommand, LowerLayerTx
<1> DEFINE r == [[s EXCEPT !.save = <<t>>] EXCEPT !.tx = @ \o <<f>>]
<1> HIDE DEF f, t
<1>4. /\ DOMAIN r = Fields
      /\ r.status = s.status /\ r.wnsrp = s.wnsrp /\ r.sendSeq = s.sendSeq
      /\ r.queue = s.queue /\ r.active = s.active
      /\ r.save = <<t>> /\ r.tx = s.tx \o <<f>>
  BY DEF Terminal, Fields
<1> HIDE DEF r
<1>5. /\ <<t>> \in Seq(TimerSet) /\ Len(<<t>>) = 1 /\ <<t>>[1] = t
      /\ <<f>> \in Seq(FrameSet) /\ Len(<<f>>) = 1 /\ <<f>>[1] = f
  BY <1>2
<1>6. /\ r.tx \in Seq(FrameSet) /\ Len(r.tx) = Len(s.tx) + 1
      /\ \A i \in 1..Len(s.tx) : r.tx[i] = s.tx[i]
      /\ r.tx[Len(s.tx) + 1] = f
  BY <1>4, <1>5, ConcatProperties, LenProperties DEF Terminal
<1>7. Terminal(r)
  BY <1>4, <1>5, <1>6 DEF Terminal
<1>8. QED BY <1>2, <1>3, <1>4, <1>5, <1>6, <1>7 DEF r

\* A WNSRP command for a chunk whose number is below m.
WnsrpBelow(f, m) == f.header = "WNSRP_COMMAND" /\ f.chunk.seq < m

\* The chunks from behind the window up to position n go out as WNSRP commands.
LEMMA SendWnsrpFacts ==
    ASSUME NEW s, Terminal(s), WindowIsPrefix(s), Ordered(s),
           NEW n \in 0..Len(s.queue), n <= Window
    PROVE  LET r == SendWnsrpCommands(s, n) IN
           /\ Terminal(r) /\ WindowIsPrefix(r)
           /\ r.status = s.status /\ r.wnsrp = s.wnsrp /\ r.sendSeq = s.sendSeq
           /\ r.queue = s.queue /\ r.save = s.save
           /\ Len(r.active) = IF n < Len(s.active) THEN Len(s.active) ELSE n
           /\ Len(s.tx) <= Len(r.tx)
           /\ \A i \in 1..Len(s.tx) : r.tx[i] = s.tx[i]
           /\ \A i \in Len(s.tx) + 1..Len(r.tx) : WnsrpBelow(r.tx[i], s.sendSeq)
<1> DEFINE m == Len(s.active)
<1> DEFINE new == SubSeq(s.queue, m + 1, n)
<1> DEFINE f == [i \in DOMAIN new |-> SrpCommandCreate(new[i], "WNSRP_COMMAND")]
<1> DEFINE t == [i \in DOMAIN f |-> SrpT401Start(f[i])]
<1> DEFINE r == [[s EXCEPT !.active = @ \o t] EXCEPT !.tx = @ \o f]
<1> DEFINE k == IF m < n THEN n - m ELSE 0
<1>1. SendWnsrpCommands(s, n) = r
  BY DEF SendWnsrpCommands, LowerLayerTx
<1>2. m \in Nat /\ Len(s.queue) \in Nat /\ \A i \in 1..Len(s.queue) : s.queue[i] \in ChunkSet
  BY LenProperties DEF Terminal
<1>3. /\ new \in Seq(ChunkSet) /\ Len(new) = k
      /\ \A i \in 1..k : new[i] = s.queue[m + i]
  <2> HIDE DEF m
  <2>1. \A i \in m + 1..n : s.queue[i] \in ChunkSet BY <1>2
  <2>2. QED BY <1>2, <2>1, SubSeqProperties
<1>4. k \in Nat /\ DOMAIN new = 1..k /\ \A i \in 1..k : new[i] \in ChunkSet
  BY <1>2, <1>3, LenProperties
<1>5. \A i \in 1..k : /\ f[i] \in FrameSet /\ f[i].header = "WNSRP_COMMAND"
                      /\ f[i].chunk.seq = s.queue[m + i].seq
                      /\ t[i] \in TimerSet /\ TimerSeq(t[i]) = s.queue[m + i].seq
                      /\ t[i].pkt.header = "WNSRP_COMMAND"
  <2> SUFFICES ASSUME NEW i \in 1..k
               PROVE  /\ f[i] \in FrameSet /\ f[i].header = "WNSRP_COMMAND"
                      /\ f[i].chunk.seq = s.queue[m + i].seq
                      /\ t[i] \in TimerSet /\ TimerSeq(t[i]) = s.queue[m + i].seq
                      /\ t[i].pkt.header = "WNSRP_COMMAND"
    OBVIOUS
  <2> DEFINE g == SrpCommandCreate(new[i], "WNSRP_COMMAND")
  <2>1. f[i] = g /\ t[i] = SrpT401Start(g) BY <1>4
  <2>2. new[i] \in ChunkSet /\ new[i] = s.queue[m + i] BY <1>3, <1>4
  <2>3. g \in FrameSet /\ SrpT401Start(g) \in TimerSet /\ TimerSeq(SrpT401Start(g)) = new[i].seq
        /\ SrpT401Start(g).pkt.header = "WNSRP_COMMAND"
    BY <2>2, FrameTypes DEF CommandHeader
  <2>4. g.header = "WNSRP_COMMAND" /\ g.chunk = new[i] BY DEF SrpCommandCreate
  <2> HIDE DEF g
  <2>5. QED BY <2>1, <2>2, <2>3, <2>4
<1>6. /\ f \in [1..k -> FrameSet] /\ t \in [1..k -> TimerSet]
  BY <1>4, <1>5
<1>7. /\ f \in Seq(FrameSet) /\ Len(f) = k /\ t \in Seq(TimerSet) /\ Len(t) = k
  <2> HIDE DEF f, t, k
  <2>1. QED BY <1>4, <1>6, SeqDef, LenProperties
<1>8. /\ DOMAIN r = Fields
      /\ r.status = s.status /\ r.wnsrp = s.wnsrp /\ r.sendSeq = s.sendSeq
      /\ r.queue = s.queue /\ r.save = s.save
      /\ r.active = s.active \o t /\ r.tx = s.tx \o f
  <2> HIDE DEF f, t
  <2>1. QED BY DEF Terminal, Fields
<1>15. k \in Nat /\ m + k = (IF n < m THEN m ELSE n)
  <2> HIDE DEF m
  <2>1. QED BY <1>2
<1> HIDE DEF r, f, t, new, k
<1>9. /\ r.active \in Seq(TimerSet) /\ Len(r.active) = m + k
      /\ \A i \in 1..m + k : r.active[i] = IF i <= m THEN s.active[i] ELSE t[i - m]
  <2>1. s.active \in Seq(TimerSet) BY DEF Terminal
  <2> DEFINE old == s.active
  <2>2. old \in Seq(TimerSet) /\ r.active = old \o t /\ m = Len(old) BY <1>8, <2>1
  <2> HIDE DEF old, m
  <2>3. /\ old \o t \in Seq(TimerSet) /\ Len(old \o t) = Len(old) + Len(t)
        /\ \A i \in 1..Len(old) + Len(t) :
             (old \o t)[i] = IF i <= Len(old) THEN old[i] ELSE t[i - Len(old)]
    BY <1>7, <2>2, ConcatProperties
  <2>4. QED BY <1>7, <2>2, <2>3 DEF old
<1>10. /\ r.tx \in Seq(FrameSet) /\ Len(r.tx) = Len(s.tx) + k
       /\ \A i \in 1..Len(s.tx) + k :
            r.tx[i] = IF i <= Len(s.tx) THEN s.tx[i] ELSE f[i - Len(s.tx)]
  <2>1. s.tx \in Seq(FrameSet) BY DEF Terminal
  <2>2. QED BY <1>7, <1>8, <2>1, ConcatProperties
<1>20. m <= Len(s.queue) BY DEF WindowIsPrefix
<1>11. Terminal(r) BY <1>8, <1>9, <1>10 DEF Terminal
<1>12. Len(s.tx) \in Nat BY LenProperties DEF Terminal
<1>13. \A i \in Len(s.tx) + 1..Len(r.tx) : WnsrpBelow(r.tx[i], s.sendSeq)
  <2> SUFFICES ASSUME NEW i \in Len(s.tx) + 1..Len(r.tx)
               PROVE  WnsrpBelow(r.tx[i], s.sendSeq)
    OBVIOUS
  <2>1. i - Len(s.tx) \in 1..k /\ r.tx[i] = f[i - Len(s.tx)] BY <1>10, <1>12, <1>15
  <2> DEFINE d == i - Len(s.tx)
  <2> HIDE DEF d
  <2>2. d \in 1..k /\ r.tx[i] = f[d] BY <2>1 DEF d
  <2>3. r.tx[i].header = "WNSRP_COMMAND" /\ r.tx[i].chunk.seq = s.queue[m + d].seq
    BY <1>5, <2>2
  <2>4. m + d \in DOMAIN s.queue
    <3>1. DOMAIN s.queue = 1..Len(s.queue) BY LenProperties DEF Terminal
    <3> HIDE DEF m
    <3>2. QED BY <1>2, <1>15, <2>2, <3>1, <1>20 DEF k
  <2>5. s.queue[m + d].seq < s.sendSeq BY <2>4 DEF Ordered
  <2>6. QED BY <2>3, <2>5 DEF WnsrpBelow
<1>14. ASSUME NEW i \in 1..m + k
       PROVE  /\ TimerSeq(r.active[i]) = s.queue[i].seq
              /\ r.active[i].pkt.header = "WNSRP_COMMAND"
  <2>1. CASE i <= m
    <3>1. i \in 1..m BY <1>2, <2>1
    <3>2. /\ TimerSeq(s.active[i]) = s.queue[i].seq
          /\ s.active[i].pkt.header = "WNSRP_COMMAND"
      BY <3>1 DEF WindowIsPrefix
    <3>3. r.active[i] = s.active[i] BY <1>9, <2>1
    <3>4. QED BY <3>2, <3>3
  <2>2. CASE ~(i <= m)
    <3>1. r.active[i] = t[i - m] BY <1>9, <2>2
    <3>2. i - m \in 1..k /\ m + (i - m) = i
      <4> HIDE DEF m
      <4>1. m \in Nat /\ k \in Nat BY <1>2, <1>15
      <4>2. QED BY <2>2, <4>1
    <3>3. QED BY <1>5, <3>1, <3>2
  <2>3. QED BY <2>1, <2>2
<1>16. WindowIsPrefix(r)
  <2> HIDE DEF m
  <2>1. m <= Len(s.queue) /\ m <= Window /\ Window \in Nat BY SrpAssumption DEF WindowIsPrefix, m
  <2>2. Len(r.active) <= Len(r.queue) /\ Len(r.active) <= Window
    <3>1. Len(r.active) = m + k /\ Len(r.queue) = Len(s.queue) BY <1>8, <1>9
    <3>2. m + k <= Len(s.queue) /\ m + k <= Window
      <4> DEFINE L == Len(s.queue)
      <4>1. n \in 0..L /\ L \in Nat /\ m <= L BY <1>2, <2>1
      <4> HIDE DEF L
      <4>2. n <= L BY <4>1
      <4>3. QED BY <1>15, <2>1, <4>1, <4>2 DEF L
    <3>3. QED BY <3>1, <3>2
  <2>3. QED BY <1>8, <1>9, <1>14, <2>2 DEF WindowIsPrefix
<1>17. Len(s.tx) <= Len(r.tx) BY <1>10, <1>12, <1>15
<1> HIDE DEF m
<1>18. \A i \in 1..Len(s.tx) : r.tx[i] = s.tx[i] BY <1>10, <1>12, <1>15
<1>19. QED BY <1>1, <1>8, <1>9, <1>11, <1>13, <1>15, <1>16, <1>17, <1>18 DEF m

\* What a method hands to the lower layer: SRP commands only for the chunk at
\* the head of the queue, numbered responses only for the numbers in R, and
\* WNSRP commands only with numbers that were given out.
Sends(s, R) ==
    \A i \in 1..Len(s.tx) :
        /\ s.tx[i].header = "SRP_COMMAND" =>
             /\ s.wnsrp # "WNSRP_FULL" /\ s.queue # <<>>
             /\ s.tx[i].chunk.seq = s.queue[1].seq
        /\ s.tx[i].header = "NSRP_RESPONSE" => s.tx[i].chunk.seq \in R
        /\ s.tx[i].header = "WNSRP_COMMAND" => s.tx[i].chunk.seq < s.sendSeq

Below(s, N) ==
    \A n \in N : /\ n \in Nat /\ n < s.sendSeq
                 /\ \A i \in 2..Len(s.queue) : n < s.queue[i].seq

\* Between the removal of an answered chunk and SendNext.
Answered(s, N) ==
    /\ Terminal(s) /\ Ordered(s) /\ WindowIsPrefix(s) /\ Below(s, N)
    /\ s.status = "WAIT_RESPONSE" /\ s.save = <<>> /\ Len(s.active) < Window
    /\ \A i \in 1..Len(s.tx) : WnsrpBelow(s.tx[i], s.sendSeq)
    /\ s.wnsrp = "NO_WNSRP" => s.active = <<>>
    /\ s.wnsrp = "WNSRP_TX" => Len(s.active) >= 1 \/ Len(s.active) = Len(s.queue)
    /\ s.wnsrp = "WNSRP_FULL" /\ s.queue # <<>> /\ s.queue[1].seq \in N =>
         Len(s.active) >= 1 \/ Len(s.active) = Len(s.queue)

\* SendNext leaves a timer behind whatever waits.
LEMMA SendNextKeeps ==
    ASSUME NEW s, NEW N, Answered(s, N)
    PROVE  /\ TerminalInv(SendNext(s), N) /\ Sends(SendNext(s), {})
           /\ SendNext(s).sendSeq = s.sendSeq
<1> DEFINE s1 == IF s.wnsrp = "WNSRP_FULL" \/ s.queue = <<>> THEN s ELSE SendSrpCommand(s)
<1> DEFINE s2 == IF s.wnsrp = "NO_WNSRP" \/ Len(s.active) >= Len(s.queue)
                 THEN s1 ELSE SendWnsrpCommands(s1, Len(s.active) + 1)
<1> DEFINE r == IF s2.save = <<>> /\ s2.active = <<>> THEN [s2 EXCEPT !.status = "IDLE"] ELSE s2
<1>1. SendNext(s) = r BY DEF SendNext
<1>2. /\ Terminal(s) /\ Ordered(s) /\ WindowIsPrefix(s) /\ Below(s, N)
      /\ s.status = "WAIT_RESPONSE" /\ s.save = <<>> /\ Len(s.active) < Window
      /\ \A i \in 1..Len(s.tx) : WnsrpBelow(s.tx[i], s.sendSeq)
  BY DEF Answered
<1>3. /\ Len(s.queue) \in Nat /\ Len(s.active) \in Nat /\ Len(s.tx) \in Nat /\ Window \in Nat
      /\ s.queue = <<>> <=> Len(s.queue) = 0
  BY <1>2, LenProperties, EmptySeq, SrpAssumption DEF Terminal
<1>4. /\ Terminal(s1) /\ WindowIsPrefix(s1)
      /\ s1.status = s.status /\ s1.wnsrp = s.wnsrp /\ s1.sendSeq = s.sendSeq
      /\ s1.queue = s.queue /\ s1.active = s.active /\ Len(s1.tx) \in Nat
      /\ IF s.wnsrp = "WNSRP_FULL" \/ s.queue = <<>> THEN s1.save = <<>>
         ELSE /\ s1.save # <<>> /\ TimerSeq(s1.save[1]) = s.queue[1].seq
              /\ s1.save[1].pkt.header = "SRP_COMMAND"
      /\ \A i \in 1..Len(s1.tx) :
           \/ WnsrpBelow(s1.tx[i], s.sendSeq)
           \/ /\ s1.tx[i].header = "SRP_COMMAND" /\ s1.tx[i].chunk.seq = s.queue[1].seq
              /\ s.wnsrp # "WNSRP_FULL" /\ s.queue # <<>>
  <2>1. CASE s.wnsrp = "WNSRP_FULL" \/ s.queue = <<>>
    BY <1>2, <1>3, <2>1
  <2>2. CASE ~(s.wnsrp = "WNSRP_FULL" \/ s.queue = <<>>)
    <3>1. s1 = SendSrpCommand(s) BY <2>2
    <3> HIDE DEF s1
    <3>2. /\ Terminal(s1)
          /\ s1.status = s.status /\ s1.wnsrp = s.wnsrp /\ s1.sendSeq = s.sendSeq
          /\ s1.queue = s.queue /\ s1.active = s.active
          /\ s1.save # <<>> /\ TimerSeq(s1.save[1]) = s.queue[1].seq
          /\ s1.save[1].pkt.header = "SRP_COMMAND"
          /\ Len(s1.tx) = Len(s.tx) + 1
          /\ \A i \in 1..Len(s.tx) : s1.tx[i] = s.tx[i]
          /\ s1.tx[Len(s.tx) + 1].header = "SRP_COMMAND"
          /\ s1.tx[Len(s.tx) + 1].chunk.seq = s.queue[1].seq
      BY <1>2, <2>2, <3>1, SendSrpFacts
    <3>3. WindowIsPrefix(s1) BY <1>2, <3>2 DEF WindowIsPrefix
    <3>4. ASSUME NEW i \in 1..Len(s1.tx)
          PROVE  \/ WnsrpBelow(s1.tx[i], s.sendSeq)
                 \/ s1.tx[i].header = "SRP_COMMAND" /\ s1.tx[i].chunk.seq = s.queue[1].seq
      BY <1>2, <1>3, <3>2
    <3>5. QED BY <1>3, <2>2, <3>2, <3>3, <3>4
  <2>3. QED BY <2>1, <2>2
<1> HIDE DEF s1
<1>5. /\ Terminal(s2) /\ WindowIsPrefix(s2)
      /\ s2.status = s.status /\ s2.wnsrp = s.wnsrp /\ s2.sendSeq = s.sendSeq
      /\ s2.queue = s.queue /\ s2.save = s1.save
      /\ Len(s2.active) = IF s.wnsrp = "NO_WNSRP" \/ Len(s.active) >= Len(s.queue)
                          THEN Len(s.active) ELSE Len(s.active) + 1
      /\ \A i \in 1..Len(s2.tx) :
           \/ WnsrpBelow(s2.tx[i], s.sendSeq)
           \/ /\ s2.tx[i].header = "SRP_COMMAND" /\ s2.tx[i].chunk.seq = s.queue[1].seq
              /\ s.wnsrp # "WNSRP_FULL" /\ s.queue # <<>>
  <2>1. CASE s.wnsrp = "NO_WNSRP" \/ Len(s.active) >= Len(s.queue)
    BY <1>4, <2>1
  <2>2. CASE ~(s.wnsrp = "NO_WNSRP" \/ Len(s.active) >= Len(s.queue))
    <3>1. /\ s2 = SendWnsrpCommands(s1, Len(s.active) + 1)
          /\ Len(s.active) + 1 \in 0..Len(s1.queue) /\ Len(s.active) + 1 <= Window
      BY <1>2, <1>3, <1>4, <2>2
    <3>7. Ordered(s1) BY <1>2, <1>4 DEF Ordered
    <3> HIDE DEF s2
    <3>2. /\ Terminal(s2) /\ WindowIsPrefix(s2)
          /\ s2.status = s1.status /\ s2.wnsrp = s1.wnsrp /\ s2.sendSeq = s1.sendSeq
          /\ s2.queue = s1.queue /\ s2.save = s1.save
          /\ Len(s2.active) = IF Len(s.active) + 1 < Len(s1.active) THEN Len(s1.active)
                              ELSE Len(s.active) + 1
          /\ Len(s1.tx) <= Len(s2.tx)
          /\ \A i \in 1..Len(s1.tx) : s2.tx[i] = s1.tx[i]
          /\ \A i \in Len(s1.tx) + 1..Len(s2.tx) : WnsrpBelow(s2.tx[i], s.sendSeq)
      BY <1>4, <3>1, <3>7, SendWnsrpFacts
    <3>3. Len(s2.active) = Len(s.active) + 1 BY <1>3, <1>4, <3>2
    <3>4. Len(s2.tx) \in Nat BY <3>2, LenProperties DEF Terminal
    <3>5. ASSUME NEW i \in 1..Len(s2.tx)
          PROVE  \/ WnsrpBelow(s2.tx[i], s.sendSeq)
                 \/ /\ s2.tx[i].header = "SRP_COMMAND" /\ s2.tx[i].chunk.seq = s.queue[1].seq
                    /\ s.wnsrp # "WNSRP_FULL" /\ s.queue # <<>>
      <4>1. i \in 1..Len(s1.tx) \/ i \in Len(s1.tx) + 1..Len(s2.tx) BY <1>4, <3>4
      <4>2. QED BY <1>4, <3>2, <4>1
    <3>6. QED BY <1>4, <2>2, <3>2, <3>3, <3>5
  <2>3. QED BY <2>1, <2>2
<1> HIDE DEF s2
<1>6. /\ Terminal(r) /\ WindowIsPrefix(r)
      /\ r.wnsrp = s.wnsrp /\ r.sendSeq = s.sendSeq /\ r.queue = s.queue
      /\ r.save = s2.save /\ r.active = s2.active /\ r.tx = s2.tx
      /\ r.status = IF s2.save = <<>> /\ s2.active = <<>> THEN "IDLE" ELSE "WAIT_RESPONSE"
  BY <1>2, <1>5 DEF Terminal, WindowIsPrefix, Fields
<1> HIDE DEF r
<1>7. Ordered(r) BY <1>2, <1>6 DEF Ordered
<1>8. r.active = <<>> <=> Len(r.active) = 0
  BY <1>6, EmptySeq, LenProperties DEF Terminal
<1>9. /\ Len(r.active) \in Nat /\ Len(r.active) <= Len(r.queue)
  BY <1>6, LenProperties DEF Terminal, WindowIsPrefix
<1>10. SaveIsHead(r) BY <1>4, <1>5, <1>6 DEF SaveIsHead
<1>11. s.wnsrp = "WNSRP_TX" => TwoUnderWay(r)
  BY <1>3, <1>5, <1>6 DEF TwoUnderWay, Answered, Terminal, WindowIsPrefix
<1>12. s.wnsrp = "WNSRP_FULL" /\ r.queue # <<>> /\ r.queue[1].seq \in N => TwoUnderWay(r)
  BY <1>3, <1>5, <1>6 DEF TwoUnderWay, Answered, Terminal, WindowIsPrefix
<1>13. Covered(r)
  <2>1. r.wnsrp = "WNSRP_FULL" => (r.queue # <<>> => r.active # <<>>)
    BY <1>3, <1>5, <1>6, <1>8
  <2>2. r.wnsrp # "WNSRP_FULL" => (r.queue # <<>> => r.save # <<>>)
    BY <1>4, <1>5, <1>6
  <2>3. r.queue = <<>> => r.save = <<>> /\ r.active = <<>>
    BY <1>3, <1>4, <1>5, <1>6, <1>8, <1>9
  <2>4. r.wnsrp = "NO_WNSRP" => r.active = <<>>
    <3>1. s.wnsrp = "NO_WNSRP" => Len(s.active) = 0 BY DEF Answered
    <3>2. QED BY <1>5, <1>6, <1>8, <3>1
  <2>5. QED BY <1>6, <1>11, <2>1, <2>2, <2>3, <2>4 DEF Covered
<1>14. Late(r, N) BY <1>2, <1>6, <1>12 DEF Late, Below
<1>15. Sends(r, {}) BY <1>5, <1>6 DEF Sends, WnsrpBelow
<1>16. QED BY <1>1, <1>6, <1>7, <1>10, <1>13, <1>14, <1>15 DEF TerminalInv

\* After a message was put in the queue, before anything is sent.
Queued(s, N) ==
    /\ Terminal(s) /\ Ordered(s) /\ WindowIsPrefix(s) /\ Below(s, N)
    /\ s.queue # <<>> /\ s.tx = <<>>
    /\ s.wnsrp = "NO_WNSRP" => s.active = <<>>

\* FillWindow has at least two chunks under way, or all that wait.
LEMMA FillWindowFacts ==
    ASSUME NEW s, Terminal(s), WindowIsPrefix(s), Ordered(s), s.queue # <<>>, Window >= 2
    PROVE  LET r == FillWindow(s) IN
           /\ Terminal(r) /\ WindowIsPrefix(r)
           /\ r.status = s.status /\ r.wnsrp = s.wnsrp /\ r.sendSeq = s.sendSeq
           /\ r.queue = s.queue /\ r.save = s.save
           /\ TwoUnderWay(r) /\ r.active # <<>>
           /\ Len(s.tx) <= Len(r.tx) /\ Len(r.tx) \in Nat
           /\ \A i \in 1..Len(s.tx) : r.tx[i] = s.tx[i]
           /\ \A i \in Len(s.tx) + 1..Len(r.tx) : WnsrpBelow(r.tx[i], s.sendSeq)
<1> DEFINE n == Min({Window, Len(s.queue)})
<1> DEFINE r == SendWnsrpCommands(s, n)
<1>1. /\ Len(s.queue) \in Nat /\ Len(s.queue) # 0 /\ Len(s.active) \in Nat /\ Window \in Nat
      /\ Len(s.active) <= Len(s.queue) /\ Len(s.active) <= Window
  BY LenProperties, EmptySeq, SrpAssumption DEF Terminal, WindowIsPrefix
<1>2. n = IF Window <= Len(s.queue) THEN Window ELSE Len(s.queue)
  BY <1>1, MinOfTwo
<1> HIDE DEF n
<1>3. n \in 0..Len(s.queue) /\ n <= Window /\ (n >= 2 \/ n = Len(s.queue)) /\ n >= 1 /\ Len(s.active) <= n
  BY <1>1, <1>2
<1> HIDE DEF r
<1>4. /\ Terminal(r) /\ WindowIsPrefix(r)
      /\ r.status = s.status /\ r.wnsrp = s.wnsrp /\ r.sendSeq = s.sendSeq
      /\ r.queue = s.queue /\ r.save = s.save
      /\ Len(r.active) = IF n < Len(s.active) THEN Len(s.active) ELSE n
      /\ Len(s.tx) <= Len(r.tx)
      /\ \A i \in 1..Len(s.tx) : r.tx[i] = s.tx[i]
      /\ \A i \in Len(s.tx) + 1..Len(r.tx) : WnsrpBelow(r.tx[i], s.sendSeq)
  BY <1>3, SendWnsrpFacts DEF r
<1>5. Len(r.active) = n BY <1>1, <1>3, <1>4
<1>6. TwoUnderWay(r) BY <1>3, <1>4, <1>5 DEF TwoUnderWay
<1>7. r.active # <<>> BY <1>3, <1>5
<1>8. Len(r.tx) \in Nat BY <1>4, LenProperties DEF Terminal
<1>9. QED BY <1>4, <1>6, <1>7, <1>8 DEF FillWindow, n, r

\* A message at an idle terminal.
LEMMA Srp01Keeps ==
    ASSUME NEW s, NEW N, Queued(s, N), s.save = <<>>, Window >= 2
    PROVE  /\ TerminalInv(Srp_0_1(s), N) /\ Sends(Srp_0_1(s), {})
           /\ Srp_0_1(s).sendSeq = s.sendSeq
<1> DEFINE s1 == IF s.wnsrp = "WNSRP_FULL" THEN s ELSE SendSrpCommand(s)
<1> DEFINE s2 == IF s.wnsrp = "NO_WNSRP" THEN s1 ELSE FillWindow(s1)
<1> DEFINE r == [s2 EXCEPT !.status = "WAIT_RESPONSE"]
<1>1. Srp_0_1(s) = r BY DEF Srp_0_1
<1>2. /\ Terminal(s) /\ Ordered(s) /\ WindowIsPrefix(s) /\ Below(s, N)
      /\ s.queue # <<>> /\ Len(s.tx) = 0
  BY DEF Queued
<1>3. /\ Terminal(s1) /\ WindowIsPrefix(s1)
      /\ s1.wnsrp = s.wnsrp /\ s1.sendSeq = s.sendSeq
      /\ s1.queue = s.queue /\ s1.active = s.active /\ Len(s1.tx) \in Nat
      /\ IF s.wnsrp = "WNSRP_FULL" THEN s1.save = <<>>
         ELSE /\ s1.save # <<>> /\ TimerSeq(s1.save[1]) = s.queue[1].seq
              /\ s1.save[1].pkt.header = "SRP_COMMAND"
      /\ \A i \in 1..Len(s1.tx) :
           /\ s1.tx[i].header = "SRP_COMMAND" /\ s1.tx[i].chunk.seq = s.queue[1].seq
           /\ s.wnsrp # "WNSRP_FULL"
  <2>1. CASE s.wnsrp = "WNSRP_FULL"
    BY <1>2, <2>1
  <2>2. CASE s.wnsrp # "WNSRP_FULL"
    <3>1. s1 = SendSrpCommand(s) BY <2>2
    <3> HIDE DEF s1
    <3>2. /\ Terminal(s1)
          /\ s1.wnsrp = s.wnsrp /\ s1.sendSeq = s.sendSeq
          /\ s1.queue = s.queue /\ s1.active = s.active
          /\ s1.save # <<>> /\ TimerSeq(s1.save[1]) = s.queue[1].seq
          /\ s1.save[1].pkt.header = "SRP_COMMAND"
          /\ Len(s1.tx) = Len(s.tx) + 1
          /\ s1.tx[Len(s.tx) + 1].header = "SRP_COMMAND"
          /\ s1.tx[Len(s.tx) + 1].chunk.seq = s.queue[1].seq
      BY <1>2, <3>1, SendSrpFacts
    <3>3. WindowIsPrefix(s1) BY <1>2, <3>2 DEF WindowIsPrefix
    <3>4. QED BY <1>2, <2>2, <3>2, <3>3
  <2>3. QED BY <2>1, <2>2
<1> HIDE DEF s1
<1>4. /\ Terminal(s2) /\ WindowIsPrefix(s2)
      /\ s2.wnsrp = s.wnsrp /\ s2.sendSeq = s.sendSeq
      /\ s2.queue = s.queue /\ s2.save = s1.save
      /\ IF s.wnsrp = "NO_WNSRP" THEN s2.active = <<>> ELSE TwoUnderWay(s2) /\ s2.active # <<>>
      /\ \A i \in 1..Len(s2.tx) :
           \/ WnsrpBelow(s2.tx[i], s.sendSeq)
           \/ /\ s2.tx[i].header = "SRP_COMMAND" /\ s2.tx[i].chunk.seq = s.queue[1].seq
              /\ s.wnsrp # "WNSRP_FULL"
  <2>1. CASE s.wnsrp = "NO_WNSRP"
    BY <1>3, <2>1 DEF Queued
  <2>2. CASE s.wnsrp # "NO_WNSRP"
    <3>1. s2 = FillWindow(s1) BY <2>2
    <3>5. Ordered(s1) BY <1>2, <1>3 DEF Ordered
    <3> HIDE DEF s2
    <3>2. /\ Terminal(s2) /\ WindowIsPrefix(s2)
          /\ s2.wnsrp = s1.wnsrp /\ s2.sendSeq = s1.sendSeq
          /\ s2.queue = s1.queue /\ s2.save = s1.save
          /\ TwoUnderWay(s2) /\ s2.active # <<>>
          /\ Len(s1.tx) <= Len(s2.tx) /\ Len(s2.tx) \in Nat
          /\ \A i \in 1..Len(s1.tx) : s2.tx[i] = s1.tx[i]
          /\ \A i \in Len(s1.tx) + 1..Len(s2.tx) : WnsrpBelow(s2.tx[i], s.sendSeq)
      BY <1>2, <1>3, <3>1, <3>5, FillWindowFacts
    <3>3. ASSUME NEW i \in 1..Len(s2.tx)
          PROVE  \/ WnsrpBelow(s2.tx[i], s.sendSeq)
                 \/ /\ s2.tx[i].header = "SRP_COMMAND" /\ s2.tx[i].chunk.seq = s.queue[1].seq
                    /\ s.wnsrp # "WNSRP_FULL"
      <4>1. i \in 1..Len(s1.tx) \/ i \in Len(s1.tx) + 1..Len(s2.tx) BY <1>3, <3>2
      <4>2. QED BY <1>3, <3>2, <4>1
    <3>4. QED BY <1>3, <2>2, <3>2, <3>3
  <2>3. QED BY <2>1, <2>2
<1> HIDE DEF s2
<1>5. /\ Terminal(r) /\ WindowIsPrefix(r)
      /\ r.wnsrp = s.wnsrp /\ r.sendSeq = s.sendSeq /\ r.queue = s.queue
      /\ r.save = s2.save /\ r.active = s2.active /\ r.tx = s2.tx
      /\ r.status = "WAIT_RESPONSE"
  BY <1>4 DEF Terminal, WindowIsPrefix, Fields
<1> HIDE DEF r
<1>6. Ordered(r) BY <1>2, <1>5 DEF Ordered
<1>7. SaveIsHead(r) BY <1>2, <1>3, <1>4, <1>5 DEF SaveIsHead
<1>8. r.wnsrp # "NO_WNSRP" => TwoUnderWay(r) BY <1>4, <1>5 DEF TwoUnderWay
<1>9. Covered(r) BY <1>2, <1>3, <1>4, <1>5, <1>8 DEF Covered
<1>10. Late(r, N) BY <1>2, <1>5, <1>8 DEF Late, Below
<1>11. Sends(r, {}) BY <1>2, <1>4, <1>5 DEF Sends, WnsrpBelow
<1>12. QED BY <1>1, <1>5, <1>6, <1>7, <1>9, <1>10, <1>11 DEF TerminalInv

\* A message at a terminal that waits for responses.
LEMMA Srp11Keeps ==
    ASSUME NEW s, NEW N, Queued(s, N), s.status = "WAIT_RESPONSE", SaveIsHead(s),
           s.wnsrp # "WNSRP_FULL" => s.save # <<>>, Window >= 2
    PROVE  /\ TerminalInv(Srp_1_1(s), N) /\ Sends(Srp_1_1(s), {})
           /\ Srp_1_1(s).sendSeq = s.sendSeq
<1>1. /\ Terminal(s) /\ Ordered(s) /\ WindowIsPrefix(s) /\ Below(s, N)
      /\ s.queue # <<>> /\ Len(s.tx) = 0
  BY DEF Queued
<1>2. CASE s.wnsrp = "NO_WNSRP"
  <2>1. Srp_1_1(s) = s BY <1>2 DEF Srp_1_1
  <2>2. Covered(s) BY <1>1, <1>2 DEF Covered, Queued
  <2>3. Late(s, N) BY <1>1, <1>2 DEF Late, Below
  <2>4. Sends(s, {}) BY <1>1 DEF Sends
  <2>5. QED BY <1>1, <2>1, <2>2, <2>3, <2>4 DEF TerminalInv
<1>3. CASE s.wnsrp # "NO_WNSRP"
  <2> DEFINE r == FillWindow(s)
  <2>1. Srp_1_1(s) = r BY <1>3 DEF Srp_1_1
  <2> HIDE DEF r
  <2>2. /\ Terminal(r) /\ WindowIsPrefix(r)
        /\ r.status = s.status /\ r.wnsrp = s.wnsrp /\ r.sendSeq = s.sendSeq
        /\ r.queue = s.queue /\ r.save = s.save
        /\ TwoUnderWay(r) /\ r.active # <<>>
        /\ Len(r.tx) \in Nat
        /\ \A i \in Len(s.tx) + 1..Len(r.tx) : WnsrpBelow(r.tx[i], s.sendSeq)
    BY <1>1, FillWindowFacts DEF r
  <2>3. Ordered(r) BY <1>1, <2>2 DEF Ordered
  <2>4. SaveIsHead(r) BY <2>2 DEF SaveIsHead
  <2>5. Covered(r) BY <1>1, <1>3, <2>2 DEF Covered
  <2>6. Late(r, N) BY <1>1, <2>2 DEF Late, Below
  <2>7. Sends(r, {}) BY <1>1, <2>2 DEF Sends, WnsrpBelow
  <2>8. QED BY <2>1, <2>2, <2>3, <2>4, <2>5, <2>6, <2>7 DEF TerminalInv
<1>4. QED BY <1>2, <1>3

-----------------------------------------------------------------------------
(* Responses.                                                              *)

\* A number occurs once in the queue, so SrpCommandClear removes that chunk.
LEMMA ClearAt ==
    ASSUME NEW s, Terminal(s), Ordered(s), NEW j \in 1..Len(s.queue)
    PROVE  SrpCommandClear(s, s.queue[j].seq) = [s EXCEPT !.queue = RemoveAt(s.queue, j)]
<1> DEFINE hits == {i \in DOMAIN s.queue : s.queue[i].seq = s.queue[j].seq}
<1>1. /\ DOMAIN s.queue = 1..Len(s.queue) /\ Len(s.queue) \in Nat
      /\ \A i \in 1..Len(s.queue) : s.queue[i].seq \in Nat
  <2>1. s.queue \in Seq(ChunkSet) BY DEF Terminal
  <2>2. /\ DOMAIN s.queue = 1..Len(s.queue) /\ Len(s.queue) \in Nat
        /\ \A i \in 1..Len(s.queue) : s.queue[i] \in ChunkSet
    BY <2>1, LenProperties
  <2>3. \A c \in ChunkSet : c.seq \in Nat BY SrpAssumption DEF ChunkSet
  <2>4. QED BY <2>2, <2>3
<1>2. ASSUME NEW i \in 1..Len(s.queue), i # j PROVE s.queue[i].seq # s.queue[j].seq
  <2>1. i < j \/ j < i BY <1>1, <1>2
  <2>2. s.queue[i].seq < s.queue[j].seq \/ s.queue[j].seq < s.queue[i].seq
    BY <1>1, <2>1 DEF Ordered
  <2>3. s.queue[i].seq \in Nat /\ s.queue[j].seq \in Nat BY <1>1
  <2>4. QED BY <2>2, <2>3
<1>3. hits = {j} BY <1>1, <1>2
<1>4. Min(hits) = j BY <1>3, MinOfOne
<1>5. QED BY <1>3, <1>4 DEF SrpCommandClear, Terminal, Fields

\* SrpCommandClear of a number that does not wait changes nothing.
LEMMA ClearNothing ==
    ASSUME NEW s, NEW n, \A i \in DOMAIN s.queue : s.queue[i].seq # n
    PROVE  SrpCommandClear(s, n) = s
BY DEF SrpCommandClear

\* The queue and the window as sequences.
LEMMA QueueTypes ==
    ASSUME NEW s, Terminal(s)
    PROVE  /\ DOMAIN s.queue = 1..Len(s.queue) /\ Len(s.queue) \in Nat
           /\ \A i \in 1..Len(s.queue) : s.queue[i] \in ChunkSet /\ s.queue[i].seq \in Nat
           /\ DOMAIN s.active = 1..Len(s.active) /\ Len(s.active) \in Nat
           /\ \A i \in 1..Len(s.active) : s.active[i] \in TimerSet
           /\ s.queue = <<>> <=> Len(s.queue) = 0
           /\ s.active = <<>> <=> Len(s.active) = 0
           /\ Len(s.tx) \in Nat
<1>1. s.queue \in Seq(ChunkSet) /\ s.active \in Seq(TimerSet) /\ s.tx \in Seq(FrameSet)
  BY DEF Terminal
<1>2. \A c \in ChunkSet : c.seq \in Nat BY SrpAssumption DEF ChunkSet
<1>3. QED BY <1>1, <1>2, LenProperties, EmptySeq

\* The timers that run for a number are the one of the chunk with that number.
LEMMA ActiveAt ==
    ASSUME NEW s, Terminal(s), Ordered(s), WindowIsPrefix(s), NEW t,
           t.active = s.active, NEW j \in 1..Len(s.queue)
    PROVE  ActiveWith(t, s.queue[j].seq) = IF j <= Len(s.active) THEN {j} ELSE {}
<1>1. /\ Len(s.queue) \in Nat /\ Len(s.active) \in Nat /\ Len(s.active) <= Len(s.queue)
      /\ DOMAIN t.active = 1..Len(s.active) /\ DOMAIN s.queue = 1..Len(s.queue)
      /\ \A i \in 1..Len(s.queue) : s.queue[i].seq \in Nat
  BY QueueTypes DEF WindowIsPrefix
<1>2. \A i \in 1..Len(s.queue) : i # j => s.queue[i].seq # s.queue[j].seq
  BY <1>1 DEF Ordered
<1>3. \A i \in 1..Len(s.active) : TimerSeq(t.active[i]) = s.queue[i].seq
  BY DEF WindowIsPrefix
<1>4. \A i \in 1..Len(s.active) : i \in 1..Len(s.queue) BY <1>1
<1>5. QED BY <1>1, <1>2, <1>3, <1>4 DEF ActiveWith

\* No timer runs for a number that does not wait.
LEMMA ActiveNothing ==
    ASSUME NEW s, Terminal(s), WindowIsPrefix(s), NEW n,
           \A i \in DOMAIN s.queue : s.queue[i].seq # n
    PROVE  ActiveWith(s, n) = {}
<1>1. /\ Len(s.queue) \in Nat /\ Len(s.active) \in Nat /\ Len(s.active) <= Len(s.queue)
      /\ DOMAIN s.active = 1..Len(s.active) /\ DOMAIN s.queue = 1..Len(s.queue)
  BY QueueTypes DEF WindowIsPrefix
<1>2. \A i \in 1..Len(s.active) : i \in 1..Len(s.queue) /\ TimerSeq(s.active[i]) = s.queue[i].seq
  BY <1>1 DEF WindowIsPrefix
<1>3. QED BY <1>1, <1>2 DEF ActiveWith

\* A chunk leaves the queue, and with it its timer if it was under way.
LEMMA RemovedKeeps ==
    ASSUME NEW s, NEW r, NEW N, Terminal(s), Ordered(s), WindowIsPrefix(s), Below(s, N),
           Terminal(r), NEW j \in 1..Len(s.queue),
           r.queue = RemoveAt(s.queue, j), r.sendSeq = s.sendSeq,
           IF j <= Len(s.active)
           THEN /\ Len(r.active) = Len(s.active) - 1
                /\ \A i \in 1..Len(s.active) - 1 :
                     r.active[i].pkt = IF i < j THEN s.active[i].pkt ELSE s.active[i + 1].pkt
           ELSE r.active = s.active
    PROVE  /\ Ordered(r) /\ WindowIsPrefix(r) /\ Below(r, N)
           /\ Len(r.queue) = Len(s.queue) - 1
           /\ r.queue # <<>> => r.queue[1] = IF j = 1 THEN s.queue[2] ELSE s.queue[1]
<1> DEFINE L == Len(s.queue)
<1> DEFINE m == Len(s.active)
<1>1. /\ L \in Nat /\ DOMAIN s.queue = 1..L /\ m \in Nat /\ m <= L /\ m <= Window /\ Window \in Nat
      /\ \A i \in 1..L : s.queue[i].seq \in Nat
  BY QueueTypes, SrpAssumption DEF WindowIsPrefix
<1>2. /\ Len(r.queue) = L - 1
      /\ \A i \in 1..L - 1 : r.queue[i] = IF i < j THEN s.queue[i] ELSE s.queue[i + 1]
  BY RemoveAtFacts DEF Terminal
<1>3. DOMAIN r.queue = 1..L - 1 /\ (r.queue # <<>> => L - 1 >= 1)
  BY <1>1, <1>2, QueueTypes
<1> DEFINE at(i) == IF i < j THEN i ELSE i + 1
<1>4. \A i \in 1..L - 1 : at(i) \in 1..L /\ r.queue[i] = s.queue[at(i)] /\ (i >= 2 => at(i) >= 2)
  BY <1>1, <1>2
<1>5. \A i, k \in 1..L - 1 : i < k => at(i) < at(k) BY <1>1
<1> HIDE DEF at, L, m
<1>6. Ordered(r)
  <2>1. \A i, k \in 1..L - 1 : i < k => r.queue[i].seq < r.queue[k].seq
    BY <1>1, <1>4, <1>5 DEF Ordered
  <2>2. \A i \in 1..L - 1 : r.queue[i].seq < r.sendSeq
    BY <1>1, <1>4 DEF Ordered
  <2>3. QED BY <1>3, <2>1, <2>2 DEF Ordered
<1>7. Below(r, N)
  <2> SUFFICES ASSUME NEW n \in N, NEW i \in 2..Len(r.queue)
               PROVE  n < r.queue[i].seq
    BY DEF Below
  <2>1. i \in 1..L - 1 /\ i >= 2 BY <1>1, <1>2
  <2>2. at(i) \in 2..L /\ r.queue[i] = s.queue[at(i)] BY <1>1, <1>4, <2>1
  <2>3. QED BY <2>2 DEF Below, L
<1>8. WindowIsPrefix(r)
  <2>1. CASE j <= m
    <3>1. Len(r.active) = m - 1 BY <2>1 DEF m
    <3>2. ASSUME NEW i \in 1..m - 1
          PROVE  /\ TimerSeq(r.active[i]) = r.queue[i].seq
                 /\ r.active[i].pkt.header = "WNSRP_COMMAND"
      <4>1. at(i) \in 1..m BY <1>1, <2>1 DEF at
      <4>2. r.active[i].pkt = s.active[at(i)].pkt BY <2>1 DEF at, m
      <4>3. r.queue[i] = s.queue[at(i)] BY <1>1, <1>4
      <4>4. /\ TimerSeq(s.active[at(i)]) = s.queue[at(i)].seq
            /\ s.active[at(i)].pkt.header = "WNSRP_COMMAND"
        BY <4>1 DEF WindowIsPrefix, m
      <4>5. QED BY <4>2, <4>3, <4>4 DEF TimerSeq
    <3>3. m - 1 <= L - 1 /\ m - 1 <= Window BY <1>1
    <3>4. QED BY <1>2, <3>1, <3>2, <3>3 DEF WindowIsPrefix
  <2>2. CASE ~(j <= m)
    <3>1. r.active = s.active /\ Len(r.active) = m BY <2>2 DEF m
    <3>2. m <= L - 1 BY <1>1, <2>2 DEF L
    <3>3. ASSUME NEW i \in 1..m
          PROVE  /\ TimerSeq(r.active[i]) = r.queue[i].seq
                 /\ r.active[i].pkt.header = "WNSRP_COMMAND"
      <4>1. i < j /\ i \in 1..L - 1 BY <1>1, <2>2, <3>2 DEF L
      <4>2. r.queue[i] = s.queue[i] BY <1>2, <4>1
      <4>3. QED BY <3>1, <4>2 DEF WindowIsPrefix, m
    <3>4. QED BY <1>1, <1>2, <3>1, <3>2, <3>3 DEF WindowIsPrefix
  <2>3. QED BY <2>1, <2>2
<1>9. r.queue # <<>> => r.queue[1] = IF j = 1 THEN s.queue[2] ELSE s.queue[1]
  <2>1. ASSUME r.queue # <<>> PROVE 1 \in 1..L - 1 BY <1>1, <1>3, <2>1
  <2>2. at(1) = IF j = 1 THEN 2 ELSE 1 BY <1>1 DEF at
  <2>3. QED BY <1>4, <2>1, <2>2
<1>10. QED BY <1>2, <1>6, <1>7, <1>8, <1>9 DEF L

\* The head of the queue is answered while its SRP timer runs.
LEMMA HeadAnswered ==
    ASSUME NEW s, NEW r, NEW N, TerminalInv(s, N), s.tx = <<>>,
           s.status = "WAIT_RESPONSE", s.save # <<>>,
           DOMAIN r = Fields, r.status = s.status, r.wnsrp = s.wnsrp,
           r.sendSeq = s.sendSeq, r.tx = s.tx, r.save = <<>>,
           r.queue = RemoveAt(s.queue, 1),
           r.active = IF s.active = <<>> THEN s.active ELSE RemoveAt(s.active, 1)
    PROVE  Answered(r, N)
<1>1. /\ Terminal(s) /\ Ordered(s) /\ WindowIsPrefix(s) /\ Below(s, N)
      /\ s.wnsrp # "WNSRP_FULL" /\ s.queue # <<>>
  BY DEF TerminalInv, SaveIsHead, Late, Below
<1>2. /\ Len(s.queue) \in Nat /\ Len(s.queue) >= 1 /\ Len(s.active) \in Nat
      /\ s.active = <<>> <=> Len(s.active) = 0
  BY <1>1, QueueTypes
<1>3. 1 \in 1..Len(s.queue) /\ RemoveAt(s.queue, 1) \in Seq(ChunkSet)
  BY <1>1, <1>2, RemoveAtFacts DEF Terminal
<1>4. ASSUME s.active # <<>>
      PROVE  /\ r.active \in Seq(TimerSet) /\ Len(r.active) = Len(s.active) - 1
             /\ \A i \in 1..Len(s.active) - 1 : r.active[i] = s.active[i + 1]
  <2>1. 1 \in 1..Len(s.active) BY <1>2, <1>4
  <2>2. /\ RemoveAt(s.active, 1) \in Seq(TimerSet)
        /\ Len(RemoveAt(s.active, 1)) = Len(s.active) - 1
        /\ \A i \in 1..Len(s.active) - 1 :
             RemoveAt(s.active, 1)[i] = IF i < 1 THEN s.active[i] ELSE s.active[i + 1]
    BY <1>1, <2>1, RemoveAtFacts DEF Terminal
  <2>3. QED BY <1>2, <1>4, <2>2
<1>5. Terminal(r) BY <1>1, <1>3, <1>4 DEF Terminal
<1>6. IF 1 <= Len(s.active)
      THEN /\ Len(r.active) = Len(s.active) - 1
           /\ \A i \in 1..Len(s.active) - 1 :
                r.active[i].pkt = IF i < 1 THEN s.active[i].pkt ELSE s.active[i + 1].pkt
      ELSE r.active = s.active
  BY <1>2, <1>4
<1>7. /\ Ordered(r) /\ WindowIsPrefix(r) /\ Below(r, N) /\ Len(r.queue) = Len(s.queue) - 1
  BY <1>1, <1>3, <1>5, <1>6, RemovedKeeps
<1>8. Len(r.active) < Window
  BY <1>1, <1>2, <1>6, SrpAssumption DEF WindowIsPrefix
<1>9. r.wnsrp = "NO_WNSRP" => r.active = <<>> BY DEF TerminalInv, Covered
<1>10. r.wnsrp = "WNSRP_TX" => Len(r.active) >= 1 \/ Len(r.active) = Len(r.queue)
  <2>1. s.wnsrp = "WNSRP_TX" => Len(s.active) >= 2 \/ Len(s.active) = Len(s.queue)
    BY DEF TerminalInv, Covered, TwoUnderWay
  <2>2. QED BY <1>2, <1>6, <1>7, <2>1
<1>11. \A i \in 1..Len(r.tx) : WnsrpBelow(r.tx[i], r.sendSeq) OBVIOUS
<1>12. QED BY <1>1, <1>5, <1>7, <1>8, <1>9, <1>10, <1>11 DEF Answered

\* A response that changes nothing.
LEMMA SilentKeeps ==
    ASSUME NEW s, NEW N, TerminalInv(s, N), s.tx = <<>>
    PROVE  TerminalInv(s, N) /\ Sends(s, {})
BY DEF Sends

\* A response without a number answers the head.
LEMMA SrpResponseKeeps ==
    ASSUME NEW s, NEW N, TerminalInv(s, N), s.tx = <<>>, s.status = "WAIT_RESPONSE"
    PROVE  /\ TerminalInv(OnSrpResponse(s), N) /\ Sends(OnSrpResponse(s), {})
           /\ OnSrpResponse(s).sendSeq = s.sendSeq
<1>1. CASE s.save = <<>> BY <1>1, SilentKeeps DEF OnSrpResponse
<1>2. CASE s.save # <<>>
  <2> DEFINE s1 == IF s.active = <<>> THEN s ELSE RemoveActiveWnsrpTimer(s, 1)
  <2> DEFINE s2 == SrpCommandClear(s1, TimerSeq(s.save[1]))
  <2> DEFINE r == [s2 EXCEPT !.save = <<>>]
  <2>1. OnSrpResponse(s) = SendNext(r) BY <1>2 DEF OnSrpResponse
  <2>2. /\ Terminal(s) /\ Ordered(s) /\ s.queue # <<>>
        /\ TimerSeq(s.save[1]) = s.queue[1].seq
    BY <1>2 DEF TerminalInv, SaveIsHead
  <2>3. Len(s.queue) \in Nat /\ Len(s.queue) >= 1 BY <2>2, QueueTypes
  <2>4. /\ DOMAIN s1 = Fields /\ s1.status = s.status /\ s1.wnsrp = s.wnsrp
        /\ s1.sendSeq = s.sendSeq /\ s1.tx = s.tx /\ s1.save = s.save /\ s1.queue = s.queue
        /\ s1.active = IF s.active = <<>> THEN s.active ELSE RemoveAt(s.active, 1)
    BY <2>2 DEF Terminal, RemoveActiveWnsrpTimer, Fields
  <2>5. s1.active \in Seq(TimerSet)
    <3>1. s.active # <<>> => 1 \in 1..Len(s.active) BY <2>2, QueueTypes
    <3>2. QED BY <2>2, <2>4, <3>1, RemoveAtFacts DEF Terminal
  <2> HIDE DEF s1
  <2>6. Terminal(s1) /\ Ordered(s1) BY <2>2, <2>4, <2>5 DEF Terminal, Ordered
  <2>7. s2 = [s1 EXCEPT !.queue = RemoveAt(s.queue, 1)]
    <3>1. 1 \in 1..Len(s1.queue) BY <2>3, <2>4
    <3>2. SrpCommandClear(s1, s1.queue[1].seq) = [s1 EXCEPT !.queue = RemoveAt(s1.queue, 1)]
      BY <2>6, <3>1, ClearAt
    <3>3. QED BY <2>2, <2>4, <3>2
  <2> HIDE DEF s2
  <2>8. /\ DOMAIN r = Fields /\ r.status = s.status /\ r.wnsrp = s.wnsrp
        /\ r.sendSeq = s.sendSeq /\ r.tx = s.tx /\ r.save = <<>>
        /\ r.queue = RemoveAt(s.queue, 1)
        /\ r.active = IF s.active = <<>> THEN s.active ELSE RemoveAt(s.active, 1)
    BY <2>4, <2>7 DEF Fields
  <2> HIDE DEF r
  <2>9. Answered(r, N) BY <1>2, <2>8, HeadAnswered
  <2>10. QED BY <2>1, <2>8, <2>9, SendNextKeeps
<1>3. QED BY <1>1, <1>2

\* An NSRP response, which may be late: it can only answer the head.
LEMMA NsrpResponseKeeps ==
    ASSUME NEW s, NEW N, TerminalInv(s, N), s.tx = <<>>, s.status = "WAIT_RESPONSE",
           NEW n \in N
    PROVE  /\ TerminalInv(OnNsrpResponse(s, n), N) /\ Sends(OnNsrpResponse(s, n), {})
           /\ OnNsrpResponse(s, n).sendSeq = s.sendSeq
<1> DEFINE s1 == SrpCommandClear(s, n)
<1> DEFINE s2 == IF ActiveWith(s1, n) = {} THEN s1
                 ELSE RemoveActiveWnsrpTimer(s1, Min(ActiveWith(s1, n)))
<1>1. OnNsrpResponse(s, n) = IF s2.save # <<>> /\ TimerSeq(s2.save[1]) = n
                             THEN SendNext([s2 EXCEPT !.save = <<>>]) ELSE s2
  BY DEF OnNsrpResponse
<1>2. /\ Terminal(s) /\ Ordered(s) /\ WindowIsPrefix(s) /\ Below(s, N) /\ SaveIsHead(s)
  BY DEF TerminalInv, Late, Below
<1>3. /\ Len(s.queue) \in Nat /\ DOMAIN s.queue = 1..Len(s.queue) /\ Len(s.active) \in Nat
      /\ \A i \in 1..Len(s.queue) : s.queue[i].seq \in Nat
      /\ s.queue = <<>> <=> Len(s.queue) = 0
      /\ s.active = <<>> <=> Len(s.active) = 0
  BY <1>2, QueueTypes
<1>4. n \in Nat /\ \A i \in 2..Len(s.queue) : n < s.queue[i].seq BY <1>2 DEF Below
<1>5. CASE s.queue = <<>> \/ s.queue[1].seq # n
  <2>1. \A i \in DOMAIN s.queue : s.queue[i].seq # n
    <3>1. \A i \in 1..Len(s.queue) : i = 1 \/ i \in 2..Len(s.queue) BY <1>3
    <3>2. QED BY <1>3, <1>4, <1>5, <3>1
  <2>2. s2 = s BY <1>2, <2>1, ClearNothing, ActiveNothing
  <2>3. ~(s.save # <<>> /\ TimerSeq(s.save[1]) = n) BY <1>2, <1>5 DEF SaveIsHead
  <2>4. QED BY <1>1, <2>2, <2>3, SilentKeeps
<1>6. CASE s.queue # <<>> /\ s.queue[1].seq = n
  <2>1. 1 \in 1..Len(s.queue) BY <1>3, <1>6
  <2>2. s1 = [s EXCEPT !.queue = RemoveAt(s.queue, 1)] BY <1>2, <1>6, <2>1, ClearAt
  <2> HIDE DEF s1
  <2>3. /\ DOMAIN s1 = Fields /\ s1.status = s.status /\ s1.wnsrp = s.wnsrp
        /\ s1.sendSeq = s.sendSeq /\ s1.tx = s.tx /\ s1.save = s.save
        /\ s1.queue = RemoveAt(s.queue, 1) /\ s1.active = s.active
    BY <1>2, <2>2 DEF Terminal, Fields
  <2>4. ActiveWith(s1, n) = IF 1 <= Len(s.active) THEN {1} ELSE {}
    BY <1>2, <1>6, <2>1, <2>3, ActiveAt
  <2>5. /\ DOMAIN s2 = Fields /\ s2.status = s.status /\ s2.wnsrp = s.wnsrp
        /\ s2.sendSeq = s.sendSeq /\ s2.tx = s.tx /\ s2.save = s.save
        /\ s2.queue = RemoveAt(s.queue, 1)
        /\ s2.active = IF s.active = <<>> THEN s.active ELSE RemoveAt(s.active, 1)
    <3>1. CASE s.active = <<>>
      <4>1. s2 = s1 BY <1>3, <2>4, <3>1
      <4>2. QED BY <2>3, <3>1, <4>1
    <3>2. CASE s.active # <<>>
      <4>1. ActiveWith(s1, n) = {1} BY <1>3, <2>4, <3>2
      <4>2. s2 = [s1 EXCEPT !.active = RemoveAt(@, 1)]
        <5>1. Min({1}) = 1 BY MinOfOne
        <5>2. Min(ActiveWith(s1, n)) = 1 /\ ActiveWith(s1, n) # {} BY <4>1, <5>1
        <5>3. QED BY <5>2 DEF RemoveActiveWnsrpTimer
      <4> HIDE DEF s2
      <4>3. QED BY <2>3, <3>2, <4>2 DEF Fields
    <3>3. QED BY <3>1, <3>2
  <2> HIDE DEF s2
  <2>6. CASE s.save # <<>>
    <3> DEFINE r == [s2 EXCEPT !.save = <<>>]
    <3>1. TimerSeq(s2.save[1]) = n /\ s2.save # <<>>
      BY <1>2, <1>6, <2>5, <2>6 DEF SaveIsHead
    <3>2. OnNsrpResponse(s, n) = SendNext(r) BY <1>1, <3>1
    <3>3. /\ DOMAIN r = Fields /\ r.status = s.status /\ r.wnsrp = s.wnsrp
          /\ r.sendSeq = s.sendSeq /\ r.tx = s.tx /\ r.save = <<>>
          /\ r.queue = RemoveAt(s.queue, 1)
          /\ r.active = IF s.active = <<>> THEN s.active ELSE RemoveAt(s.active, 1)
      BY <2>5 DEF Fields
    <3> HIDE DEF r
    <3>4. Answered(r, N) BY <2>6, <3>3, HeadAnswered
    <3>5. QED BY <3>2, <3>3, <3>4, SendNextKeeps
  <2>7. CASE s.save = <<>>
    <3>1. OnNsrpResponse(s, n) = s2 BY <1>1, <2>5, <2>7
    <3>2. /\ s.wnsrp = "WNSRP_FULL" /\ s.active # <<>> /\ TwoUnderWay(s)
      BY <1>6, <2>7 DEF TerminalInv, Covered, Late
    <3>3. /\ 1 \in 1..Len(s.active) /\ Len(s.active) >= 1 BY <1>3, <3>2
    <3>4. /\ s2.active \in Seq(TimerSet) /\ Len(s2.active) = Len(s.active) - 1
          /\ \A i \in 1..Len(s.active) - 1 :
               s2.active[i] = IF i < 1 THEN s.active[i] ELSE s.active[i + 1]
      <4>1. s2.active = RemoveAt(s.active, 1) BY <2>5, <3>2
      <4>2. s.active \in Seq(TimerSet) BY <1>2 DEF Terminal
      <4> HIDE DEF s2
      <4>3. QED BY <3>3, <4>1, <4>2, RemoveAtFacts
    <3>5. s2.queue \in Seq(ChunkSet) BY <1>2, <2>1, <2>5, RemoveAtFacts DEF Terminal
    <3>6. Terminal(s2) BY <1>2, <2>5, <3>4, <3>5 DEF Terminal
    <3>7. IF 1 <= Len(s.active)
          THEN /\ Len(s2.active) = Len(s.active) - 1
               /\ \A i \in 1..Len(s.active) - 1 :
                    s2.active[i].pkt = IF i < 1 THEN s.active[i].pkt ELSE s.active[i + 1].pkt
          ELSE s2.active = s.active
      BY <3>3, <3>4
    <3>8. /\ Ordered(s2) /\ WindowIsPrefix(s2) /\ Below(s2, N)
          /\ Len(s2.queue) = Len(s.queue) - 1
          /\ s2.queue # <<>> => s2.queue[1] = s.queue[2]
      <4>1. s2.queue # <<>> => s2.queue[1] = IF 1 = 1 THEN s.queue[2] ELSE s.queue[1]
        BY <1>2, <2>1, <2>5, <3>6, <3>7, RemovedKeeps
      <4>2. QED BY <1>2, <2>1, <2>5, <3>6, <3>7, <4>1, RemovedKeeps
    <3>9. s2.queue # <<>> => Len(s.queue) >= 2 /\ 2 \in 2..Len(s.queue)
      BY <1>3, <3>6, <3>8, QueueTypes
    <3>10. s2.queue # <<>> => s2.active # <<>>
      <4>1. s2.queue # <<>> => Len(s2.active) # 0
        BY <1>3, <3>2, <3>4, <3>9 DEF TwoUnderWay
      <4>2. QED BY <4>1
    <3>11. s2.queue # <<>> => s2.queue[1].seq \notin N
      <4>1. s2.queue # <<>> => \A k \in N : k \in Nat /\ k < s2.queue[1].seq /\ s2.queue[1].seq \in Nat
        BY <1>2, <1>3, <3>8, <3>9 DEF Below
      <4>2. QED BY <4>1
    <3>12. Covered(s2) BY <2>5, <3>2, <3>10 DEF Covered
    <3>13. Late(s2, N) BY <3>8, <3>11 DEF Late, Below
    <3>14. SaveIsHead(s2) BY <2>5, <2>7 DEF SaveIsHead
    <3>15. TerminalInv(s2, N) BY <3>6, <3>8, <3>12, <3>13, <3>14 DEF TerminalInv
    <3>16. QED BY <2>5, <3>1, <3>15, SilentKeeps
  <2>8. QED BY <2>6, <2>7
<1>7. QED BY <1>5, <1>6

\* A WNSRP response, once the terminal has settled on WNSRP.
LEMMA WnsrpResponseKeeps ==
    ASSUME NEW s, NEW N, TerminalInv(s, N), s.tx = <<>>, s.status = "WAIT_RESPONSE",
           s.wnsrp = "WNSRP_FULL", NEW n
    PROVE  /\ TerminalInv(OnWnsrpResponse(s, n), N) /\ Sends(OnWnsrpResponse(s, n), {})
           /\ OnWnsrpResponse(s, n).sendSeq = s.sendSeq
<1>1. /\ Terminal(s) /\ Ordered(s) /\ WindowIsPrefix(s) /\ Below(s, N) /\ s.save = <<>>
  BY DEF TerminalInv, SaveIsHead, Late, Below
<1>2. /\ Len(s.queue) \in Nat /\ DOMAIN s.queue = 1..Len(s.queue) /\ Len(s.active) \in Nat
      /\ DOMAIN s.active = 1..Len(s.active)
      /\ \A i \in 1..Len(s.queue) : s.queue[i].seq \in Nat
      /\ \A i \in 1..Len(s.active) : s.active[i] \in TimerSet
      /\ s.queue = <<>> <=> Len(s.queue) = 0
      /\ s.active = <<>> <=> Len(s.active) = 0
      /\ Len(s.active) <= Len(s.queue)
  BY <1>1, QueueTypes DEF WindowIsPrefix
<1>3. CASE \A i \in DOMAIN s.queue : s.queue[i].seq # n
  <2>1. SrpCommandClear(s, n) = s /\ ActiveWith(s, n) = {}
    BY <1>1, <1>3, ClearNothing, ActiveNothing
  <2>2. OnWnsrpResponse(s, n) = s BY <2>1 DEF OnWnsrpResponse
  <2>3. QED BY <2>2, SilentKeeps
<1>4. ASSUME NEW j \in 1..Len(s.queue), s.queue[j].seq = n
      PROVE  /\ TerminalInv(OnWnsrpResponse(s, n), N) /\ Sends(OnWnsrpResponse(s, n), {})
             /\ OnWnsrpResponse(s, n).sendSeq = s.sendSeq
  <2> DEFINE s1 == SrpCommandClear(s, n)
  <2>1. s1 = [s EXCEPT !.queue = RemoveAt(s.queue, j)] BY <1>1, <1>4, ClearAt
  <2>2. /\ DOMAIN s1 = Fields /\ s1.status = s.status /\ s1.wnsrp = s.wnsrp
        /\ s1.sendSeq = s.sendSeq /\ s1.tx = s.tx /\ s1.save = s.save
        /\ s1.queue = RemoveAt(s.queue, j) /\ s1.active = s.active
    BY <1>1, <2>1 DEF Terminal, Fields
  <2> HIDE DEF s1
  <2>3. ActiveWith(s1, n) = IF j <= Len(s.active) THEN {j} ELSE {}
    BY <1>1, <1>4, <2>2, ActiveAt
  <2>4. RemoveAt(s.queue, j) \in Seq(ChunkSet) BY <1>1, RemoveAtFacts DEF Terminal
  <2>5. CASE ~(j <= Len(s.active))
    <3>1. OnWnsrpResponse(s, n) = s1 BY <2>3, <2>5 DEF OnWnsrpResponse, s1
    <3>2. Terminal(s1) BY <1>1, <2>2, <2>4 DEF Terminal
    <3>3. /\ Ordered(s1) /\ WindowIsPrefix(s1) /\ Below(s1, N)
          /\ Len(s1.queue) = Len(s.queue) - 1
          /\ s1.queue # <<>> => s1.queue[1] = IF j = 1 THEN s.queue[2] ELSE s.queue[1]
      BY <1>1, <2>2, <2>5, <3>2, RemovedKeeps
    <3>4. s.active # <<>> /\ j # 1
      <4>1. s.queue # <<>> BY <1>2
      <4>2. s.active # <<>> BY <4>1 DEF TerminalInv, Covered
      <4>3. QED BY <1>2, <2>5, <4>2
    <3>5. s1.queue # <<>> => s1.queue[1] = s.queue[1] BY <3>3, <3>4
    <3>6. s.queue[1].seq \in N => TwoUnderWay(s1)
      <4>1. s.queue[1].seq \in N => TwoUnderWay(s) BY <1>2 DEF TerminalInv, Late
      <4>2. Len(s.active) # Len(s.queue) BY <1>2, <2>5
      <4>3. QED BY <2>2, <4>1, <4>2 DEF TwoUnderWay
    <3>7. Covered(s1) BY <2>2, <3>4 DEF Covered
    <3>8. Late(s1, N) BY <3>3, <3>5, <3>6 DEF Late, Below
    <3>9. SaveIsHead(s1) BY <1>1, <2>2 DEF SaveIsHead
    <3>10. TerminalInv(s1, N) BY <3>2, <3>3, <3>7, <3>8, <3>9 DEF TerminalInv
    <3>11. QED BY <2>2, <3>1, <3>10, SilentKeeps
  <2>6. CASE j <= Len(s.active)
    <3> DEFINE act == [k \in DOMAIN s.active |->
                         IF k < j THEN [s.active[k] EXCEPT !.n400 = 1] ELSE s.active[k]]
    <3> DEFINE again == [k \in 1..j - 1 |-> s.active[k].pkt]
    <3> DEFINE s2 == [s1 EXCEPT !.active = act]
    <3> DEFINE r == [[s2 EXCEPT !.tx = @ \o again] EXCEPT !.active = RemoveAt(@, j)]
    <3>1. OnWnsrpResponse(s, n) = SendNext(r)
      <4>1. Min({j}) = j BY <1>2, MinOfOne
      <4>2. ActiveWith(s1, n) = {j} BY <2>3, <2>6
      <4>3. Min(ActiveWith(s1, n)) = j /\ ActiveWith(s1, n) # {} BY <4>1, <4>2
      <4>4. [s1 EXCEPT !.active = [k \in DOMAIN @ |-> IF k < j THEN [@[k] EXCEPT !.n400 = 1]
                                                      ELSE @[k]]] = s2
        BY <2>2
      <4>5. QED BY <4>3, <4>4 DEF OnWnsrpResponse, s1, LowerLayerTx, RemoveActiveWnsrpTimer
    <3>2. /\ act \in Seq(TimerSet) /\ Len(act) = Len(s.active)
          /\ \A k \in 1..Len(s.active) : act[k].pkt = s.active[k].pkt
      <4>1. N400Max \in Nat \ {0} BY SrpAssumption
      <4>2. \A t \in TimerSet : /\ [t EXCEPT !.n400 = 1] \in TimerSet
                                /\ [t EXCEPT !.n400 = 1].pkt = t.pkt
        BY <4>1 DEF TimerSet
      <4>3. /\ act \in [1..Len(s.active) -> TimerSet]
            /\ \A k \in 1..Len(s.active) : act[k].pkt = s.active[k].pkt
        BY <1>2, <4>2
      <4> HIDE DEF act
      <4>4. QED BY <1>2, <4>3, SeqDef, LenProperties
    <3>3. /\ again \in Seq(FrameSet) /\ Len(again) = j - 1
          /\ \A k \in 1..j - 1 : WnsrpBelow(again[k], s.sendSeq)
      <4>1. j - 1 \in Nat /\ \A k \in 1..j - 1 : k \in 1..Len(s.active) BY <1>2, <2>6
      <4>2. \A t \in TimerSet : t.pkt \in FrameSet BY DEF TimerSet
      <4>3. again \in [1..j - 1 -> FrameSet] BY <1>2, <4>1, <4>2
      <4>6. ASSUME NEW k \in 1..j - 1 PROVE WnsrpBelow(s.active[k].pkt, s.sendSeq)
        <5>1. k \in 1..Len(s.active) /\ k \in DOMAIN s.queue BY <1>2, <4>1
        <5>2. /\ s.active[k].pkt.header = "WNSRP_COMMAND"
              /\ s.active[k].pkt.chunk.seq = s.queue[k].seq
          BY <1>1, <5>1 DEF WindowIsPrefix, TimerSeq
        <5>3. s.queue[k].seq < s.sendSeq BY <1>1, <5>1 DEF Ordered
        <5>4. QED BY <5>2, <5>3 DEF WnsrpBelow
      <4>4. \A k \in 1..j - 1 : WnsrpBelow(again[k], s.sendSeq) BY <4>6
      <4> HIDE DEF again
      <4>5. QED BY <4>1, <4>3, <4>4, SeqDef, LenProperties
    <3> HIDE DEF act, again
    <3>4. /\ DOMAIN r = Fields /\ r.status = s.status /\ r.wnsrp = s.wnsrp
          /\ r.sendSeq = s.sendSeq /\ r.tx = s.tx \o again /\ r.save = s.save
          /\ r.queue = RemoveAt(s.queue, j) /\ r.active = RemoveAt(act, j)
      BY <2>2 DEF Fields
    <3> HIDE DEF r, s2
    <3>5. r.tx = again
      <4>1. <<>> \o again = again BY <3>3, ConcatEmptySeq
      <4>2. QED BY <3>4, <4>1
    <3>6. j \in 1..Len(act) BY <1>2, <2>6, <3>2
    <3>7. /\ r.active \in Seq(TimerSet) /\ Len(r.active) = Len(s.active) - 1
          /\ \A i \in 1..Len(s.active) - 1 :
               r.active[i] = IF i < j THEN act[i] ELSE act[i + 1]
      BY <3>2, <3>4, <3>6, RemoveAtFacts
    <3>8. Terminal(r) BY <1>1, <2>4, <3>3, <3>4, <3>5, <3>7 DEF Terminal
    <3>9. \A i \in 1..Len(s.active) - 1 :
             r.active[i].pkt = IF i < j THEN s.active[i].pkt ELSE s.active[i + 1].pkt
      <4>1. \A i \in 1..Len(s.active) - 1 : i \in 1..Len(s.active) /\ i + 1 \in 1..Len(s.active)
        BY <1>2
      <4>2. QED BY <3>2, <3>7, <4>1
    <3>10. /\ Ordered(r) /\ WindowIsPrefix(r) /\ Below(r, N)
           /\ Len(r.queue) = Len(s.queue) - 1
           /\ r.queue # <<>> => r.queue[1] = IF j = 1 THEN s.queue[2] ELSE s.queue[1]
      BY <1>1, <2>6, <3>4, <3>7, <3>8, <3>9, RemovedKeeps
    <3>11. Len(r.active) < Window
      BY <1>1, <1>2, <3>7, SrpAssumption DEF WindowIsPrefix
    <3>12. r.queue # <<>> /\ r.queue[1].seq \in N =>
              Len(r.active) >= 1 \/ Len(r.active) = Len(r.queue)
      <4> SUFFICES ASSUME r.queue # <<>>, r.queue[1].seq \in N
                   PROVE  Len(r.active) >= 1 \/ Len(r.active) = Len(r.queue)
        OBVIOUS
      <4>1. Len(s.queue) >= 2 /\ 2 \in 2..Len(s.queue)
        BY <1>2, <3>8, <3>10, QueueTypes
      <4>2. j # 1
        <5>1. s.queue[2].seq \in Nat /\ \A k \in N : k < s.queue[2].seq
          BY <1>1, <1>2, <4>1 DEF Below
        <5>2. QED BY <3>10, <5>1
      <4>3. s.queue # <<>> /\ s.queue[1].seq \in N BY <1>2, <3>10, <4>1, <4>2
      <4>4. TwoUnderWay(s) BY <4>3 DEF TerminalInv, Late
      <4>5. QED BY <1>2, <3>7, <3>10, <4>4 DEF TwoUnderWay
    <3>13. \A i \in 1..Len(r.tx) : WnsrpBelow(r.tx[i], r.sendSeq) BY <3>3, <3>4, <3>5
    <3>14. Answered(r, N)
      BY <1>1, <3>4, <3>8, <3>10, <3>11, <3>12, <3>13 DEF Answered
    <3>15. QED BY <3>1, <3>4, <3>14, SendNextKeeps
  <2>7. QED BY <2>5, <2>6
<1>5. QED BY <1>2, <1>3, <1>4

\* TerminalInv reads the sender's fields only.
LEMMA SenderFields ==
    ASSUME NEW s, NEW r, NEW N, TerminalInv(s, N), DOMAIN r = Fields,
           r.status = s.status, r.wnsrp = s.wnsrp, r.sendSeq = s.sendSeq,
           r.queue = s.queue, r.save = s.save, r.active = s.active,
           r.tx \in Seq(FrameSet)
    PROVE  TerminalInv(r, N)
BY DEF TerminalInv, Terminal, Ordered, WindowIsPrefix, SaveIsHead, Covered, Late, TwoUnderWay

-----------------------------------------------------------------------------
(* Timeouts.                                                               *)

\* A command is sent again and its timer goes on.
LEMMA ResendKeeps ==
    ASSUME NEW s, NEW N, TerminalInv(s, N), s.tx = <<>>, NEW i \in Timers(s),
           SrpN400Check(TimerOf(s, i))
    PROVE  /\ TerminalInv(Resend(s, i), N) /\ Sends(Resend(s, i), {})
           /\ Resend(s, i).sendSeq = s.sendSeq
<1>1. /\ Terminal(s) /\ Ordered(s) /\ WindowIsPrefix(s) /\ SaveIsHead(s) /\ Covered(s) /\ Late(s, N)
  BY DEF TerminalInv
<1>2. \A t \in TimerSet : t.n400 < N400Max =>
         /\ [t EXCEPT !.n400 = @ + 1] \in TimerSet
         /\ [t EXCEPT !.n400 = @ + 1].pkt = t.pkt
         /\ t.pkt \in FrameSet
  BY SrpAssumption DEF TimerSet
<1>3. /\ Len(s.queue) \in Nat /\ Len(s.active) \in Nat
      /\ DOMAIN s.active = 1..Len(s.active)
      /\ \A k \in 1..Len(s.active) : s.active[k] \in TimerSet
  BY <1>1, QueueTypes
<1>4. CASE i = 0
  <2>1. s.save # <<>> BY <1>3, <1>4 DEF Timers
  <2>2. /\ Len(s.save) = 1 /\ s.save[1] \in TimerSet /\ DOMAIN s.save = 1..1
    <3>1. s.save \in Seq(TimerSet) /\ Len(s.save) <= 1 BY <1>1 DEF Terminal
    <3>2. Len(s.save) \in Nat /\ Len(s.save) # 0 BY <2>1, <3>1, EmptySeq, LenProperties
    <3>3. Len(s.save) = 1
      <4>1. \A k \in Nat : k <= 1 /\ k # 0 => k = 1 OBVIOUS
      <4>2. QED BY <3>1, <3>2, <4>1, Zenon
    <3>4. DOMAIN s.save = 1..1 /\ \A k \in 1..1 : s.save[k] \in TimerSet
      BY <3>1, <3>3, LenProperties
    <3>5. QED BY <3>3, <3>4
  <2> DEFINE v == [s.save EXCEPT ![1].n400 = @ + 1]
  <2> DEFINE r == [[s EXCEPT !.save = v] EXCEPT !.tx = @ \o <<s.save[1].pkt>>]
  <2>3. Resend(s, i) = r BY <1>4, <1>1 DEF Resend, LowerLayerTx, Terminal, Fields
  <2>4. /\ v \in Seq(TimerSet) /\ Len(v) = 1 /\ v[1].pkt = s.save[1].pkt
        /\ s.save[1].pkt \in FrameSet
    <3>1. s.save[1].n400 < N400Max BY <1>4 DEF SrpN400Check, TimerOf
    <3>2. v = [s.save EXCEPT ![1] = [s.save[1] EXCEPT !.n400 = @ + 1]] BY <2>2
    <3>3. /\ [s.save[1] EXCEPT !.n400 = @ + 1] \in TimerSet
          /\ [s.save[1] EXCEPT !.n400 = @ + 1].pkt = s.save[1].pkt
          /\ s.save[1].pkt \in FrameSet
      BY <1>2, <2>2, <3>1
    <3>4. s.save \in Seq(TimerSet) /\ 1 \in 1..Len(s.save) BY <1>1, <2>2 DEF Terminal
    <3> HIDE DEF v
    <3>5. QED BY <2>2, <3>2, <3>3, <3>4, ExceptSeq
  <2> HIDE DEF v
  <2>5. /\ DOMAIN r = Fields /\ r.status = s.status /\ r.wnsrp = s.wnsrp
        /\ r.sendSeq = s.sendSeq /\ r.queue = s.queue /\ r.active = s.active
        /\ r.save = v /\ r.tx = <<>> \o <<s.save[1].pkt>>
    BY <1>1 DEF Terminal, Fields
  <2> HIDE DEF r
  <2>6. r.tx = <<s.save[1].pkt>> /\ r.tx \in Seq(FrameSet)
    <3>1. <<s.save[1].pkt>> \in Seq(FrameSet) BY <2>4
    <3>2. QED BY <2>5, <3>1, ConcatEmptySeq
  <2>7. Terminal(r)
    <3>1. r.save \in Seq(TimerSet) /\ Len(r.save) <= 1
      <4>1. 1 <= 1 OBVIOUS
      <4>2. QED BY <2>4, <2>5, <4>1, Zenon
    <3>2. QED BY <1>1, <2>5, <2>6, <3>1 DEF Terminal
  <2>8. r.save # <<>>
    <3>1. Len(v) # 0 BY <2>4
    <3>2. QED BY <2>5, <3>1
  <2>9. SaveIsHead(r) BY <1>1, <2>1, <2>4, <2>5 DEF SaveIsHead, TimerSeq
  <2>10. Ordered(r) /\ WindowIsPrefix(r) BY <1>1, <2>5 DEF Ordered, WindowIsPrefix
  <2>11. Covered(r) BY <1>1, <2>5, <2>8 DEF Covered, TwoUnderWay
  <2>12. Late(r, N) BY <1>1, <2>5 DEF Late, TwoUnderWay
  <2>13. Sends(r, {})
    <3>1. /\ s.save[1].pkt.header = "SRP_COMMAND" /\ s.queue # <<>> /\ s.wnsrp # "WNSRP_FULL"
          /\ s.save[1].pkt.chunk.seq = s.queue[1].seq
      BY <1>1, <2>1 DEF SaveIsHead, TimerSeq
    <3>2. Len(r.tx) = 1 /\ r.tx[1] = s.save[1].pkt BY <2>6
    <3>3. QED BY <2>5, <3>1, <3>2 DEF Sends
  <2>14. QED BY <2>3, <2>5, <2>7, <2>9, <2>10, <2>11, <2>12, <2>13 DEF TerminalInv
<1>5. CASE i # 0
  <2>1. i \in 1..Len(s.active) BY <1>3, <1>5 DEF Timers
  <2> DEFINE v == [s.active EXCEPT ![i].n400 = @ + 1]
  <2> DEFINE r == [[s EXCEPT !.active = v] EXCEPT !.tx = @ \o <<s.active[i].pkt>>]
  <2>2. Resend(s, i) = r BY <1>5, <1>1 DEF Resend, LowerLayerTx, Terminal, Fields
  <2>3. /\ v \in Seq(TimerSet) /\ Len(v) = Len(s.active)
        /\ \A k \in 1..Len(s.active) : v[k].pkt = s.active[k].pkt
        /\ s.active[i].pkt \in FrameSet
    <3>1. s.active[i].n400 < N400Max BY <1>5 DEF SrpN400Check, TimerOf
    <3>2. v = [s.active EXCEPT ![i] = [s.active[i] EXCEPT !.n400 = @ + 1]] BY <1>3, <2>1
    <3>3. /\ [s.active[i] EXCEPT !.n400 = @ + 1] \in TimerSet
          /\ [s.active[i] EXCEPT !.n400 = @ + 1].pkt = s.active[i].pkt
          /\ s.active[i].pkt \in FrameSet
      BY <1>2, <1>3, <2>1, <3>1
    <3>4. s.active \in Seq(TimerSet) BY <1>1 DEF Terminal
    <3> HIDE DEF v
    <3>5. QED BY <2>1, <3>2, <3>3, <3>4, ExceptSeq
  <2> HIDE DEF v
  <2>4. /\ DOMAIN r = Fields /\ r.status = s.status /\ r.wnsrp = s.wnsrp
        /\ r.sendSeq = s.sendSeq /\ r.queue = s.queue /\ r.save = s.save
        /\ r.active = v /\ r.tx = <<>> \o <<s.active[i].pkt>>
    BY <1>1 DEF Terminal, Fields
  <2> HIDE DEF r
  <2>5. r.tx = <<s.active[i].pkt>> /\ r.tx \in Seq(FrameSet)
    <3>1. <<s.active[i].pkt>> \in Seq(FrameSet) BY <2>3
    <3>2. QED BY <2>4, <3>1, ConcatEmptySeq
  <2>6. Terminal(r) BY <1>1, <2>3, <2>4, <2>5 DEF Terminal
  <2>7. Ordered(r) /\ SaveIsHead(r) BY <1>1, <2>4 DEF Ordered, SaveIsHead
  <2>8. WindowIsPrefix(r) BY <1>1, <2>3, <2>4 DEF WindowIsPrefix, TimerSeq
  <2>9. Len(r.active) = Len(s.active) /\ r.active # <<>> /\ s.active # <<>>
    <3>1. Len(s.active) # 0 BY <1>3, <2>1
    <3>2. QED BY <2>3, <2>4, <3>1
  <2>10. Covered(r) BY <1>1, <2>4, <2>9 DEF Covered, TwoUnderWay
  <2>11. Late(r, N) BY <1>1, <2>4, <2>9 DEF Late, TwoUnderWay
  <2>12. Sends(r, {})
    <3>1. /\ s.active[i].pkt.header = "WNSRP_COMMAND"
          /\ s.active[i].pkt.chunk.seq = s.queue[i].seq
      BY <1>1, <2>1 DEF WindowIsPrefix, TimerSeq
    <3>2. Len(r.tx) = 1 /\ r.tx[1] = s.active[i].pkt BY <2>5
    <3>4. i \in DOMAIN s.queue BY <1>1, <1>3, <2>1, QueueTypes DEF WindowIsPrefix
    <3>5. s.queue[i].seq < r.sendSeq BY <1>1, <2>4, <3>4 DEF Ordered
    <3>3. QED BY <3>1, <3>2, <3>5 DEF Sends
  <2>13. QED BY <2>2, <2>4, <2>6, <2>7, <2>8, <2>10, <2>11, <2>12 DEF TerminalInv
<1>6. QED BY <1>4, <1>5

-----------------------------------------------------------------------------
(* The receiver and the frames.                                            *)

\* The receiver leaves the sender's state alone and hands down at most the
\* response to the frame, which carries the number of the command.
LEMMA ReceiverKeeps ==
    ASSUME NEW s, NEW N, TerminalInv(s, N), s.tx = <<>>, NEW frame \in FrameSet,
           NEW event \in {"COMMAND", "WNSRP_COMMAND"}
    PROVE  /\ TerminalInv(Srp_0_2(s, frame, event), N)
           /\ Sends(Srp_0_2(s, frame, event),
                    IF event = "COMMAND" THEN {frame.chunk.seq} ELSE {})
           /\ Srp_0_2(s, frame, event).sendSeq = s.sendSeq
<1> DEFINE seq == frame.chunk.seq
<1> DEFINE header == CASE event = "WNSRP_COMMAND" -> "WNSRP_RESPONSE"
                       [] event = "COMMAND" /\ s.useNSRP -> "NSRP_RESPONSE"
                       [] OTHER -> "SRP_RESPONSE"
<1> DEFINE s1 == IF ~s.firstCmd THEN s
                 ELSE [s EXCEPT !.firstCmd = FALSE,
                                !.recvSeq = IF event = "WNSRP_COMMAND" THEN 0 ELSE seq]
<1> DEFINE f == SrpResponseCreate(seq, header)
<1> DEFINE answered == [s1 EXCEPT !.tx = @ \o <<f>>]
<1> DEFINE taken == DeliverPending(AddPendingRxFrag(answered, frame.chunk))
<1> DEFINE r == Srp_0_2(s, frame, event)
<1>1. r \in {s1, answered, taken}
  BY DEF Srp_0_2, LowerLayerTx
<1>2. DOMAIN s = Fields BY DEF TerminalInv, Terminal
<1>3. /\ f \in FrameSet /\ f.header # "SRP_COMMAND" /\ f.header # "WNSRP_COMMAND"
      /\ f.header = "NSRP_RESPONSE" => event = "COMMAND" /\ f.chunk.seq = seq
  BY SrpAssumption DEF SrpResponseCreate, Chunk, FrameSet, ChunkSet, ResponseHeader
<1> HIDE DEF f, header
<1>4. /\ DOMAIN s1 = Fields /\ s1.status = s.status /\ s1.wnsrp = s.wnsrp
      /\ s1.sendSeq = s.sendSeq /\ s1.queue = s.queue /\ s1.save = s.save
      /\ s1.active = s.active /\ s1.tx = <<>>
  BY <1>2 DEF Fields
<1> HIDE DEF s1
<1>5. /\ DOMAIN answered = Fields /\ answered.status = s.status /\ answered.wnsrp = s.wnsrp
      /\ answered.sendSeq = s.sendSeq /\ answered.queue = s.queue /\ answered.save = s.save
      /\ answered.active = s.active /\ answered.tx = <<>> \o <<f>>
  BY <1>4 DEF Fields
<1> HIDE DEF answered
<1>6. /\ DOMAIN taken = Fields /\ taken.status = s.status /\ taken.wnsrp = s.wnsrp
      /\ taken.sendSeq = s.sendSeq /\ taken.queue = s.queue /\ taken.save = s.save
      /\ taken.active = s.active /\ taken.tx = <<>> \o <<f>>
  BY <1>5 DEF Fields, DeliverPending, AddPendingRxFrag
<1> HIDE DEF taken
<1>7. <<>> \o <<f>> = <<f>> /\ <<f>> \in Seq(FrameSet) /\ <<>> \in Seq(FrameSet)
  BY <1>3, ConcatEmptySeq
<1>8. /\ DOMAIN r = Fields /\ r.status = s.status /\ r.wnsrp = s.wnsrp
      /\ r.sendSeq = s.sendSeq /\ r.queue = s.queue /\ r.save = s.save
      /\ r.active = s.active /\ (r.tx = <<>> \/ r.tx = <<f>>) /\ r.tx \in Seq(FrameSet)
  BY <1>1, <1>4, <1>5, <1>6, <1>7
<1> HIDE DEF r
<1>9. TerminalInv(r, N) BY <1>8, SenderFields
<1>10. Sends(r, IF event = "COMMAND" THEN {seq} ELSE {})
  <2>1. \A i \in 1..Len(r.tx) : r.tx[i] = f BY <1>8
  <2>2. QED BY <1>3, <2>1 DEF Sends
<1>11. QED BY <1>8, <1>9, <1>10 DEF r

\* The terminal settles on WNSRP or gives it up while that is open.
LEMMA StatusSetKeeps ==
    ASSUME NEW s, NEW N, TerminalInv(s, N), s.wnsrp = "WNSRP_TX",
           NEW new \in {"NO_WNSRP", "WNSRP_FULL"}
    PROVE  LET r == WnsrpStatusSet(s, new) IN
           /\ TerminalInv(r, N) /\ r.wnsrp = new
           /\ r.tx = s.tx /\ r.status = s.status /\ r.sendSeq = s.sendSeq
           /\ r.handleWNSRP = s.handleWNSRP
<1> DEFINE r == WnsrpStatusSet(s, new)
<1>1. /\ Terminal(s) /\ Ordered(s) /\ WindowIsPrefix(s) /\ SaveIsHead(s) /\ Covered(s) /\ Late(s, N)
      /\ TwoUnderWay(s)
  BY DEF TerminalInv, Covered
<1>2. /\ DOMAIN r = Fields /\ r.status = s.status /\ r.wnsrp = new
      /\ r.sendSeq = s.sendSeq /\ r.queue = s.queue /\ r.tx = s.tx
      /\ r.save = (IF new = "WNSRP_FULL" THEN <<>> ELSE s.save)
      /\ r.active = (IF new = "WNSRP_FULL" THEN s.active ELSE <<>>)
      /\ r.handleWNSRP = s.handleWNSRP
  BY <1>1 DEF WnsrpStatusSet, Terminal, Fields
<1> HIDE DEF r
<1>3. Len(s.queue) \in Nat /\ Len(s.active) \in Nat /\ Window \in Nat
  BY <1>1, QueueTypes, SrpAssumption
<1>4. Terminal(r)
  <2>1. r.save \in Seq(TimerSet) /\ Len(r.save) <= 1 BY <1>1, <1>2 DEF Terminal
  <2>2. r.active \in Seq(TimerSet) BY <1>1, <1>2 DEF Terminal
  <2>3. QED BY <1>1, <1>2, <2>1, <2>2 DEF Terminal
<1>5. Ordered(r) BY <1>1, <1>2 DEF Ordered
<1>6. WindowIsPrefix(r)
  <2>1. CASE new = "WNSRP_FULL" BY <1>1, <1>2, <2>1 DEF WindowIsPrefix
  <2>2. CASE new # "WNSRP_FULL" BY <1>2, <1>3, <2>2 DEF WindowIsPrefix
  <2>3. QED BY <2>1, <2>2
<1>7. SaveIsHead(r) BY <1>1, <1>2 DEF SaveIsHead
<1>8. Covered(r)
  <2>1. s.queue # <<>> => s.active # <<>>
    <3>1. s.queue # <<>> => Len(s.active) # 0
      BY <1>1, <1>3, QueueTypes DEF TwoUnderWay
    <3>2. QED BY <3>1
  <2>2. QED BY <1>1, <1>2, <2>1 DEF Covered
<1>9. Late(r, N) BY <1>1, <1>2 DEF Late, TwoUnderWay
<1>10. QED BY <1>2, <1>4, <1>5, <1>6, <1>7, <1>8, <1>9 DEF TerminalInv, r

\* Counting a response against WNSRP, which may give it up.
LEMMA CountKeeps ==
    ASSUME NEW s, NEW N, TerminalInv(s, N)
    PROVE  LET r == CountN402(s) IN
           /\ TerminalInv(r, N) /\ r.tx = s.tx /\ r.status = s.status
           /\ r.sendSeq = s.sendSeq
<1> DEFINE s1 == [s EXCEPT !.n402 = @ + 1]
<1>1. CASE s.wnsrp # "WNSRP_TX" BY <1>1 DEF CountN402
<1>2. CASE s.wnsrp = "WNSRP_TX"
  <2>1. CountN402(s) = IF s1.n402 < N402Max THEN s1 ELSE WnsrpStatusSet(s1, "NO_WNSRP")
    BY <1>2 DEF CountN402
  <2>2. /\ DOMAIN s1 = Fields /\ s1.status = s.status /\ s1.wnsrp = s.wnsrp
        /\ s1.sendSeq = s.sendSeq /\ s1.queue = s.queue /\ s1.save = s.save
        /\ s1.active = s.active /\ s1.tx = s.tx /\ s.tx \in Seq(FrameSet)
    BY DEF TerminalInv, Terminal, Fields
  <2> HIDE DEF s1
  <2>3. TerminalInv(s1, N) BY <2>2, SenderFields
  <2>4. LET r == WnsrpStatusSet(s1, "NO_WNSRP") IN
        TerminalInv(r, N) /\ r.tx = s1.tx /\ r.status = s1.status /\ r.sendSeq = s1.sendSeq
    BY <1>2, <2>2, <2>3, StatusSetKeeps
  <2>5. QED BY <2>1, <2>2, <2>3, <2>4
<1>3. QED BY <1>1, <1>2

\* What a frame does before it becomes an event.
LEMMA NoteKeeps ==
    ASSUME NEW s, NEW N, TerminalInv(s, N), NEW frame \in FrameSet
    PROVE  LET r == SrpNoteFrame(s, frame) IN
           /\ TerminalInv(r, N) /\ r.tx = s.tx /\ r.status = s.status
           /\ r.sendSeq = s.sendSeq
           /\ frame.header = "WNSRP_RESPONSE" /\ r.handleWNSRP /\ r.wnsrp # "NO_WNSRP"
                 => r.wnsrp = "WNSRP_FULL"
<1> DEFINE r == SrpNoteFrame(s, frame)
<1>1. frame.header \in CommandHeader \cup ResponseHeader BY DEF FrameSet
<1>2. CASE frame.header = "SRP_COMMAND"
  <2>1. r = s \/ (s.wnsrp = "WNSRP_TX" /\ r = WnsrpStatusSet(s, "NO_WNSRP"))
    BY <1>2 DEF SrpNoteFrame
  <2> HIDE DEF r
  <2>2. TerminalInv(r, N) /\ r.tx = s.tx /\ r.status = s.status /\ r.sendSeq = s.sendSeq
    BY <2>1, StatusSetKeeps
  <2>3. QED BY <1>2, <2>2 DEF r
<1>3. CASE frame.header = "SRP_RESPONSE"
  <2>1. r = CountN402(s) BY <1>3 DEF SrpNoteFrame
  <2> HIDE DEF r
  <2>2. TerminalInv(r, N) /\ r.tx = s.tx /\ r.status = s.status /\ r.sendSeq = s.sendSeq
    BY <2>1, CountKeeps
  <2>3. QED BY <1>3, <2>2 DEF r
<1>4. CASE frame.header = "NSRP_RESPONSE"
  <2> DEFINE s1 == CountN402(s)
  <2>1. r = [s1 EXCEPT !.firstNSRPResp = @ \/ s1.useNSRP] BY <1>4 DEF SrpNoteFrame
  <2>2. TerminalInv(s1, N) /\ s1.tx = s.tx /\ s1.status = s.status /\ s1.sendSeq = s.sendSeq BY CountKeeps
  <2> HIDE DEF r, s1
  <2>3. /\ DOMAIN r = Fields /\ r.status = s1.status /\ r.wnsrp = s1.wnsrp
        /\ r.sendSeq = s1.sendSeq /\ r.queue = s1.queue /\ r.save = s1.save
        /\ r.active = s1.active /\ r.tx = s1.tx /\ s1.tx \in Seq(FrameSet)
    BY <2>1, <2>2 DEF TerminalInv, Terminal, Fields
  <2>4. TerminalInv(r, N) BY <2>2, <2>3, SenderFields
  <2>5. QED BY <1>4, <2>2, <2>3, <2>4 DEF r
<1>5. CASE frame.header \in {"WNSRP_COMMAND", "WNSRP_RESPONSE"}
  <2>1. r = IF s.handleWNSRP /\ s.wnsrp = "WNSRP_TX"
            THEN WnsrpStatusSet(s, "WNSRP_FULL") ELSE s
    BY <1>5 DEF SrpNoteFrame
  <2> HIDE DEF r
  <2>2. CASE s.handleWNSRP /\ s.wnsrp = "WNSRP_TX"
    <3>1. r = WnsrpStatusSet(s, "WNSRP_FULL") BY <2>1, <2>2
    <3>2. /\ TerminalInv(r, N) /\ r.tx = s.tx /\ r.status = s.status /\ r.wnsrp = "WNSRP_FULL"
          /\ r.sendSeq = s.sendSeq
      BY <2>2, <3>1, StatusSetKeeps
    <3>3. QED BY <3>2 DEF r
  <2>3. CASE ~(s.handleWNSRP /\ s.wnsrp = "WNSRP_TX")
    <3>1. r = s BY <2>1, <2>3
    <3>2. s.wnsrp \in {"NO_WNSRP", "WNSRP_TX", "WNSRP_FULL"} BY DEF TerminalInv, Terminal
    <3>3. QED BY <2>3, <3>1, <3>2 DEF r
  <2>4. QED BY <2>2, <2>3
<1>6. QED BY <1>1, <1>2, <1>3, <1>4, <1>5 DEF CommandHeader, ResponseHeader

\* A frame, whatever it is.
LEMMA FrameKeeps ==
    ASSUME NEW s, NEW N, TerminalInv(s, N), s.tx = <<>>, NEW frame \in FrameSet,
           frame.header = "NSRP_RESPONSE" => frame.chunk.seq \in N
    PROVE  LET t == SrpFrame(SrpNoteFrame(s, frame), frame) IN
           /\ TerminalInv(t, N)
           /\ Sends(t, IF frame.header = "SRP_COMMAND" THEN {frame.chunk.seq} ELSE {})
           /\ t.sendSeq = s.sendSeq
<1> DEFINE s1 == SrpNoteFrame(s, frame)
<1> DEFINE event == SrpGetEvent(s1, frame)
<1> DEFINE t == SrpFrame(s1, frame)
<1> DEFINE R == IF frame.header = "SRP_COMMAND" THEN {frame.chunk.seq} ELSE {}
<1>1. /\ TerminalInv(s1, N) /\ s1.tx = <<>> /\ s1.sendSeq = s.sendSeq /\ s1.status \in {"IDLE", "WAIT_RESPONSE"}
      /\ frame.header = "WNSRP_RESPONSE" /\ s1.handleWNSRP /\ s1.wnsrp # "NO_WNSRP"
            => s1.wnsrp = "WNSRP_FULL"
  BY NoteKeeps DEF TerminalInv, Terminal
<1>2. frame.header \in CommandHeader \cup ResponseHeader BY DEF FrameSet
<1> HIDE DEF s1
<1>3. /\ event \in {"COMMAND", "WNSRP_COMMAND", "RESPONSE", "NSRP_RESPONSE", "WNSRP_RESPONSE", "NOP"}
      /\ event = "COMMAND" => frame.header = "SRP_COMMAND"
      /\ event = "WNSRP_COMMAND" => frame.header = "WNSRP_COMMAND"
      /\ event = "NSRP_RESPONSE" => frame.header = "NSRP_RESPONSE"
      /\ event = "WNSRP_RESPONSE" => /\ frame.header = "WNSRP_RESPONSE" /\ s1.handleWNSRP
                                     /\ s1.wnsrp # "NO_WNSRP"
  BY <1>2 DEF SrpGetEvent, CommandHeader, ResponseHeader
<1>4. TerminalInv(s1, N) /\ Sends(s1, {}) BY <1>1, SilentKeeps
<1>5. \A u : Sends(u, {}) => Sends(u, R) BY DEF Sends
<1>6. SUFFICES TerminalInv(t, N) /\ Sends(t, R) /\ t.sendSeq = s1.sendSeq BY <1>1 DEF s1
<1>7. CASE event \in {"COMMAND", "WNSRP_COMMAND"}
  <2>1. t = Srp_0_2(s1, frame, event) BY <1>7 DEF SrpFrame
  <2> HIDE DEF t, event
  <2>2. /\ TerminalInv(t, N) /\ t.sendSeq = s1.sendSeq
        /\ Sends(t, IF event = "COMMAND" THEN {frame.chunk.seq} ELSE {})
    BY <1>1, <1>7, <2>1, ReceiverKeeps
  <2>3. CASE event = "COMMAND" BY <1>3, <2>2, <2>3
  <2>4. CASE event # "COMMAND" BY <1>5, <2>2, <2>4
  <2>5. QED BY <2>2, <2>3, <2>4
<1>8. CASE event \in {"RESPONSE", "NSRP_RESPONSE", "WNSRP_RESPONSE"}
  <2>1. t = IF s1.status = "IDLE" THEN s1 ELSE Srp_1_3(s1, frame, event) BY <1>8 DEF SrpFrame
  <2>2. CASE s1.status = "IDLE" BY <1>4, <1>5, <2>1, <2>2
  <2>3. CASE s1.status # "IDLE"
    <3>1. s1.status = "WAIT_RESPONSE" /\ t = Srp_1_3(s1, frame, event) BY <1>1, <2>1, <2>3
    <3>2. CASE event = "RESPONSE"
      <4>1. t = OnSrpResponse(s1) BY <3>1, <3>2 DEF Srp_1_3
      <4> HIDE DEF t, event, R
      <4>2. TerminalInv(t, N) /\ Sends(t, {}) /\ t.sendSeq = s1.sendSeq
        BY <1>1, <3>1, <4>1, SrpResponseKeeps
      <4>3. QED BY <1>5, <4>2
    <3>3. CASE event = "NSRP_RESPONSE"
      <4>1. t = OnNsrpResponse(s1, frame.chunk.seq) BY <3>1, <3>3 DEF Srp_1_3
      <4>2. frame.chunk.seq \in N BY <1>3, <3>3
      <4> HIDE DEF t, event, R
      <4>3. TerminalInv(t, N) /\ Sends(t, {}) /\ t.sendSeq = s1.sendSeq
        BY <1>1, <3>1, <4>1, <4>2, NsrpResponseKeeps
      <4>4. QED BY <1>5, <4>3
    <3>4. CASE event = "WNSRP_RESPONSE"
      <4>1. t = OnWnsrpResponse(s1, frame.chunk.seq) BY <3>1, <3>4 DEF Srp_1_3
      <4>2. s1.wnsrp = "WNSRP_FULL" BY <1>1, <1>3, <3>4
      <4> HIDE DEF t, event, R
      <4>3. TerminalInv(t, N) /\ Sends(t, {}) /\ t.sendSeq = s1.sendSeq
        BY <1>1, <3>1, <4>1, <4>2, WnsrpResponseKeeps
      <4>4. QED BY <1>5, <4>3
    <3>5. QED BY <1>8, <3>2, <3>3, <3>4
  <2>4. QED BY <2>2, <2>3
<1>9. CASE event = "NOP"
  <2>1. t = s1 BY <1>9 DEF SrpFrame
  <2>2. QED BY <1>4, <1>5, <2>1
<1>10. QED BY <1>3, <1>7, <1>8, <1>9

-----------------------------------------------------------------------------
(* The two terminals and the link.                                         *)

\* There are two terminals.
LEMMA OtherPeer ==
    ASSUME NEW p \in Peer
    PROVE  Other(p) \in Peer /\ Other(p) # p /\ Other(Other(p)) = p
<1>1. PICK x \in Peer, y \in Peer : x # y /\ Peer = {x, y} BY SrpAssumption
<1>2. \A z \in Peer : \E w \in Peer : w # z BY <1>1
<1>3. \A z \in Peer : Other(z) \in Peer /\ Other(z) # z BY <1>2 DEF Other
<1>4. QED BY <1>1, <1>3

\* Fewer numbers under way, or the number of a head that is sent by SRP, are
\* no harm.
LEMMA NumbersKeep ==
    ASSUME NEW s, NEW N, NEW M, TerminalInv(s, N),
           \A n \in M : \/ n \in N
                        \/ s.wnsrp # "WNSRP_FULL" /\ s.queue # <<>> /\ n = s.queue[1].seq
    PROVE  TerminalInv(s, M)
<1>1. /\ Terminal(s) /\ Ordered(s) /\ WindowIsPrefix(s) /\ SaveIsHead(s) /\ Covered(s) /\ Late(s, N)
  BY DEF TerminalInv
<1>2. /\ DOMAIN s.queue = 1..Len(s.queue) /\ Len(s.queue) \in Nat
      /\ \A i \in 1..Len(s.queue) : s.queue[i].seq \in Nat
      /\ s.queue = <<>> <=> Len(s.queue) = 0
  BY <1>1, QueueTypes
<1>3. s.queue # <<>> =>
         /\ s.queue[1].seq \in Nat /\ s.queue[1].seq < s.sendSeq
         /\ \A i \in 2..Len(s.queue) : s.queue[1].seq < s.queue[i].seq
  BY <1>1, <1>2 DEF Ordered
<1>4. \A n \in M : /\ n \in Nat /\ n < s.sendSeq
                   /\ \A i \in 2..Len(s.queue) : n < s.queue[i].seq
  BY <1>1, <1>3 DEF Late
<1>5. s.wnsrp = "WNSRP_FULL" /\ s.queue # <<>> /\ s.queue[1].seq \in M => TwoUnderWay(s)
  BY <1>1 DEF Late
<1>6. QED BY <1>1, <1>4, <1>5 DEF TerminalInv, Late

\* The numbers in frames that are a prefix of others, or their tail.
LEMMA TailNumbers ==
    ASSUME NEW frames \in Seq(FrameSet), frames # <<>>, NEW h
    PROVE  Tail(frames) \in Seq(FrameSet) /\ Numbers(Tail(frames), h) \subseteq Numbers(frames, h)
<1>1. /\ Tail(frames) \in Seq(FrameSet) /\ Len(Tail(frames)) = Len(frames) - 1
      /\ \A i \in 1..Len(Tail(frames)) : Tail(frames)[i] = frames[i + 1]
  BY HeadTailProperties
<1>2. DOMAIN Tail(frames) = 1..Len(frames) - 1 /\ DOMAIN frames = 1..Len(frames) /\ Len(frames) \in Nat
  BY <1>1, LenProperties
<1>3. \A i \in DOMAIN Tail(frames) : i + 1 \in DOMAIN frames /\ Tail(frames)[i] = frames[i + 1]
  BY <1>1, <1>2
<1>4. QED BY <1>1, <1>3 DEF Numbers

\* The number of the frame that arrives.
LEMMA HeadNumber ==
    ASSUME NEW frames \in Seq(FrameSet), frames # <<>>
    PROVE  Head(frames) \in FrameSet /\ Head(frames).chunk.seq \in Numbers(frames, Head(frames).header)
<1>1. 1 \in DOMAIN frames /\ Head(frames) = frames[1] /\ frames[1] \in FrameSet
  BY EmptySeq, LenProperties
<1>2. QED BY <1>1 DEF Numbers

\* The numbers on a link after frames were put on it, some lost beyond LinkCap.
LEMMA SentNumbers ==
    ASSUME NEW old \in Seq(FrameSet), NEW tx \in Seq(FrameSet)
    PROVE  LET out == old \o tx
               cut == SubSeq(out, 1, Min({LinkCap, Len(out)}))
           IN  /\ cut \in Seq(FrameSet)
               /\ \A h : Numbers(cut, h) \subseteq Numbers(old, h) \cup Numbers(tx, h)
<1> DEFINE out == old \o tx
<1> DEFINE n == Min({LinkCap, Len(out)})
<1> DEFINE cut == SubSeq(out, 1, n)
<1>1. /\ out \in Seq(FrameSet) /\ Len(out) = Len(old) + Len(tx)
      /\ \A i \in 1..Len(old) + Len(tx) :
           out[i] = IF i <= Len(old) THEN old[i] ELSE tx[i - Len(old)]
  BY ConcatProperties
<1>2. /\ Len(old) \in Nat /\ Len(tx) \in Nat /\ Len(out) \in Nat /\ LinkCap \in Nat
      /\ DOMAIN old = 1..Len(old) /\ DOMAIN tx = 1..Len(tx)
      /\ \A i \in 1..Len(out) : out[i] \in FrameSet
  BY <1>1, LenProperties, SrpAssumption
<1> HIDE DEF out
<1>3. n = IF LinkCap <= Len(out) THEN LinkCap ELSE Len(out) BY <1>2, MinOfTwo
<1> HIDE DEF n
<1>4. n \in 0..Len(out) BY <1>2, <1>3
<1>5. \A i \in 1..n : out[i] \in FrameSet BY <1>2, <1>4
<1>6. /\ cut \in Seq(FrameSet) /\ Len(cut) = IF 1 <= n THEN n - 1 + 1 ELSE 0
      /\ \A i \in 1..n - 1 + 1 : cut[i] = out[1 + i - 1]
  BY <1>4, <1>5, SubSeqProperties
<1>7. Len(cut) = n BY <1>2, <1>4, <1>6
<1>8. DOMAIN cut = 1..n BY <1>6, <1>7, LenProperties
<1>9. \A i \in 1..n : cut[i] = out[i]
  <2>1. \A i \in 1..n : i \in 1..n - 1 + 1 /\ 1 + i - 1 = i BY <1>2, <1>4
  <2>2. QED BY <1>6, <2>1
<1> HIDE DEF cut
<1>10. ASSUME NEW i \in 1..n
       PROVE  \/ i \in DOMAIN old /\ cut[i] = old[i]
              \/ i - Len(old) \in DOMAIN tx /\ cut[i] = tx[i - Len(old)]
  BY <1>1, <1>2, <1>4, <1>9
<1>11. ASSUME NEW h, NEW x \in Numbers(cut, h)
       PROVE  x \in Numbers(old, h) \cup Numbers(tx, h)
  <2>1. PICK i \in DOMAIN cut : cut[i].header = h /\ x = cut[i].chunk.seq
    BY <1>11 DEF Numbers
  <2>2. i \in 1..n BY <1>8
  <2>3. CASE i \in DOMAIN old /\ cut[i] = old[i] BY <2>1, <2>3 DEF Numbers
  <2>4. CASE i - Len(old) \in DOMAIN tx /\ cut[i] = tx[i - Len(old)] BY <2>1, <2>4 DEF Numbers
  <2>5. QED BY <1>10, <2>2, <2>3, <2>4
<1>12. QED BY <1>6, <1>11 DEF cut, n, out

\* What a method hands to the two layers keeps the invariant of both.
LEMMA CommitKeeps ==
    ASSUME NEW p \in Peer, NEW t, NEW R, NEW rest \in Seq(FrameSet),
           link \in [Peer -> Seq(FrameSet)], DOMAIN ep = Peer,
           Terminal(t), Sends(t, R), Commit(p, t, rest),
           R \subseteq Numbers(link[p], "SRP_COMMAND"),
           \A h : Numbers(rest, h) \subseteq Numbers(link[p], h)
    PROVE  /\ link' \in [Peer -> Seq(FrameSet)] /\ DOMAIN ep' = Peer
           /\ ep'[Other(p)] = ep[Other(p)] /\ Numbered(Other(p))' \subseteq Numbered(Other(p))
           /\ ep'[p].tx = <<>> /\ ep'[p].sendSeq = t.sendSeq
           /\ TerminalInv(t, Numbered(p)) => TerminalInv(ep'[p], Numbered(p)')
<1> DEFINE q == Other(p)
<1> DEFINE out == link[q] \o t.tx
<1> DEFINE cut == SubSeq(out, 1, Min({LinkCap, Len(out)}))
<1>1. q \in Peer /\ q # p /\ Other(q) = p BY OtherPeer
<1>2. /\ ep' = [ep EXCEPT ![p] = [t EXCEPT !.buffer = Reassemble(t).buffer, !.tx = <<>>, !.up = <<>>]]
      /\ link' = [link EXCEPT ![p] = rest, ![q] = cut]
  BY DEF Commit
<1>3. t.tx \in Seq(FrameSet) /\ DOMAIN t = Fields BY DEF Terminal
<1>4. /\ cut \in Seq(FrameSet)
      /\ \A h : Numbers(cut, h) \subseteq Numbers(link[q], h) \cup Numbers(t.tx, h)
  BY <1>1, <1>3, SentNumbers
<1> HIDE DEF cut, out, q
<1>5. link' \in [Peer -> Seq(FrameSet)] /\ link'[p] = rest /\ link'[q] = cut
  BY <1>1, <1>2, <1>4
<1>6. DOMAIN ep' = Peer /\ ep'[q] = ep[q] BY <1>1, <1>2
<1> DEFINE u == [t EXCEPT !.buffer = Reassemble(t).buffer, !.tx = <<>>, !.up = <<>>]
<1>7. ep'[p] = u BY <1>2
<1>8. /\ DOMAIN u = Fields /\ u.status = t.status /\ u.wnsrp = t.wnsrp
      /\ u.sendSeq = t.sendSeq /\ u.queue = t.queue /\ u.save = t.save
      /\ u.active = t.active /\ u.tx = <<>>
  BY <1>3 DEF Fields
<1> HIDE DEF u
<1>9. DOMAIN t.tx = 1..Len(t.tx) BY <1>3, LenProperties
<1>10. Numbers(t.tx, "NSRP_RESPONSE") \subseteq R BY <1>9 DEF Numbers, Sends
<1>11. \A n \in Numbers(t.tx, "SRP_COMMAND") :
          t.wnsrp # "WNSRP_FULL" /\ t.queue # <<>> /\ n = t.queue[1].seq
  BY <1>9 DEF Numbers, Sends
<1>12. /\ Numbered(p)' = Numbers(rest, "NSRP_RESPONSE") \cup Numbers(cut, "SRP_COMMAND")
       /\ Numbered(q)' = Numbers(cut, "NSRP_RESPONSE") \cup Numbers(rest, "SRP_COMMAND")
  BY <1>1, <1>5 DEF Numbered, q
<1>13. /\ Numbered(p) = Numbers(link[p], "NSRP_RESPONSE") \cup Numbers(link[q], "SRP_COMMAND")
       /\ Numbered(q) = Numbers(link[q], "NSRP_RESPONSE") \cup Numbers(link[p], "SRP_COMMAND")
  BY <1>1 DEF Numbered, q
<1>14. Numbered(q)' \subseteq Numbered(q)
  BY <1>4, <1>10, <1>12, <1>13
<1>15. \A n \in Numbered(p)' :
          \/ n \in Numbered(p)
          \/ t.wnsrp # "WNSRP_FULL" /\ t.queue # <<>> /\ n = t.queue[1].seq
  BY <1>4, <1>11, <1>12, <1>13
<1>16. ASSUME TerminalInv(t, Numbered(p)) PROVE TerminalInv(u, Numbered(p)')
  <2>1. TerminalInv(t, Numbered(p)') BY <1>15, <1>16, NumbersKeep
  <2>2. u.tx \in Seq(FrameSet) BY <1>8
  <2>3. QED BY <1>8, <2>1, <2>2, SenderFields
<1>17. QED BY <1>5, <1>6, <1>7, <1>8, <1>14, <1>16 DEF q

-----------------------------------------------------------------------------
(* The steps.                                                              *)

\* The numbers do not wrap: no terminal sends as many chunks as there are
\* sequence numbers.
NoWrap(K) ==
    /\ K \in Nat /\ Chunks \subseteq 1..K
    /\ \A p \in Peer : K * MsgsOf[p] < SeqSpace

\* The invariant holds at the start.
LEMMA InitKeeps ==
    ASSUME NEW K \in Nat, Init
    PROVE  SrpInv(K)
<1>1. /\ link \in [Peer -> Seq(FrameSet)] /\ failed \in [Peer -> BOOLEAN]
      /\ sent \in [Peer -> Seq(Seq(Nat) \ {<<>>})] /\ DOMAIN ep = Peer
  BY DEF Init
<1>2. ASSUME NEW p \in Peer PROVE PeerInv(p, K)
  <2>1. /\ link[p] = <<>> /\ link[Other(p)] = <<>> /\ sent[p] = <<>>
        /\ ep[p] = SrpStart(p, call)
    BY <1>2, OtherPeer DEF Init
  <2>2. Numbers(<<>>, "NSRP_RESPONSE") = {} /\ Numbers(<<>>, "SRP_COMMAND") = {}
    BY DEF Numbers
  <2>3. Numbered(p) = {} BY <2>1, <2>2 DEF Numbered
  <2> DEFINE s == ep[p]
  <2>4. /\ DOMAIN s = Fields /\ s.status = "IDLE" /\ s.wnsrp \in {"WNSRP_TX", "NO_WNSRP"}
        /\ s.sendSeq = 0 /\ s.queue = <<>> /\ s.save = <<>> /\ s.active = <<>> /\ s.tx = <<>>
    BY <2>1 DEF SrpStart, Fields
  <2> HIDE DEF s
  <2>5. Window \in Nat /\ MsgsOf[p] \in Nat BY SrpAssumption
  <2>6. Terminal(s) BY <2>4 DEF Terminal
  <2>7. Ordered(s) /\ SaveIsHead(s) BY <2>4 DEF Ordered, SaveIsHead
  <2>8. WindowIsPrefix(s) BY <2>4, <2>5 DEF WindowIsPrefix
  <2>9. Covered(s) BY <2>4 DEF Covered, TwoUnderWay
  <2>10. Late(s, {}) BY <2>4 DEF Late
  <2>11. TerminalInv(s, Numbered(p)) BY <2>3, <2>6, <2>7, <2>8, <2>9, <2>10 DEF TerminalInv
  <2>12. s.sendSeq <= K * Len(sent[p]) /\ Len(sent[p]) <= MsgsOf[p]
    <3>1. Len(sent[p]) = 0 /\ K * 0 = 0 BY <2>1
    <3>2. QED BY <2>4, <2>5, <3>1
  <2>13. QED BY <2>4, <2>11, <2>12 DEF PeerInv, s
<1>3. QED BY <1>1, <1>2 DEF SrpInv

\* A step that keeps the terminals and takes frames off the link.
LEMMA LoseKeeps ==
    ASSUME NEW K, SrpInv(K), NEW p \in Peer, LoseFrame(p)
    PROVE  SrpInv(K)'
<1>1. /\ link[p] \in Seq(FrameSet) /\ link[p] # <<>>
      /\ link' = [link EXCEPT ![p] = Tail(@)]
      /\ UNCHANGED <<ep, sent, failed>>
  BY DEF LoseFrame, SrpInv
<1>2. /\ Tail(link[p]) \in Seq(FrameSet)
      /\ \A h : Numbers(Tail(link[p]), h) \subseteq Numbers(link[p], h)
  BY <1>1, TailNumbers
<1>3. link' \in [Peer -> Seq(FrameSet)] BY <1>1, <1>2 DEF SrpInv
<1>4. \A r \in Peer : \A h : Numbers(link'[r], h) \subseteq Numbers(link[r], h)
  BY <1>1, <1>2 DEF SrpInv
<1>5. ASSUME NEW r \in Peer, ~failed[r] PROVE PeerInv(r, K)'
  <2>1. PeerInv(r, K) BY <1>5 DEF SrpInv
  <2>2. Numbered(r)' \subseteq Numbered(r) BY <1>4, OtherPeer DEF Numbered
  <2>3. TerminalInv(ep[r], Numbered(r)') BY <2>1, <2>2, NumbersKeep DEF PeerInv
  <2>4. QED BY <1>1, <2>1, <2>3 DEF PeerInv
<1>6. QED BY <1>1, <1>3, <1>5 DEF SrpInv

\* A step of p that hands frames to the link.
LEMMA CommitStep ==
    ASSUME NEW K, SrpInv(K), NEW p \in Peer, NEW t, NEW R, NEW rest \in Seq(FrameSet),
           TerminalInv(t, Numbered(p)), Sends(t, R), Commit(p, t, rest),
           R \subseteq Numbers(link[p], "SRP_COMMAND"),
           \A h : Numbers(rest, h) \subseteq Numbers(link[p], h),
           sent' \in [Peer -> Seq(Seq(Nat) \ {<<>>})], sent'[Other(p)] = sent[Other(p)],
           t.sendSeq <= K * Len(sent'[p]), Len(sent'[p]) <= MsgsOf[p],
           UNCHANGED failed
    PROVE  SrpInv(K)'
<1>1. /\ link \in [Peer -> Seq(FrameSet)] /\ DOMAIN ep = Peer /\ failed \in [Peer -> BOOLEAN]
  BY DEF SrpInv
<1>2. Terminal(t) BY DEF TerminalInv
<1>3. /\ link' \in [Peer -> Seq(FrameSet)] /\ DOMAIN ep' = Peer
      /\ ep'[Other(p)] = ep[Other(p)] /\ Numbered(Other(p))' \subseteq Numbered(Other(p))
      /\ ep'[p].tx = <<>> /\ ep'[p].sendSeq = t.sendSeq
      /\ TerminalInv(ep'[p], Numbered(p)')
  BY <1>1, <1>2, CommitKeeps
<1>4. PeerInv(p, K)' BY <1>3 DEF PeerInv
<1>5. ASSUME ~failed[Other(p)] PROVE PeerInv(Other(p), K)'
  <2>1. PeerInv(Other(p), K) BY <1>5, OtherPeer DEF SrpInv
  <2>2. TerminalInv(ep[Other(p)], Numbered(Other(p))') BY <1>3, <2>1, NumbersKeep DEF PeerInv
  <2>3. QED BY <1>3, <2>1, <2>2 DEF PeerInv
<1>6. \A r \in Peer : r = p \/ r = Other(p)
  <2>1. PICK x \in Peer, y \in Peer : x # y /\ Peer = {x, y} BY SrpAssumption
  <2>2. QED BY <2>1, OtherPeer
<1>7. \A r \in Peer : ~failed'[r] => PeerInv(r, K)' BY <1>4, <1>5, <1>6
<1>8. QED BY <1>1, <1>3, <1>7 DEF SrpInv

\* A frame arrives.
LEMMA ReceiveKeeps ==
    ASSUME NEW K, SrpInv(K), NEW p \in Peer, LowerLayerRx(p)
    PROVE  SrpInv(K)'
<1> DEFINE f == Head(link[p])
<1> DEFINE t == SrpFrame(SrpNoteFrame(ep[p], f), f)
<1> DEFINE R == IF f.header = "SRP_COMMAND" THEN {f.chunk.seq} ELSE {}
<1>1. /\ ~failed[p] /\ link[p] # <<>> /\ Commit(p, t, Tail(link[p]))
      /\ UNCHANGED <<lost, sent, failed>>
  BY DEF LowerLayerRx
<1>2. /\ link[p] \in Seq(FrameSet) /\ PeerInv(p, K) BY <1>1 DEF SrpInv
<1>3. f \in FrameSet /\ f.chunk.seq \in Numbers(link[p], f.header) BY <1>1, <1>2, HeadNumber
<1> HIDE DEF f
<1>4. f.header = "NSRP_RESPONSE" => f.chunk.seq \in Numbered(p) BY <1>3 DEF Numbered
<1>5. TerminalInv(t, Numbered(p)) /\ Sends(t, R) /\ t.sendSeq = ep[p].sendSeq
  BY <1>2, <1>3, <1>4, FrameKeeps DEF PeerInv
<1> HIDE DEF t, R
<1>6. R \subseteq Numbers(link[p], "SRP_COMMAND") BY <1>3 DEF R
<1>7. /\ Tail(link[p]) \in Seq(FrameSet)
      /\ \A h : Numbers(Tail(link[p]), h) \subseteq Numbers(link[p], h)
  BY <1>1, <1>2, TailNumbers
<1>8. sent' = sent /\ sent \in [Peer -> Seq(Seq(Nat) \ {<<>>})] BY <1>1 DEF SrpInv
<1>9. t.sendSeq <= K * Len(sent'[p]) /\ Len(sent'[p]) <= MsgsOf[p] BY <1>2, <1>5, <1>8 DEF PeerInv
<1>10. QED BY <1>1, <1>5, <1>6, <1>7, <1>8, <1>9, CommitStep

\* A timer expires with retries left.
LEMMA RetransmitKeeps ==
    ASSUME NEW K, SrpInv(K), NEW p \in Peer, Retransmit(p)
    PROVE  SrpInv(K)'
<1>1. PICK i \in Timers(ep[p]) :
         SrpN400Check(TimerOf(ep[p], i)) /\ Commit(p, Resend(ep[p], i), link[p])
  BY DEF Retransmit
<1>2. ~failed[p] /\ UNCHANGED <<lost, sent, failed>> BY DEF Retransmit
<1>3. link[p] \in Seq(FrameSet) /\ PeerInv(p, K) BY <1>2 DEF SrpInv
<1> DEFINE t == Resend(ep[p], i)
<1>4. TerminalInv(t, Numbered(p)) /\ Sends(t, {}) /\ t.sendSeq = ep[p].sendSeq
  BY <1>1, <1>3, ResendKeeps DEF PeerInv
<1> HIDE DEF t
<1>5. sent' = sent /\ sent \in [Peer -> Seq(Seq(Nat) \ {<<>>})] BY <1>2 DEF SrpInv
<1>6. t.sendSeq <= K * Len(sent'[p]) /\ Len(sent'[p]) <= MsgsOf[p] BY <1>3, <1>4, <1>5 DEF PeerInv
<1>7. Commit(p, t, link[p]) BY <1>1 DEF t
<1>8. {} \subseteq Numbers(link[p], "SRP_COMMAND")
      /\ \A h : Numbers(link[p], h) \subseteq Numbers(link[p], h) OBVIOUS
<1>9. QED BY <1>2, <1>3, <1>4, <1>5, <1>6, <1>7, <1>8, CommitStep

\* The terminal that gives up sends nothing.
LEMMA GiveUpKeeps ==
    ASSUME NEW K, SrpInv(K), NEW p \in Peer, TransmissionFailure(p)
    PROVE  SrpInv(K)'
<1>1. PICK i \in Timers(ep[p]) : Commit(p, GiveUp(ep[p], i), link[p])
  BY DEF TransmissionFailure
<1>2. ~failed[p] /\ failed' = [failed EXCEPT ![p] = TRUE] /\ UNCHANGED <<lost, sent>>
  BY DEF TransmissionFailure
<1>3. /\ link \in [Peer -> Seq(FrameSet)] /\ PeerInv(p, K) /\ DOMAIN ep = Peer
      /\ failed \in [Peer -> BOOLEAN]
  BY <1>2 DEF SrpInv
<1> DEFINE s == ep[p]
<1> DEFINE q == Other(p)
<1> DEFINE t == GiveUp(s, i)
<1>4. DOMAIN s = Fields /\ s.tx = <<>> BY <1>3 DEF PeerInv, TerminalInv, Terminal
<1>5. t.tx = <<>>
  <2> HIDE DEF s
  <2>1. \A n : DOMAIN SrpCommandClear(s, n) = Fields /\ SrpCommandClear(s, n).tx = <<>>
    BY <1>4 DEF SrpCommandClear, Fields
  <2>2. QED BY <2>1 DEF GiveUp, RemoveActiveWnsrpTimer, Fields
<1> HIDE DEF t
<1>6. q \in Peer /\ q # p /\ Other(q) = p BY OtherPeer
<1> DEFINE out == link[q] \o t.tx
<1> DEFINE cut == SubSeq(out, 1, Min({LinkCap, Len(out)}))
<1>7. /\ \E u : ep' = [ep EXCEPT ![p] = u]
      /\ link' = [link EXCEPT ![p] = link[p], ![q] = cut]
  BY <1>1 DEF Commit, t
<1>8. /\ cut \in Seq(FrameSet)
      /\ \A h : Numbers(cut, h) \subseteq Numbers(link[q], h) \cup Numbers(t.tx, h)
  <2>1. t.tx \in Seq(FrameSet) BY <1>5
  <2>2. QED BY <1>3, <1>6, <2>1, SentNumbers
<1>9. \A h : Numbers(t.tx, h) = {} BY <1>5 DEF Numbers
<1> HIDE DEF cut, out, q
<1>10. /\ link' \in [Peer -> Seq(FrameSet)] /\ link'[p] = link[p] /\ link'[q] = cut
       /\ DOMAIN ep' = Peer /\ ep'[q] = ep[q]
  BY <1>3, <1>6, <1>7, <1>8
<1>11. Numbered(q)' \subseteq Numbered(q) BY <1>6, <1>8, <1>9, <1>10 DEF Numbered
<1>12. ASSUME NEW r \in Peer, ~failed'[r] PROVE PeerInv(r, K)'
  <2>1. r = q
    <3>1. r # p BY <1>2, <1>3, <1>12
    <3>2. PICK x \in Peer, y \in Peer : x # y /\ Peer = {x, y} BY SrpAssumption
    <3>3. QED BY <1>6, <3>1, <3>2
  <2>2. ~failed[q] BY <1>2, <1>3, <1>6, <1>12, <2>1
  <2>3. PeerInv(q, K) BY <1>6, <2>2 DEF SrpInv
  <2>4. TerminalInv(ep[q], Numbered(q)') BY <1>11, <2>3, NumbersKeep DEF PeerInv
  <2>5. QED BY <1>2, <1>10, <2>1, <2>3, <2>4 DEF PeerInv
<1>13. failed' \in [Peer -> BOOLEAN] BY <1>2, <1>3
<1>14. QED BY <1>2, <1>10, <1>12, <1>13 DEF SrpInv

\* A step that changes only fields of p that its sender does not read.
LEMMA OwnStep ==
    ASSUME NEW K, SrpInv(K), NEW p \in Peer, NEW u, ep' = [ep EXCEPT ![p] = u],
           UNCHANGED <<call, link, lost, sent, rcvd, failed>>,
           ~failed[p] => /\ TerminalInv(u, Numbered(p)) /\ u.tx = <<>>
                         /\ u.sendSeq = ep[p].sendSeq
    PROVE  SrpInv(K)'
<1>1. DOMAIN ep = Peer /\ DOMAIN ep' = Peer BY DEF SrpInv
<1>2. \A r \in Peer : Numbered(r)' = Numbered(r) BY DEF Numbered
<1>3. ASSUME NEW r \in Peer, ~failed[r] PROVE PeerInv(r, K)'
  <2>1. PeerInv(r, K) BY <1>3 DEF SrpInv
  <2>2. CASE r = p
    <3>1. ep'[r] = u BY <1>1, <2>2
    <3>2. QED BY <1>2, <1>3, <2>1, <2>2, <3>1 DEF PeerInv
  <2>3. CASE r # p
    <3>1. ep'[r] = ep[r] BY <1>1, <2>3
    <3>2. QED BY <1>2, <2>1, <3>1 DEF PeerInv
  <2>4. QED BY <2>2, <2>3
<1>4. QED BY <1>1, <1>3 DEF SrpInv

\* SrpStop, UseNSRP and DisableWNSRPSupport.
LEMMA ControlKeeps ==
    ASSUME NEW K, SrpInv(K), NEW p \in Peer,
           SrpStop(p) \/ UseNSRP(p) \/ DisableWNSRPSupport(p)
    PROVE  SrpInv(K)'
<1>1. DOMAIN ep = Peer BY DEF SrpInv
<1>2. CASE SrpStop(p)
  <2>1. failed[p] /\ UNCHANGED <<call, link, lost, sent, rcvd, failed>> BY <1>2 DEF SrpStop
  <2>2. PICK u : ep' = [ep EXCEPT ![p] = u] BY <1>2 DEF SrpStop
  <2>3. QED BY <2>1, <2>2, OwnStep
<1>3. CASE UseNSRP(p)
  <2> DEFINE s == ep[p]
  <2> DEFINE u == [[s EXCEPT !.useNSRP = TRUE] EXCEPT !.firstNSRPResp = FALSE]
  <2>1. ~failed[p] /\ UNCHANGED <<call, link, lost, sent, rcvd, failed>> BY <1>3 DEF UseNSRP
  <2>2. ep' = [ep EXCEPT ![p] = u] BY <1>1, <1>3 DEF UseNSRP
  <2>3. TerminalInv(s, Numbered(p)) /\ s.tx = <<>> BY <2>1 DEF SrpInv, PeerInv
  <2> HIDE DEF s
  <2>4. /\ DOMAIN u = Fields /\ u.status = s.status /\ u.wnsrp = s.wnsrp
        /\ u.sendSeq = s.sendSeq /\ u.queue = s.queue /\ u.save = s.save
        /\ u.active = s.active /\ u.tx = s.tx /\ s.tx \in Seq(FrameSet)
    BY <2>3 DEF TerminalInv, Terminal, Fields
  <2> HIDE DEF u
  <2>5. TerminalInv(u, Numbered(p)) BY <2>3, <2>4, SenderFields
  <2>6. QED BY <2>1, <2>2, <2>3, <2>4, <2>5, OwnStep DEF s
<1>4. CASE DisableWNSRPSupport(p)
  <2> DEFINE s == IF ep[p].wnsrp = "WNSRP_TX" THEN WnsrpStatusSet(ep[p], "NO_WNSRP") ELSE ep[p]
  <2> DEFINE u == [s EXCEPT !.handleWNSRP = FALSE]
  <2>1. ~failed[p] /\ UNCHANGED <<call, link, lost, sent, rcvd, failed>>
    BY <1>4 DEF DisableWNSRPSupport
  <2>2. ep' = [ep EXCEPT ![p] = u] BY <1>4 DEF DisableWNSRPSupport
  <2>3. TerminalInv(ep[p], Numbered(p)) /\ ep[p].tx = <<>> BY <2>1 DEF SrpInv, PeerInv
  <2>4. TerminalInv(s, Numbered(p)) /\ s.tx = <<>> /\ s.sendSeq = ep[p].sendSeq
    BY <2>3, StatusSetKeeps
  <2> HIDE DEF s
  <2>5. /\ DOMAIN u = Fields /\ u.status = s.status /\ u.wnsrp = s.wnsrp
        /\ u.sendSeq = s.sendSeq /\ u.queue = s.queue /\ u.save = s.save
        /\ u.active = s.active /\ u.tx = s.tx /\ s.tx \in Seq(FrameSet)
    BY <2>4 DEF TerminalInv, Terminal, Fields
  <2> HIDE DEF u
  <2>6. TerminalInv(u, Numbered(p)) BY <2>4, <2>5, SenderFields
  <2>7. QED BY <2>1, <2>2, <2>4, <2>5, <2>6, OwnStep
<1>5. QED BY <1>2, <1>3, <1>4

-----------------------------------------------------------------------------
(* A message from H.245.                                                   *)

\* Arithmetic for the bound on the numbers.
LEMMA ProductGrows ==
    ASSUME NEW K \in Nat, NEW a \in Nat, NEW b \in Nat, a <= b
    PROVE  K * a <= K * b
<1>1. PICK d \in Nat : b = a + d
  <2>1. b - a \in Nat /\ b = a + (b - a) OBVIOUS
  <2>2. QED BY <2>1
<1>2. K * d \in Nat OBVIOUS
<1>3. K * (a + d) = K * a + K * d OBVIOUS
<1>4. K * a \in Nat OBVIOUS
<1>5. QED BY <1>1, <1>2, <1>3, <1>4

\* Below the modulus nothing wraps.
LEMMA ModSmall ==
    ASSUME NEW a \in Nat, NEW b \in Nat, a < b
    PROVE  a % b = a
OBVIOUS

\* The numbers of a message's chunks do not reach the end of the number space.
LEMMA NumbersFit ==
    ASSUME NEW K, NoWrap(K), NEW p \in Peer, NEW k \in Chunks, NEW n \in Nat,
           NEW m \in Nat, m <= K * n, n < MsgsOf[p]
    PROVE  /\ k \in Nat /\ k >= 1 /\ m + k <= K * (n + 1) /\ m + k < SeqSpace
           /\ SeqSpace \in Nat
<1>1. /\ K \in Nat /\ k \in 1..K /\ MsgsOf[p] \in Nat /\ K * MsgsOf[p] < SeqSpace
      /\ SeqSpace \in Nat
  BY SrpAssumption DEF NoWrap
<1>2. K * n \in Nat /\ K * (n + 1) \in Nat /\ K * MsgsOf[p] \in Nat BY <1>1
<1>3. K * (n + 1) = K * n + K BY <1>1
<1>4. n + 1 \in Nat /\ n + 1 <= MsgsOf[p] BY <1>1
<1>5. K * (n + 1) <= K * MsgsOf[p] BY <1>1, <1>4, ProductGrows
<1>6. QED BY <1>1, <1>2, <1>3, <1>5

\* The position of a chunk is a number.
LEMMA ChunksSentType ==
    ASSUME NEW p \in Peer, sent \in [Peer -> Seq(Seq(Nat) \ {<<>>})]
    PROVE  ChunksSent(p) \in Nat
<1>1. sent[p] \in Seq(Seq(Nat) \ {<<>>}) OBVIOUS
<1>2. CASE sent[p] = <<>> BY <1>2 DEF ChunksSent
<1>3. CASE sent[p] # <<>>
  <2>1. Last(sent[p]) \in Seq(Nat) \ {<<>>}
    <3>1. Len(sent[p]) \in 1..Len(sent[p]) BY <1>1, <1>3, EmptySeq, LenProperties
    <3>2. QED BY <1>1, <3>1 DEF Last
  <2> DEFINE m == Last(sent[p])
  <2> HIDE DEF m
  <2>2. m \in Seq(Nat) /\ m # <<>> BY <2>1 DEF m
  <2>3. Last(m) \in Nat
    <3>1. Len(m) \in 1..Len(m) BY <2>2, EmptySeq, LenProperties
    <3>2. QED BY <2>2, <3>1 DEF Last
  <2>4. QED BY <1>3, <2>3 DEF ChunksSent, m
<1>4. QED BY <1>2, <1>3

\* The chunks that UpperLayerRx makes of a message, a the next number.
NewChunks(a, k, n) == [i \in 1..k |-> Chunk((a + i - 1) % SeqSpace, n + i, i = k)]

\* They are numbered from a on.
LEMMA NewChunksFacts ==
    ASSUME NEW a \in Nat, NEW k \in Nat, k >= 1, a + k < SeqSpace, NEW n \in Nat
    PROVE  /\ NewChunks(a, k, n) \in Seq(ChunkSet) /\ Len(NewChunks(a, k, n)) = k
           /\ \A i \in 1..k : NewChunks(a, k, n)[i].seq = a + i - 1
           /\ (a + k) % SeqSpace = a + k
<1> DEFINE new == [i \in 1..k |-> Chunk((a + i - 1) % SeqSpace, n + i, i = k)]
<1>1. SeqSpace \in Nat BY SrpAssumption
<1>2. (a + k) % SeqSpace = a + k BY <1>1, ModSmall
<1>3. ASSUME NEW i \in 1..k
      PROVE  new[i] \in ChunkSet /\ new[i].seq = a + i - 1
  <2>1. a + i - 1 \in Nat /\ a + i - 1 < SeqSpace /\ a + i - 1 \in 0..SeqSpace - 1 BY <1>1
  <2>2. (a + i - 1) % SeqSpace = a + i - 1 BY <1>1, <2>1, ModSmall
  <2>3. new[i] = Chunk(a + i - 1, n + i, i = k) BY <2>2
  <2>4. n + i \in Nat /\ (i = k) \in BOOLEAN OBVIOUS
  <2>5. QED BY <2>1, <2>3, <2>4 DEF Chunk, ChunkSet
<1>4. DOMAIN new = 1..k OBVIOUS
<1>5. new \in [1..k -> ChunkSet] BY <1>3
<1>7. new = NewChunks(a, k, n) BY DEF NewChunks
<1> HIDE DEF new
<1>6. new \in Seq(ChunkSet) /\ Len(new) = k BY <1>4, <1>5, LenProperties
<1>8. QED BY <1>2, <1>3, <1>6, <1>7

\* Chunks numbered from m on join a queue whose numbers are below m.
LEMMA JoinOrder ==
    ASSUME NEW q \in Seq(ChunkSet), NEW new \in Seq(ChunkSet), NEW m \in Nat,
           \A i, j \in DOMAIN q : i < j => q[i].seq < q[j].seq,
           \A i \in DOMAIN q : q[i].seq < m,
           \A i \in 1..Len(new) : new[i].seq = m + i - 1
    PROVE  LET all == q \o new IN
           /\ all \in Seq(ChunkSet) /\ Len(all) = Len(q) + Len(new)
           /\ \A i \in 1..Len(q) : all[i] = q[i]
           /\ \A i \in Len(q) + 1..Len(all) : all[i].seq >= m
           /\ \A i, j \in DOMAIN all : i < j => all[i].seq < all[j].seq
           /\ \A i \in DOMAIN all : all[i].seq < m + Len(new)
<1> DEFINE all == q \o new
<1> DEFINE L == Len(q)
<1> DEFINE k == Len(new)
<1>1. /\ all \in Seq(ChunkSet) /\ Len(all) = L + k
      /\ \A i \in 1..L + k : all[i] = IF i <= L THEN q[i] ELSE new[i - L]
  BY ConcatProperties
<1>2. /\ L \in Nat /\ k \in Nat /\ DOMAIN q = 1..L /\ DOMAIN all = 1..L + k
      /\ \A i \in 1..L : q[i] \in ChunkSet
  BY <1>1, LenProperties
<1>3. \A c \in ChunkSet : c.seq \in Nat BY SrpAssumption DEF ChunkSet
<1> HIDE DEF all, L, k
<1>4. ASSUME NEW i \in 1..L
      PROVE  i \in 1..L + k /\ all[i] = q[i] /\ q[i].seq \in Nat /\ q[i].seq < m
  <2>1. i \in 1..L + k /\ i <= L BY <1>2
  <2>2. all[i] = q[i] BY <1>1, <2>1
  <2>3. QED BY <1>2, <1>3, <2>1, <2>2
<1>5. ASSUME NEW i \in L + 1..L + k
      PROVE  all[i].seq = m + (i - L) - 1
  <2>1. i \in 1..L + k /\ ~(i <= L) /\ i - L \in 1..k BY <1>2
  <2>2. all[i] = new[i - L] BY <1>1, <2>1
  <2>3. new[i - L].seq = m + (i - L) - 1 BY <2>1 DEF k
  <2>4. QED BY <2>2, <2>3
<1>6. ASSUME NEW i \in 1..L + k, NEW j \in 1..L + k, i < j
      PROVE  all[i].seq < all[j].seq
  <2>1. CASE j \in 1..L
    <3>1. i \in 1..L BY <1>2, <1>6, <2>1
    <3>2. q[i].seq < q[j].seq BY <1>2, <1>6, <2>1, <3>1
    <3>3. QED BY <1>4, <2>1, <3>1, <3>2
  <2>2. CASE i \in 1..L /\ j \in L + 1..L + k
    <3>1. all[i] = q[i] /\ q[i].seq \in Nat /\ q[i].seq < m BY <1>4, <2>2
    <3>2. all[j].seq = m + (j - L) - 1 BY <1>5, <2>2
    <3>3. q[i].seq < m + (j - L) - 1 BY <1>2, <2>2, <3>1
    <3>4. QED BY <3>1, <3>2, <3>3
  <2>3. CASE i \in L + 1..L + k /\ j \in L + 1..L + k
    <3>1. all[i].seq = m + (i - L) - 1 /\ all[j].seq = m + (j - L) - 1 BY <1>5, <2>3
    <3>2. m + (i - L) - 1 < m + (j - L) - 1 BY <1>2, <1>6
    <3>3. QED BY <3>1, <3>2
  <2>4. QED BY <1>2, <1>6, <2>1, <2>2, <2>3
<1>7. ASSUME NEW i \in 1..L + k PROVE all[i].seq < m + k
  <2>1. CASE i \in 1..L
    <3>1. all[i] = q[i] /\ q[i].seq \in Nat /\ q[i].seq < m BY <1>4, <2>1
    <3>2. q[i].seq < m + k BY <1>2, <3>1
    <3>3. QED BY <3>1, <3>2
  <2>2. CASE i \in L + 1..L + k
    <3>1. all[i].seq = m + (i - L) - 1 BY <1>5, <2>2
    <3>2. m + (i - L) - 1 < m + k BY <1>2, <2>2
    <3>3. QED BY <3>1, <3>2
  <2>3. QED BY <1>2, <2>1, <2>2
<1>8. ASSUME NEW i \in L + 1..L + k PROVE all[i].seq >= m
  <2>1. all[i].seq = m + (i - L) - 1 BY <1>5
  <2>2. m + (i - L) - 1 >= m BY <1>2
  <2>3. QED BY <2>1, <2>2
<1>9. \A i \in 1..L : all[i] = q[i] BY <1>4
<1>10. \A i \in L + 1..Len(all) : all[i].seq >= m BY <1>1, <1>8
<1>11. \A i, j \in DOMAIN all : i < j => all[i].seq < all[j].seq BY <1>2, <1>6
<1>12. \A i \in DOMAIN all : all[i].seq < m + k BY <1>2, <1>7
<1>13. QED BY <1>1, <1>9, <1>10, <1>11, <1>12 DEF all, L, k

\* The chunks of a message join the queue behind all that wait.
LEMMA JoinKeeps ==
    ASSUME NEW s, NEW N, TerminalInv(s, N), s.tx = <<>>,
           NEW new \in Seq(ChunkSet), Len(new) >= 1,
           \A i \in 1..Len(new) : new[i].seq = s.sendSeq + i - 1,
           NEW s1, DOMAIN s1 = Fields,
           s1.queue = s.queue \o new, s1.sendSeq = s.sendSeq + Len(new),
           s1.status = s.status, s1.wnsrp = s.wnsrp, s1.save = s.save,
           s1.active = s.active, s1.tx = s.tx
    PROVE  /\ Queued(s1, N)
           /\ s.queue # <<>> => s1.queue[1] = s.queue[1]
<1> DEFINE L == Len(s.queue)
<1> DEFINE k == Len(new)
<1>1. /\ Terminal(s) /\ Ordered(s) /\ WindowIsPrefix(s) /\ Below(s, N)
      /\ s.wnsrp = "NO_WNSRP" => s.active = <<>>
  BY DEF TerminalInv, Late, Below, Covered
<1>2. s.sendSeq \in Nat /\ s.queue \in Seq(ChunkSet) BY <1>1 DEF Terminal
<1>3. /\ L \in Nat /\ DOMAIN s.queue = 1..L /\ k \in Nat /\ Len(s.active) \in Nat
      /\ s.queue = <<>> <=> L = 0
  BY <1>1, QueueTypes, LenProperties
<1>4. /\ s1.queue \in Seq(ChunkSet) /\ Len(s1.queue) = L + k
      /\ \A i \in 1..L : s1.queue[i] = s.queue[i]
      /\ \A i \in L + 1..Len(s1.queue) : s1.queue[i].seq >= s.sendSeq
      /\ \A i, j \in DOMAIN s1.queue : i < j => s1.queue[i].seq < s1.queue[j].seq
      /\ \A i \in DOMAIN s1.queue : s1.queue[i].seq < s.sendSeq + k
  <2>1. /\ \A i, j \in DOMAIN s.queue : i < j => s.queue[i].seq < s.queue[j].seq
        /\ \A i \in DOMAIN s.queue : s.queue[i].seq < s.sendSeq
    BY <1>1 DEF Ordered
  <2> DEFINE q == s.queue
  <2> DEFINE m == s.sendSeq
  <2>2. /\ q \in Seq(ChunkSet) /\ m \in Nat /\ s1.queue = q \o new
        /\ \A i, j \in DOMAIN q : i < j => q[i].seq < q[j].seq
        /\ \A i \in DOMAIN q : q[i].seq < m
        /\ \A i \in 1..Len(new) : new[i].seq = m + i - 1
    BY <1>2, <2>1
  <2> HIDE DEF q, m
  <2> DEFINE all == q \o new
  <2>3. /\ all \in Seq(ChunkSet) /\ Len(all) = Len(q) + Len(new)
        /\ \A i \in 1..Len(q) : all[i] = q[i]
        /\ \A i \in Len(q) + 1..Len(all) : all[i].seq >= m
        /\ \A i, j \in DOMAIN all : i < j => all[i].seq < all[j].seq
        /\ \A i \in DOMAIN all : all[i].seq < m + Len(new)
    BY <2>2, JoinOrder
  <2>4. all = s1.queue BY <2>2
  <2> HIDE DEF all
  <2>5. QED BY <2>3, <2>4 DEF q, m
<1>5. Terminal(s1)
  <2>1. s1.sendSeq \in Nat BY <1>2, <1>3
  <2>2. QED BY <1>1, <1>4, <2>1 DEF Terminal
<1>6. Ordered(s1) BY <1>4 DEF Ordered
<1>7. WindowIsPrefix(s1)
  <2>1. Len(s.active) <= L /\ Len(s.active) <= Window BY <1>1 DEF WindowIsPrefix
  <2>2. \A i \in 1..Len(s.active) : i \in 1..L BY <1>3, <2>1
  <2>3. Len(s1.active) <= Len(s1.queue) BY <1>3, <1>4, <2>1
  <2>4. QED BY <1>1, <1>4, <2>1, <2>2, <2>3 DEF WindowIsPrefix
<1>8. Below(s1, N)
  <2>1. ASSUME NEW x \in N
        PROVE  /\ x \in Nat /\ x < s1.sendSeq
               /\ \A i \in 2..Len(s1.queue) : x < s1.queue[i].seq
    <3>1. /\ x \in Nat /\ x < s.sendSeq /\ \A i \in 2..L : x < s.queue[i].seq
      BY <1>1 DEF Below
    <3>2. x < s1.sendSeq BY <1>2, <1>3, <3>1
    <3>3. ASSUME NEW i \in 2..Len(s1.queue) PROVE x < s1.queue[i].seq
      <4>1. CASE i \in 2..L
        <5>1. i \in 1..L BY <1>3, <4>1
        <5>2. QED BY <1>4, <3>1, <4>1, <5>1
      <4>2. CASE i \in L + 1..Len(s1.queue)
        <5>1. s1.queue[i].seq >= s.sendSeq BY <1>4, <4>2
        <5>2. i \in 1..Len(s1.queue) BY <1>3, <1>4, <4>2
        <5>3. s1.queue[i].seq \in Nat BY <1>5, <5>2, QueueTypes
        <5>4. QED BY <1>2, <3>1, <5>1, <5>3
      <4>3. QED BY <1>3, <1>4, <4>1, <4>2
    <3>4. QED BY <3>1, <3>2, <3>3
  <2>2. QED BY <2>1 DEF Below
<1>9. s1.queue # <<>>
  <2>1. Len(s1.queue) # 0 BY <1>3, <1>4
  <2>2. QED BY <2>1
<1>10. s.queue # <<>> => s1.queue[1] = s.queue[1]
  <2>1. s.queue # <<>> => 1 \in 1..L BY <1>3
  <2>2. QED BY <1>4, <2>1
<1>11. QED BY <1>1, <1>5, <1>6, <1>7, <1>8, <1>9, <1>10 DEF Queued

\* The terminal p after a message of k chunks.
AfterMessage(p, k) ==
    LET s == ep[p]
        new == NewChunks(s.sendSeq, k, ChunksSent(p))
        s1 == [s EXCEPT !.queue = @ \o new, !.sendSeq = (@ + k) % SeqSpace]
    IN  IF s.status = "IDLE" THEN Srp_0_1(s1) ELSE Srp_1_1(s1)

\* H.245 sends a message, whether SRP is idle or not.
LEMMA MessageFacts ==
    ASSUME NEW K, NoWrap(K), Window >= 2, SrpInv(K), NEW p \in Peer, NEW k \in Chunks,
           UpperLayerRx(p, k)
    PROVE  LET t == AfterMessage(p, k) IN
           /\ Commit(p, t, link[p]) /\ UNCHANGED failed
           /\ TerminalInv(t, Numbered(p)) /\ Sends(t, {})
           /\ sent' \in [Peer -> Seq(Seq(Nat) \ {<<>>})] /\ sent'[Other(p)] = sent[Other(p)]
           /\ t.sendSeq <= K * Len(sent'[p]) /\ Len(sent'[p]) <= MsgsOf[p]
<1> DEFINE s == ep[p]
<1> DEFINE n == ChunksSent(p)
<1> DEFINE new == [i \in 1..k |-> Chunk((s.sendSeq + i - 1) % SeqSpace, n + i, i = k)]
<1> DEFINE s1 == [s EXCEPT !.queue = @ \o new, !.sendSeq = (@ + k) % SeqSpace]
<1> DEFINE t == IF s.status = "IDLE" THEN Srp_0_1(s1) ELSE Srp_1_1(s1)
<1>14. AfterMessage(p, k) = t BY DEF AfterMessage, NewChunks
<1>1. /\ ~failed[p] /\ Len(sent[p]) < MsgsOf[p]
      /\ sent' = [sent EXCEPT ![p] = Append(@, Pdu(n, k))]
      /\ Commit(p, t, link[p]) /\ UNCHANGED <<lost, failed>>
  BY DEF UpperLayerRx
<1>2. /\ PeerInv(p, K) /\ sent \in [Peer -> Seq(Seq(Nat) \ {<<>>})]
      /\ link[p] \in Seq(FrameSet)
  BY <1>1 DEF SrpInv
<1>3. /\ TerminalInv(s, Numbered(p)) /\ s.tx = <<>> /\ s.sendSeq \in Nat
      /\ s.sendSeq <= K * Len(sent[p]) /\ SaveIsHead(s) /\ Covered(s)
      /\ s.status \in {"IDLE", "WAIT_RESPONSE"}
  BY <1>2 DEF PeerInv, TerminalInv, Terminal
<1>4. Len(sent[p]) \in Nat /\ n \in Nat
  <2>1. sent[p] \in Seq(Seq(Nat) \ {<<>>}) BY <1>2
  <2>2. QED BY <1>2, <2>1, ChunksSentType, LenProperties
<1>5. /\ k \in Nat /\ k >= 1 /\ s.sendSeq + k <= K * (Len(sent[p]) + 1)
      /\ s.sendSeq + k < SeqSpace
  BY <1>1, <1>3, <1>4, NumbersFit
<1> HIDE DEF s, n
<1>6. /\ Queued(s1, Numbered(p)) /\ s1.status = s.status /\ s1.save = s.save
      /\ s1.wnsrp = s.wnsrp /\ s1.sendSeq = s.sendSeq + k
      /\ s.queue # <<>> => s1.queue[1] = s.queue[1]
  <2>1. /\ new \in Seq(ChunkSet) /\ Len(new) = k
        /\ \A i \in 1..k : new[i].seq = s.sendSeq + i - 1
        /\ (s.sendSeq + k) % SeqSpace = s.sendSeq + k
    <3>1. new = NewChunks(s.sendSeq, k, n) BY DEF NewChunks
    <3> DEFINE m == s.sendSeq
    <3> HIDE DEF m, new
    <3>2. m \in Nat /\ k \in Nat /\ k >= 1 /\ m + k < SeqSpace /\ n \in Nat
      BY <1>3, <1>4, <1>5 DEF m
    <3>3. /\ NewChunks(m, k, n) \in Seq(ChunkSet) /\ Len(NewChunks(m, k, n)) = k
          /\ \A i \in 1..k : NewChunks(m, k, n)[i].seq = m + i - 1
          /\ (m + k) % SeqSpace = m + k
      BY <3>2, NewChunksFacts
    <3>4. QED BY <3>1, <3>3 DEF m
  <2>2. DOMAIN s = Fields BY <1>3 DEF TerminalInv, Terminal
  <2> HIDE DEF new
  <2>3. /\ DOMAIN s1 = Fields /\ s1.queue = s.queue \o new /\ s1.sendSeq = s.sendSeq + k
        /\ s1.status = s.status /\ s1.wnsrp = s.wnsrp /\ s1.save = s.save
        /\ s1.active = s.active /\ s1.tx = s.tx
    BY <2>1, <2>2 DEF Fields
  <2> HIDE DEF s1
  <2>4. QED BY <1>3, <1>5, <2>1, <2>3, JoinKeeps
<1> HIDE DEF s1
<1>7. /\ TerminalInv(t, Numbered(p)) /\ Sends(t, {}) /\ t.sendSeq = s1.sendSeq
  <2>1. CASE s.status = "IDLE"
    <3>1. s1.save = <<>> BY <1>3, <1>6, <2>1 DEF SaveIsHead, Covered
    <3>2. t = Srp_0_1(s1) BY <2>1
    <3> HIDE DEF t
    <3>3. QED BY <1>6, <3>1, <3>2, Srp01Keeps
  <2>2. CASE s.status # "IDLE"
    <3>1. s1.status = "WAIT_RESPONSE" BY <1>3, <1>6, <2>2
    <3>2. SaveIsHead(s1) BY <1>3, <1>6 DEF SaveIsHead, Queued
    <3>3. s1.wnsrp # "WNSRP_FULL" => s1.save # <<>> BY <1>3, <1>6, <2>2 DEF Covered
    <3>4. t = Srp_1_1(s1) BY <2>2
    <3> HIDE DEF t
    <3>5. QED BY <1>6, <3>1, <3>2, <3>3, <3>4, Srp11Keeps
  <2>3. QED BY <2>1, <2>2
<1> HIDE DEF t
<1>8. Pdu(n, k) \in Seq(Nat) \ {<<>>}
  <2>1. Pdu(n, k) \in [1..k -> Nat] BY <1>4, <1>5 DEF Pdu
  <2>2. Pdu(n, k) \in Seq(Nat) /\ Len(Pdu(n, k)) = k BY <1>5, <2>1, LenProperties
  <2>3. QED BY <1>5, <2>2
<1>9. /\ sent' \in [Peer -> Seq(Seq(Nat) \ {<<>>})]
      /\ sent'[Other(p)] = sent[Other(p)]
      /\ Len(sent'[p]) = Len(sent[p]) + 1
  <2> DEFINE M == Seq(Nat) \ {<<>>}
  <2> DEFINE m == Pdu(n, k)
  <2> HIDE DEF M, m
  <2>1. sent[p] \in Seq(M) /\ m \in M BY <1>2, <1>8 DEF M, m
  <2>2. Append(sent[p], m) \in Seq(M) /\ Len(Append(sent[p], m)) = Len(sent[p]) + 1
    BY <2>1, AppendProperties
  <2>3. sent' = [sent EXCEPT ![p] = Append(sent[p], m)] /\ sent \in [Peer -> Seq(M)]
    BY <1>1, <1>2 DEF m, M
  <2>4. Other(p) # p /\ Other(p) \in Peer BY OtherPeer
  <2>5. QED BY <2>2, <2>3, <2>4 DEF M
<1>10. t.sendSeq <= K * Len(sent'[p]) BY <1>5, <1>6, <1>7, <1>9
<1>11. Len(sent'[p]) <= MsgsOf[p]
  <2>1. MsgsOf[p] \in Nat BY SrpAssumption
  <2>2. QED BY <1>1, <1>4, <1>9, <2>1
<1>12. QED BY <1>1, <1>7, <1>9, <1>10, <1>11, <1>14

\* So the invariant is kept.
LEMMA MessageKeeps ==
    ASSUME NEW K, NoWrap(K), Window >= 2, SrpInv(K), NEW p \in Peer, NEW k \in Chunks,
           UpperLayerRx(p, k)
    PROVE  SrpInv(K)'
<1> DEFINE t == AfterMessage(p, k)
<1>1. /\ Commit(p, t, link[p]) /\ UNCHANGED failed
      /\ TerminalInv(t, Numbered(p)) /\ Sends(t, {})
      /\ sent' \in [Peer -> Seq(Seq(Nat) \ {<<>>})] /\ sent'[Other(p)] = sent[Other(p)]
      /\ t.sendSeq <= K * Len(sent'[p]) /\ Len(sent'[p]) <= MsgsOf[p]
  BY MessageFacts
<1> HIDE DEF t
<1>2. /\ link[p] \in Seq(FrameSet) /\ {} \subseteq Numbers(link[p], "SRP_COMMAND")
      /\ \A h : Numbers(link[p], h) \subseteq Numbers(link[p], h)
  BY DEF SrpInv
<1>3. QED BY <1>1, <1>2, CommitStep

-----------------------------------------------------------------------------
(* The theorem.                                                            *)

\* Every step keeps the invariant.
LEMMA NextKeeps ==
    ASSUME NEW K, NoWrap(K), Window >= 2, SrpInv(K), [Next]_vars
    PROVE  SrpInv(K)'
<1>1. CASE UNCHANGED vars
  <2>1. UNCHANGED <<ep, link, sent, failed>> BY <1>1 DEF vars
  <2>2. \A p \in Peer : Numbered(p)' = Numbered(p) BY <2>1 DEF Numbered
  <2>3. QED BY <2>1, <2>2 DEF SrpInv, PeerInv
<1>2. CASE Next
  <2>1. PICK p \in Peer :
          \/ \E k \in Chunks : UpperLayerRx(p, k)
          \/ LowerLayerRx(p) \/ LoseFrame(p) \/ Retransmit(p) \/ TransmissionFailure(p)
          \/ SrpStop(p) \/ UseNSRP(p) \/ DisableWNSRPSupport(p)
    BY <1>2 DEF Next
  <2>2. CASE \E k \in Chunks : UpperLayerRx(p, k) BY <2>2, MessageKeeps
  <2>3. CASE LowerLayerRx(p) BY <2>3, ReceiveKeeps
  <2>4. CASE LoseFrame(p) BY <2>4, LoseKeeps
  <2>5. CASE Retransmit(p) BY <2>5, RetransmitKeeps
  <2>6. CASE TransmissionFailure(p) BY <2>6, GiveUpKeeps
  <2>7. CASE SrpStop(p) \/ UseNSRP(p) \/ DisableWNSRPSupport(p) BY <2>7, ControlKeeps
  <2>8. QED BY <2>1, <2>2, <2>3, <2>4, <2>5, <2>6, <2>7
<1>3. QED BY <1>1, <1>2

\* What the invariant says of the timers.
LEMMA InvCovers ==
    ASSUME NEW K, SrpInv(K)
    PROVE  TimersCoverQueue
<1>1. SUFFICES ASSUME NEW p \in Peer, ~failed[p]
               PROVE  LET s == ep[p] IN
                      /\ s.queue # <<>> =>
                           \E i \in Timers(s) : TimerSeq(TimerOf(s, i)) = s.queue[1].seq
                      /\ s.status = "IDLE" => s.queue = <<>> /\ Timers(s) = {}
                      /\ Len(s.active) <= Window
  BY DEF TimersCoverQueue
<1> DEFINE s == ep[p]
<1>2. TerminalInv(s, Numbered(p)) BY <1>1 DEF SrpInv, PeerInv
<1> HIDE DEF s
<1>3. /\ Terminal(s) /\ WindowIsPrefix(s) /\ SaveIsHead(s) /\ Covered(s)
  BY <1>2 DEF TerminalInv
<1>4. /\ DOMAIN s.active = 1..Len(s.active) /\ Len(s.active) \in Nat /\ Len(s.queue) \in Nat
      /\ s.active = <<>> <=> Len(s.active) = 0
      /\ s.queue = <<>> <=> Len(s.queue) = 0
  BY <1>3, QueueTypes
<1>5. ASSUME s.queue # <<>>
      PROVE  \E i \in Timers(s) : TimerSeq(TimerOf(s, i)) = s.queue[1].seq
  <2>1. CASE s.wnsrp # "WNSRP_FULL"
    <3>1. s.save # <<>> BY <1>3, <1>5, <2>1 DEF Covered
    <3>2. 0 \in Timers(s) /\ TimerOf(s, 0) = s.save[1] BY <3>1 DEF Timers, TimerOf
    <3>3. TimerSeq(s.save[1]) = s.queue[1].seq BY <1>3, <3>1 DEF SaveIsHead
    <3>4. QED BY <3>2, <3>3
  <2>2. CASE s.wnsrp = "WNSRP_FULL"
    <3>1. s.active # <<>> BY <1>3, <1>5, <2>2 DEF Covered
    <3>2. 1 \in 1..Len(s.active) BY <1>4, <3>1
    <3>3. 1 \in Timers(s) /\ TimerOf(s, 1) = s.active[1] BY <1>4, <3>2 DEF Timers, TimerOf
    <3>4. TimerSeq(s.active[1]) = s.queue[1].seq BY <1>3, <3>2 DEF WindowIsPrefix
    <3>5. QED BY <3>3, <3>4
  <2>3. QED BY <2>1, <2>2
<1>6. ASSUME s.status = "IDLE" PROVE s.queue = <<>> /\ Timers(s) = {}
  <2>1. s.queue = <<>> BY <1>3, <1>6 DEF Covered
  <2>2. s.save = <<>> BY <1>3, <2>1 DEF SaveIsHead
  <2>3. Len(s.active) = 0 BY <1>3, <1>4, <2>1 DEF WindowIsPrefix
  <2>4. QED BY <1>4, <2>1, <2>2, <2>3 DEF Timers
<1>7. Len(s.active) <= Window BY <1>3 DEF WindowIsPrefix
<1>8. QED BY <1>5, <1>6, <1>7 DEF s

\* A chunk that waits has a timer behind it, a terminal goes idle only with
\* nothing left to send, and it never needs more timers than the window has
\* (TimersCoverQueue), whatever responses of whatever mode arrive, late or not
\* at all: as long as the sequence numbers do not wrap, and for windows of
\* two or more (DEFAULT_WNSRP_WINDOW is 5).
THEOREM SrpTimersCorrect ==
    ASSUME NEW CONSTANT K, NoWrap(K), Window >= 2
    PROVE  Spec => []TimersCoverQueue
<1>1. Init => SrpInv(K) BY InitKeeps DEF NoWrap
<1>2. SrpInv(K) /\ [Next]_vars => SrpInv(K)' BY NextKeeps
<1>3. SrpInv(K) => TimersCoverQueue BY InvCovers
<1>4. QED BY <1>1, <1>2, <1>3, PTL DEF Spec

-----------------------------------------------------------------------------
(* The list of chunks that came early.                                     *)

\* Chunks in the order of their numbers, no number twice.
Rising(q) == \A i, j \in 1..Len(q) : i < j => q[i].seq < q[j].seq

\* Every non-empty set of naturals has a least member, which is its Min.
LEMMA LeastNat ==
    ASSUME NEW S \in SUBSET Nat, S # {}
    PROVE  Min(S) \in S /\ \A n \in S : Min(S) <= n
<1> DEFINE R == OpToRel(<, Nat)
<1>1. \A m, n \in Nat : n < m => <<n, m>> \in R
  BY DEF OpToRel
<1>2. PICK m \in S : \A n \in Nat : <<n, m>> \in R => n \notin S
  <2> HIDE DEF R
  <2>1. IsWellFoundedOn(R, Nat) BY NatLessThanWellFounded DEF R
  <2>2. QED BY <2>1, WFMin
<1> HIDE DEF R
<1>3. m \in Nat OBVIOUS
<1>4. \A n \in Nat : n < m => n \notin S BY <1>1, <1>2, <1>3, Zenon
<1>5. \A n \in S : m <= n BY <1>3, <1>4
<1>6. QED BY <1>5 DEF Min

\* InsertAt makes room for the element.
LEMMA InsertAtFacts ==
    ASSUME NEW S, NEW q \in Seq(S), NEW j \in 1..Len(q), NEW e \in S
    PROVE  /\ InsertAt(q, j, e) \in Seq(S)
           /\ Len(InsertAt(q, j, e)) = Len(q) + 1
           /\ \A i \in 1..Len(q) + 1 :
                InsertAt(q, j, e)[i] = IF i < j THEN q[i] ELSE IF i = j THEN e ELSE q[i - 1]
<1> DEFINE L == Len(q)
<1> DEFINE front == SubSeq(q, 1, j - 1)
<1> DEFINE back == SubSeq(q, j, Len(q))
<1>1. L \in Nat /\ \A i \in 1..L : q[i] \in S BY LenProperties
<1>2. /\ front \in Seq(S) /\ Len(front) = j - 1
      /\ \A i \in 1..j - 1 : front[i] = q[i]
  BY <1>1, SubSeqProperties, LenProperties
<1>3. /\ back \in Seq(S) /\ Len(back) = L - j + 1
      /\ \A i \in 1..L - j + 1 : back[i] = q[j + i - 1]
  <2>1. \A i \in j..L : q[i] \in S BY <1>1
  <2>2. j \in Int /\ L \in Int /\ j <= L BY <1>1
  <2>3. QED BY <2>1, <2>2, SubSeqProperties
<1> HIDE DEF front, back, L
<1>4. <<e>> \in Seq(S) /\ Len(<<e>>) = 1 /\ <<e>>[1] = e OBVIOUS
<1> DEFINE one == <<e>>
<1>5. one \in Seq(S) /\ Len(one) = 1 /\ one[1] = e BY <1>4
<1> HIDE DEF one
<1>6. /\ front \o one \in Seq(S) /\ Len(front \o one) = j
      /\ \A i \in 1..j : (front \o one)[i] = IF i < j THEN q[i] ELSE e
  <2>1. /\ front \o one \in Seq(S) /\ Len(front \o one) = Len(front) + Len(one)
        /\ \A i \in 1..Len(front) + Len(one) :
             (front \o one)[i] = IF i <= Len(front) THEN front[i] ELSE one[i - Len(front)]
    BY <1>2, <1>5, ConcatProperties
  <2>2. j \in Nat /\ Len(front) + Len(one) = j BY <1>1, <1>2, <1>5 DEF L
  <2>3. ASSUME NEW i \in 1..j PROVE (front \o one)[i] = IF i < j THEN q[i] ELSE e
    <3>1. (front \o one)[i] = IF i <= j - 1 THEN front[i] ELSE one[i - (j - 1)]
      BY <1>2, <2>1, <2>2
    <3>2. CASE i < j
      <4>1. i <= j - 1 /\ i \in 1..j - 1 BY <2>2, <3>2
      <4>2. QED BY <1>2, <3>1, <3>2, <4>1
    <3>3. CASE ~(i < j)
      <4>1. i = j /\ ~(i <= j - 1) /\ i - (j - 1) = 1 BY <2>2, <3>3
      <4>2. QED BY <1>5, <3>1, <3>3, <4>1
    <3>4. QED BY <3>2, <3>3
  <2>4. QED BY <2>1, <2>2, <2>3
<1> DEFINE start == front \o one
<1> HIDE DEF start
<1>7. /\ start \in Seq(S) /\ Len(start) = j
      /\ \A i \in 1..j : start[i] = IF i < j THEN q[i] ELSE e
  BY <1>6 DEF start
<1>8. /\ start \o back \in Seq(S) /\ Len(start \o back) = Len(start) + Len(back)
      /\ \A i \in 1..Len(start) + Len(back) :
           (start \o back)[i] = IF i <= Len(start) THEN start[i] ELSE back[i - Len(start)]
  BY <1>3, <1>7, ConcatProperties
<1>9. InsertAt(q, j, e) = start \o back BY DEF InsertAt, start, front, one, back
<1>10. j \in 1..L /\ L \in Nat BY <1>1 DEF L
<1>11. Len(start) + Len(back) = L + 1 BY <1>3, <1>7, <1>10
<1>12. ASSUME NEW i \in 1..L + 1
       PROVE  (start \o back)[i] = IF i < j THEN q[i] ELSE IF i = j THEN e ELSE q[i - 1]
  <2>1. (start \o back)[i] = IF i <= j THEN start[i] ELSE back[i - j]
    BY <1>7, <1>8, <1>11
  <2>2. CASE i <= j
    <3>1. i \in 1..j /\ (i < j \/ i = j) BY <1>10, <2>2
    <3>2. QED BY <1>7, <2>1, <2>2, <3>1
  <2>3. CASE ~(i <= j)
    <3>1. i - j \in 1..L - j + 1 /\ j + (i - j) - 1 = i - 1 /\ ~(i < j) /\ i # j
      BY <1>10, <2>3
    <3>2. QED BY <1>3, <2>1, <2>3, <3>1
  <2>4. QED BY <2>2, <2>3
<1>13. QED BY <1>8, <1>9, <1>11, <1>12 DEF L

\* A chunk put between those with smaller and those with larger numbers.
LEMMA BetweenRises ==
    ASSUME NEW q \in Seq(ChunkSet), Rising(q), NEW c \in ChunkSet,
           NEW r \in Seq(ChunkSet), Len(r) = Len(q) + 1, NEW j \in 1..Len(q) + 1,
           \A i \in 1..Len(q) : (i < j => q[i].seq < c.seq) /\ (i >= j => q[i].seq > c.seq),
           \A i \in 1..Len(q) + 1 :
              r[i] = IF i < j THEN q[i] ELSE IF i = j THEN c ELSE q[i - 1]
    PROVE  Rising(r)
<1> DEFINE L == Len(q)
<1>1. L \in Nat /\ \A i \in 1..L : q[i] \in ChunkSet BY LenProperties
<1>2. \A d \in ChunkSet : d.seq \in Nat BY SrpAssumption DEF ChunkSet
<1> HIDE DEF L
<1>3. SUFFICES ASSUME NEW i \in 1..L + 1, NEW k \in 1..L + 1, i < k
               PROVE  r[i].seq < r[k].seq
  BY DEF Rising, L
<1>4. c.seq \in Nat /\ j \in 1..L + 1 /\ \A x \in 1..L : q[x].seq \in Nat
  BY <1>1, <1>2 DEF L
<1>5. \A x, y \in 1..L : x < y => q[x].seq < q[y].seq BY DEF Rising, L
<1>6. /\ \A x \in 1..L : (x < j => q[x].seq < c.seq) /\ (x >= j => q[x].seq > c.seq)
      /\ \A x \in 1..L + 1 : r[x] = IF x < j THEN q[x] ELSE IF x = j THEN c ELSE q[x - 1]
  BY DEF L
<1>7. CASE k < j
  <2>1. i < j /\ i \in 1..L /\ k \in 1..L BY <1>1, <1>3, <1>4, <1>7
  <2>2. r[i] = q[i] /\ r[k] = q[k] BY <1>6, <1>7, <2>1
  <2>3. QED BY <1>3, <1>5, <2>1, <2>2
<1>8. CASE k = j
  <2>1. i < j /\ i \in 1..L BY <1>1, <1>3, <1>4, <1>8
  <2>2. r[i] = q[i] /\ r[k] = c BY <1>6, <1>8, <2>1
  <2>3. QED BY <1>6, <2>1, <2>2
<1>9. CASE k > j
  <2>1. k - 1 \in 1..L /\ k - 1 >= j /\ r[k] = q[k - 1]
    <3>1. k - 1 \in 1..L /\ k - 1 >= j /\ ~(k < j) /\ k # j BY <1>1, <1>4, <1>9
    <3>2. QED BY <1>6, <3>1
  <2>2. CASE i < j
    <3>1. i \in 1..L /\ i < k - 1 BY <1>1, <1>4, <2>1, <2>2
    <3>2. r[i] = q[i] BY <1>6, <2>2
    <3>3. QED BY <1>5, <2>1, <3>1, <3>2
  <2>3. CASE i = j
    <3>1. r[i] = c BY <1>4, <1>6, <2>3
    <3>2. q[k - 1].seq > c.seq BY <1>6, <2>1
    <3>3. QED BY <1>4, <2>1, <3>1, <3>2
  <2>4. CASE i > j
    <3>1. i - 1 \in 1..L /\ i - 1 < k - 1 /\ ~(i < j) /\ i # j BY <1>1, <1>3, <1>4, <2>4
    <3>2. r[i] = q[i - 1] BY <1>6, <3>1
    <3>3. QED BY <1>5, <2>1, <3>1, <3>2
  <2>5. QED BY <1>4, <2>2, <2>3, <2>4
<1>10. QED BY <1>4, <1>7, <1>8, <1>9

\* The list with one more chunk, as AddPendingRxFrag makes it.
Inserted(q, c) ==
    LET larger == {i \in DOMAIN q : q[i].seq > c.seq}
    IN  IF larger = {} THEN Append(q, c) ELSE InsertAt(q, Min(larger), c)

\* AddPendingRxFrag keeps the order of the list.
LEMMA InsertRises ==
    ASSUME NEW q \in Seq(ChunkSet), Rising(q), NEW c \in ChunkSet,
           \A i \in 1..Len(q) : q[i].seq # c.seq
    PROVE  LET r == Inserted(q, c)
           IN  /\ r \in Seq(ChunkSet) /\ Rising(r)
               /\ \A i \in 1..Len(r) : r[i] = c \/ \E k \in 1..Len(q) : r[i] = q[k]
               /\ \E i \in 1..Len(r) : r[i] = c
               /\ \A k \in 1..Len(q) : \E i \in 1..Len(r) : r[i] = q[k]
<1> DEFINE L == Len(q)
<1> DEFINE larger == {i \in DOMAIN q : q[i].seq > c.seq}
<1> DEFINE r == IF larger = {} THEN Append(q, c) ELSE InsertAt(q, Min(larger), c)
<1>1. L \in Nat /\ DOMAIN q = 1..L /\ \A i \in 1..L : q[i] \in ChunkSet BY LenProperties
<1>2. c.seq \in Nat /\ \A i \in 1..L : q[i].seq \in Nat
  <2>1. \A d \in ChunkSet : d.seq \in Nat BY SrpAssumption DEF ChunkSet
  <2>2. QED BY <1>1, <2>1
<1>3. PICK j \in 1..L + 1 :
        /\ r \in Seq(ChunkSet) /\ Len(r) = L + 1
        /\ \A i \in 1..L : (i < j => q[i].seq < c.seq) /\ (i >= j => q[i].seq > c.seq)
        /\ \A i \in 1..L + 1 : r[i] = IF i < j THEN q[i] ELSE IF i = j THEN c ELSE q[i - 1]
  <2>1. CASE larger = {}
    <3>1. r = Append(q, c) BY <2>1
    <3>2. /\ r \in Seq(ChunkSet) /\ Len(r) = L + 1
          /\ \A i \in 1..L : r[i] = q[i]
          /\ r[L + 1] = c
      BY <3>1, AppendProperties
    <3>3. \A i \in 1..L : i < L + 1 /\ ~(i >= L + 1) /\ q[i].seq < c.seq
      <4> SUFFICES ASSUME NEW i \in 1..L PROVE i < L + 1 /\ ~(i >= L + 1) /\ q[i].seq < c.seq
        OBVIOUS
      <4>1. ~(q[i].seq > c.seq) /\ q[i].seq # c.seq BY <1>1, <2>1
      <4>2. q[i].seq \in Nat /\ c.seq \in Nat BY <1>2
      <4>3. QED BY <1>1, <4>1, <4>2
    <3> HIDE DEF r, L
    <3>4. \A i \in 1..L + 1 : r[i] = IF i < L + 1 THEN q[i] ELSE IF i = L + 1 THEN c ELSE q[i - 1]
      <4>1. \A i \in 1..L + 1 : i \in 1..L \/ i = L + 1 BY <1>1
      <4>2. QED BY <1>1, <3>2, <3>3, <4>1
    <3>5. L + 1 \in 1..L + 1 BY <1>1
    <3>6. QED BY <3>2, <3>3, <3>4, <3>5
  <2>2. CASE larger # {}
    <3> DEFINE j == Min(larger)
    <3>1. larger \in SUBSET Nat BY <1>1
    <3>2. j \in larger /\ \A i \in larger : j <= i BY <2>2, <3>1, LeastNat
    <3>3. j \in 1..L /\ q[j].seq > c.seq BY <1>1, <3>2
    <3>4. r = InsertAt(q, j, c) BY <2>2
    <3> HIDE DEF j, r
    <3>5. /\ r \in Seq(ChunkSet) /\ Len(r) = L + 1
          /\ \A i \in 1..L + 1 : r[i] = IF i < j THEN q[i] ELSE IF i = j THEN c ELSE q[i - 1]
      BY <3>3, <3>4, InsertAtFacts
    <3>6. ASSUME NEW i \in 1..L PROVE (i < j => q[i].seq < c.seq) /\ (i >= j => q[i].seq > c.seq)
      <4>1. q[i].seq \in Nat /\ q[j].seq \in Nat /\ c.seq \in Nat /\ q[i].seq # c.seq
        BY <1>2, <3>3
      <4>2. CASE i < j
        <5>1. i \notin larger BY <1>1, <3>2, <3>3, <4>2
        <5>2. ~(q[i].seq > c.seq) BY <1>1, <5>1
        <5>3. ~(i >= j) BY <1>1, <3>3, <4>2
        <5>4. QED BY <4>1, <5>2, <5>3
      <4>3. CASE i = j
        BY <1>1, <3>3, <4>3
      <4>4. CASE i > j
        <5>1. q[j].seq < q[i].seq BY <3>3, <4>4 DEF Rising
        <5>2. ~(i < j) BY <1>1, <3>3, <4>4
        <5>3. QED BY <3>3, <4>1, <5>1, <5>2
      <4>5. QED BY <1>1, <3>3, <4>2, <4>3, <4>4
    <3>7. j \in 1..L + 1 BY <1>1, <3>3
    <3>8. QED BY <3>5, <3>6, <3>7
  <2>3. QED BY <2>1, <2>2
<1> HIDE DEF r
<1>4. Rising(r) BY <1>3, BetweenRises
<1>5. ASSUME NEW i \in 1..Len(r) PROVE r[i] = c \/ \E k \in 1..L : r[i] = q[k]
  <2>1. i \in 1..L + 1 /\ j \in 1..L + 1 BY <1>3
  <2> HIDE DEF L
  <2>2. CASE i < j
    <3>1. i \in 1..L /\ r[i] = q[i] BY <1>1, <1>3, <2>1, <2>2
    <3>2. QED BY <3>1
  <2>3. CASE i = j BY <1>3, <2>1, <2>3
  <2>4. CASE i > j
    <3>1. i - 1 \in 1..L /\ ~(i < j) /\ i # j BY <1>1, <2>1, <2>4
    <3>2. r[i] = q[i - 1] BY <1>3, <2>1, <3>1
    <3>3. QED BY <3>1, <3>2
  <2>5. QED BY <2>1, <2>2, <2>3, <2>4
<1>6. \E i \in 1..Len(r) : r[i] = c
  <2>1. j \in 1..Len(r) /\ ~(j < j) BY <1>3
  <2>2. r[j] = c BY <1>3, <2>1
  <2>3. QED BY <2>1, <2>2
<1>7. ASSUME NEW k \in 1..L PROVE \E i \in 1..Len(r) : r[i] = q[k]
  <2> HIDE DEF L
  <2>1. CASE k < j
    <3>1. k \in 1..Len(r) /\ r[k] = q[k] BY <1>1, <1>3, <2>1
    <3>2. QED BY <3>1
  <2>2. CASE ~(k < j)
    <3>1. k + 1 \in 1..L + 1 /\ ~(k + 1 < j) /\ k + 1 # j /\ k + 1 - 1 = k BY <1>1, <1>3, <2>2
    <3>2. k + 1 \in 1..Len(r) /\ r[k + 1] = q[k] BY <1>3, <3>1
    <3>3. QED BY <3>2
  <2>3. QED BY <2>1, <2>2
<1>8. Inserted(q, c) = r BY DEF Inserted, r
<1>9. QED BY <1>3, <1>4, <1>5, <1>6, <1>7, <1>8

\* DeliverPending passes up all chunks that follow on from the number expected
\* next, m, and leaves none with the number that is then expected.
LEMMA DrainRises ==
    ASSUME NEW q \in Seq(ChunkSet), Rising(q), NEW m \in Nat, NEW B \in Nat, m <= B,
           B < SeqSpace, \A i \in 1..Len(q) : m <= q[i].seq /\ q[i].seq < B
    PROVE  LET n == Max({k \in 0..Len(q) :
                           \A i \in 1..k : q[i].seq = (m + i - 1) % SeqSpace})
               r == SubSeq(q, n + 1, Len(q))
           IN  /\ n \in Nat /\ m + n <= B /\ (m + n) % SeqSpace = m + n
               /\ r \in Seq(ChunkSet) /\ Rising(r)
               /\ \A i \in 1..Len(r) : m + n < r[i].seq /\ r[i].seq < B
               /\ n <= Len(q) /\ \A i \in 1..n : q[i].seq = m + i - 1
               /\ Len(r) = Len(q) - n /\ \A i \in 1..Len(q) - n : r[i] = q[n + i]
<1> DEFINE L == Len(q)
<1> DEFINE inOrder == {k \in 0..L : \A i \in 1..k : q[i].seq = (m + i - 1) % SeqSpace}
<1> DEFINE n == Max(inOrder)
<1> DEFINE r == SubSeq(q, n + 1, L)
<1>1. L \in Nat /\ SeqSpace \in Nat /\ \A i \in 1..L : q[i] \in ChunkSet
  BY LenProperties, SrpAssumption
<1>2. \A i \in 1..L : q[i].seq \in Nat /\ m <= q[i].seq /\ q[i].seq < B
  <2>1. \A d \in ChunkSet : d.seq \in Nat BY SrpAssumption DEF ChunkSet
  <2>2. QED BY <1>1, <2>1
<1>3. \A x, y \in 1..L : x < y => q[x].seq < q[y].seq BY DEF Rising
<1> HIDE DEF L
<1>4. n \in inOrder /\ \A k \in inOrder : k <= n
  <2> DEFINE out == Nat \ inOrder
  <2>1. L + 1 \in out BY <1>1
  <2>2. 0 \in inOrder BY <1>1
  <2>3. out \in SUBSET Nat /\ out # {} BY <2>1
  <2>4. Min(out) \in out /\ \A k \in out : Min(out) <= k BY <2>3, LeastNat
  <2> DEFINE z == Min(out)
  <2> HIDE DEF z, out
  <2>5. z \in Nat /\ z \notin inOrder /\ \A k \in Nat : k < z => k \in inOrder
    <3>1. z \in out /\ \A k \in out : z <= k BY <2>4 DEF z
    <3>2. out \subseteq Nat BY <2>3
    <3>3. \A k \in Nat : k < z => k \notin out BY <3>1, <3>2
    <3>4. QED BY <3>1, <3>3 DEF out
  <2>6. z # 0 /\ z - 1 \in Nat /\ z - 1 < z BY <2>2, <2>5
  <2>7. z - 1 \in inOrder BY <2>5, <2>6
  <2>8. \A k \in inOrder : k <= z - 1
    <3> SUFFICES ASSUME NEW k \in inOrder, ~(k <= z - 1) PROVE FALSE OBVIOUS
    <3>1. k \in 0..L /\ \A i \in 1..k : q[i].seq = (m + i - 1) % SeqSpace OBVIOUS
    <3>2. z \in 0..L /\ \A i \in 1..z : i \in 1..k BY <1>1, <2>5, <2>6, <3>1
    <3>3. z \in inOrder BY <3>1, <3>2
    <3>4. QED BY <2>5, <3>3
  <2> HIDE DEF inOrder
  <2>9. \E x \in inOrder : \A y \in inOrder : x >= y
    <3>1. inOrder \subseteq Nat BY <1>1 DEF inOrder
    <3>2. \A y \in inOrder : z - 1 >= y BY <2>6, <2>8, <3>1
    <3>3. QED BY <2>7, <3>2
  <2>10. n \in inOrder /\ \A y \in inOrder : n >= y BY <2>9 DEF Max
  <2>11. inOrder \subseteq Nat BY <1>1 DEF inOrder
  <2>12. QED BY <2>10, <2>11
<1> HIDE DEF n
<1>5. n \in 0..L /\ n \in Nat /\ \A i \in 1..n : q[i].seq = (m + i - 1) % SeqSpace
  BY <1>1, <1>4
<1>6. ASSUME NEW i \in 1..n, m + i - 1 <= B
      PROVE  q[i].seq = m + i - 1 /\ m + i <= B
  <2>1. m + i - 1 \in Nat /\ m + i - 1 < SeqSpace /\ i \in 1..L BY <1>1, <1>5, <1>6
  <2>2. (m + i - 1) % SeqSpace = m + i - 1 BY <1>1, <2>1, ModSmall
  <2>3. q[i].seq = m + i - 1 BY <1>5, <2>2
  <2>4. q[i].seq < B BY <1>2, <2>1
  <2>5. QED BY <1>5, <2>1, <2>3, <2>4
<1>7. \A i \in 0..n : m + i <= B
  <2> DEFINE bad == {i \in 0..n : ~(m + i <= B)}
  <2> SUFFICES ASSUME bad # {} PROVE FALSE OBVIOUS
  <2>1. bad \in SUBSET Nat BY <1>5
  <2>2. Min(bad) \in bad /\ \A i \in bad : Min(bad) <= i BY <2>1, LeastNat
  <2> DEFINE i == Min(bad)
  <2> HIDE DEF i
  <2>3. i \in 0..n /\ ~(m + i <= B) /\ \A k \in bad : i <= k BY <2>2 DEF i
  <2>4. i # 0 /\ i \in 1..n BY <1>5, <2>3
  <2>5. i - 1 \in 0..n /\ ~(i <= i - 1) BY <1>5, <2>4
  <2>6. m + (i - 1) <= B BY <2>3, <2>5
  <2>7. m + i - 1 <= B BY <1>5, <2>4, <2>6
  <2>8. QED BY <1>6, <2>3, <2>4, <2>7
<1>8. m + n <= B /\ m + n < SeqSpace /\ (m + n) % SeqSpace = m + n
  <2>1. m + n <= B BY <1>5, <1>7
  <2>2. m + n \in Nat /\ m + n < SeqSpace BY <1>1, <1>5, <2>1
  <2>3. QED BY <1>1, <2>1, <2>2, ModSmall
<1>9. ASSUME NEW i \in n + 1..L PROVE q[i].seq > m + n
  <2>1. q[n + 1].seq # m + n
    <3> SUFFICES ASSUME q[n + 1].seq = m + n PROVE FALSE OBVIOUS
    <3>1. n + 1 \in 0..L BY <1>1, <1>5
    <3>2. ASSUME NEW k \in 1..n + 1 PROVE q[k].seq = (m + k - 1) % SeqSpace
      <4>1. CASE k \in 1..n BY <1>5, <4>1
      <4>2. CASE k = n + 1
        <5>1. m + k - 1 = m + n BY <1>5, <4>2
        <5>2. QED BY <1>8, <4>2, <5>1
      <4>3. QED BY <1>5, <4>1, <4>2
    <3>3. n + 1 \in inOrder BY <3>1, <3>2
    <3>4. QED BY <1>4, <1>5, <3>3
  <2>2. n + 1 \in 1..L /\ i \in 1..L BY <1>1, <1>5
  <2>3. q[n + 1].seq \in Nat /\ q[i].seq \in Nat /\ m <= q[n + 1].seq BY <1>2, <2>2
  <2>4. q[n + 1].seq >= m + n
    <3>1. CASE n = 0 BY <2>3, <3>1
    <3>2. CASE n # 0
      <4>1. n \in 1..n /\ n \in 1..L /\ n < n + 1 BY <1>1, <1>5, <3>2
      <4>2. m + n - 1 <= B BY <1>5, <1>8
      <4>3. q[n].seq = m + n - 1 BY <1>6, <4>1, <4>2
      <4>4. q[n].seq < q[n + 1].seq BY <1>3, <2>2, <4>1
      <4>5. QED BY <1>5, <2>3, <4>3, <4>4
    <3>3. QED BY <3>1, <3>2
  <2>5. q[n + 1].seq > m + n
    <3>1. \A x, y \in Nat : x >= y /\ x # y => x > y OBVIOUS
    <3>2. m + n \in Nat BY <1>1, <1>5
    <3>3. QED BY ONLY <2>1, <2>3, <2>4, <3>1, <3>2
  <2>6. CASE i = n + 1 BY <2>5, <2>6
  <2>7. CASE i # n + 1
    <3>1. n + 1 < i BY <1>1, <1>5, <2>7
    <3>2. q[n + 1].seq < q[i].seq BY <1>3, <2>2, <3>1
    <3>3. QED BY <1>5, <2>3, <2>5, <3>2
  <2>8. QED BY <2>6, <2>7
<1>10. /\ r \in Seq(ChunkSet) /\ Len(r) = L - n
       /\ \A i \in 1..L - n : r[i] = q[n + i]
  <2>1. \A i \in n + 1..L : q[i] \in ChunkSet BY <1>1, <1>5
  <2>2. n + 1 \in Int /\ L \in Int BY <1>1, <1>5
  <2>3. /\ r \in Seq(ChunkSet) /\ Len(r) = IF n + 1 <= L THEN L - (n + 1) + 1 ELSE 0
        /\ \A i \in 1..L - (n + 1) + 1 : r[i] = q[n + 1 + i - 1]
    BY <2>1, <2>2, SubSeqProperties
  <2> HIDE DEF r
  <2>4. Len(r) = L - n BY <1>1, <1>5, <2>3
  <2>5. \A i \in 1..L - n : i \in 1..L - (n + 1) + 1 /\ n + 1 + i - 1 = n + i BY <1>1, <1>5
  <2>6. QED BY <2>3, <2>4, <2>5
<1> HIDE DEF r
<1>11. \A i \in 1..L - n : n + i \in n + 1..L /\ n + i \in 1..L BY <1>1, <1>5
<1>12. \A i \in 1..Len(r) : m + n < r[i].seq /\ r[i].seq < B
  <2> SUFFICES ASSUME NEW i \in 1..Len(r) PROVE m + n < r[i].seq /\ r[i].seq < B OBVIOUS
  <2>1. n + i \in n + 1..L /\ n + i \in 1..L /\ r[i] = q[n + i] BY <1>10, <1>11
  <2>2. q[n + i].seq > m + n BY <1>9, <2>1
  <2>3. q[n + i].seq < B /\ q[n + i].seq \in Nat BY <1>2, <2>1
  <2>4. QED BY <1>5, <2>1, <2>2, <2>3
<1>13. Rising(r)
  <2> SUFFICES ASSUME NEW i \in 1..Len(r), NEW k \in 1..Len(r), i < k
               PROVE  r[i].seq < r[k].seq
    BY DEF Rising
  <2>1. /\ n + i \in 1..L /\ r[i] = q[n + i] /\ n + k \in 1..L /\ r[k] = q[n + k]
    BY <1>10, <1>11
  <2>2. n + i < n + k BY <1>1, <1>5, <1>10
  <2>3. QED BY <1>3, <2>1, <2>2
<1>14. ASSUME NEW i \in 1..n PROVE q[i].seq = m + i - 1
  <2>1. i - 1 \in 0..n /\ m + (i - 1) = m + i - 1 BY <1>5
  <2>2. m + i - 1 <= B BY <1>7, <2>1
  <2>3. QED BY <1>6, <2>2
<1>15. n <= L BY <1>5
<1>16. QED BY <1>5, <1>8, <1>10, <1>12, <1>13, <1>14, <1>15 DEF r, n, L

-----------------------------------------------------------------------------
(* The receiver.                                                           *)

\* The list is in the order of the numbers, all of them later than the one
\* that is expected next, and below B.
RecvInv(s, B) ==
    /\ s.recvSeq \in Nat /\ s.recvSeq <= B
    /\ s.pending \in Seq(ChunkSet) /\ Rising(s.pending)
    /\ \A i \in 1..Len(s.pending) : s.recvSeq < s.pending[i].seq /\ s.pending[i].seq < B
    /\ s.firstCmd => s.pending = <<>>

\* What the receiver keeps, in a method of the sender.
SameReceiver(r, s) ==
    /\ DOMAIN r = Fields /\ r.recvSeq = s.recvSeq /\ r.pending = s.pending
    /\ r.firstCmd = s.firstCmd /\ r.oldest = s.oldest
    /\ r.up = s.up /\ r.buffer = s.buffer

\* A receiver that is left alone.
LEMMA SameKeeps ==
    ASSUME NEW s, NEW r, NEW B, RecvInv(s, B), SameReceiver(r, s)
    PROVE  RecvInv(r, B)
BY DEF RecvInv, SameReceiver

\* A chunk that is taken is not in the list, and not from before what is
\* expected next: below the wrap the window is an interval of numbers.
LEMMA TakenIsNew ==
    ASSUME NEW s, NEW B \in Nat, B + Window < SeqSpace, RecvInv(s, B), NEW seq \in Nat,
           NEW header, CheckRxSeqNum(s, seq, header) = "take"
    PROVE  /\ s.recvSeq <= seq
           /\ \A i \in 1..Len(s.pending) : s.pending[i].seq # seq
<1>1. /\ s.recvSeq \in Nat /\ s.recvSeq <= B /\ s.pending \in Seq(ChunkSet)
      /\ \A i \in 1..Len(s.pending) : s.recvSeq < s.pending[i].seq
  BY DEF RecvInv
<1>2. /\ DOMAIN s.pending = 1..Len(s.pending)
      /\ \A i \in 1..Len(s.pending) : s.pending[i].seq \in Nat
  <2>1. \A d \in ChunkSet : d.seq \in Nat BY SrpAssumption DEF ChunkSet
  <2>2. QED BY <1>1, <2>1, LenProperties
<1>3. CASE header = "WNSRP_RESPONSE"
  <2>1. ~CheckPendingRxList(s, seq) /\ InRxWindow(s, seq)
    BY <1>3 DEF CheckRxSeqNum
  <2>2. Window \in Nat /\ Window > 0 /\ SeqSpace \in Nat BY SrpAssumption
  <2>3. (s.recvSeq + Window) % SeqSpace = s.recvSeq + Window
    <3>1. s.recvSeq + Window \in Nat /\ s.recvSeq + Window < SeqSpace BY <1>1, <2>2
    <3>2. QED BY <2>2, <3>1, ModSmall
  <2>4. s.recvSeq + Window > s.recvSeq BY <1>1, <2>2
  <2>5. s.recvSeq <= seq BY <2>1, <2>3, <2>4 DEF InRxWindow
  <2>6. QED BY <1>2, <2>1, <2>5 DEF CheckPendingRxList
<1>4. CASE header # "WNSRP_RESPONSE"
  <2>1. seq = s.recvSeq BY <1>4 DEF CheckRxSeqNum
  <2>2. QED BY <1>1, <1>2, <2>1
<1>5. QED BY <1>3, <1>4

\* A command, taken or not, leaves nothing in the list that is due.
LEMMA ReceiverDrains ==
    ASSUME NEW s, DOMAIN s = Fields, NEW B \in Nat, B + Window < SeqSpace, RecvInv(s, B),
           NEW frame \in FrameSet, frame.chunk.seq < B,
           NEW event \in {"COMMAND", "WNSRP_COMMAND"}
    PROVE  RecvInv(Srp_0_2(s, frame, event), B) /\ DOMAIN Srp_0_2(s, frame, event) = Fields
<1> DEFINE chunk == frame.chunk
<1> DEFINE seq == frame.chunk.seq
<1> DEFINE header == CASE event = "WNSRP_COMMAND" -> "WNSRP_RESPONSE"
                       [] event = "COMMAND" /\ s.useNSRP -> "NSRP_RESPONSE"
                       [] OTHER -> "SRP_RESPONSE"
<1> DEFINE s1 == IF ~s.firstCmd THEN s
                 ELSE [s EXCEPT !.firstCmd = FALSE,
                                !.recvSeq = IF event = "WNSRP_COMMAND" THEN 0 ELSE seq]
<1> DEFINE f == SrpResponseCreate(seq, header)
<1> DEFINE answered == [s1 EXCEPT !.tx = @ \o <<f>>]
<1> DEFINE added == AddPendingRxFrag(answered, frame.chunk)
<1> DEFINE taken == DeliverPending(added)
<1> DEFINE check == CheckRxSeqNum(s1, seq, header)
<1> DEFINE r == Srp_0_2(s, frame, event)
<1>1. chunk \in ChunkSet /\ seq \in Nat /\ seq < B
  <2>1. chunk \in ChunkSet BY DEF FrameSet
  <2>2. \A d \in ChunkSet : d.seq \in Nat BY SrpAssumption DEF ChunkSet
  <2>3. QED BY <2>1, <2>2
<1>2. r = s1 \/ r = answered \/ (check = "take" /\ r = taken)
  <2>1. check \in {"take", "answer", "ignore"} BY DEF CheckRxSeqNum
  <2>2. r = CASE check = "ignore" -> s1
              [] check = "answer" -> answered
              [] check = "take" /\ Len(s1.pending) >= Window -> s1
              [] OTHER -> taken
    BY DEF Srp_0_2, LowerLayerTx
  <2> HIDE DEF check, s1, answered, taken, r
  <2>3. QED BY <2>1, <2>2
<1> HIDE DEF header
<1>3. DOMAIN s1 = Fields /\ RecvInv(s1, B) /\ ~s1.firstCmd
  <2>1. CASE ~s.firstCmd BY <2>1
  <2>2. CASE s.firstCmd
    <3>1. /\ DOMAIN s1 = Fields /\ s1.firstCmd = FALSE /\ s1.pending = s.pending
          /\ s1.recvSeq = IF event = "WNSRP_COMMAND" THEN 0 ELSE seq
      BY <2>2 DEF Fields
    <3>2. s.pending = <<>> BY <2>2 DEF RecvInv
    <3>3. Len(s1.pending) = 0 BY <3>1, <3>2
    <3> HIDE DEF s1
    <3>4. s1.recvSeq \in Nat /\ s1.recvSeq <= B BY <1>1, <3>1
    <3>5. \A i \in 1..Len(s1.pending) : FALSE BY <3>3
    <3>6. QED BY <3>1, <3>2, <3>4, <3>5 DEF RecvInv, Rising
  <2>3. QED BY <2>1, <2>2
<1> HIDE DEF s1, f
<1>4. SameReceiver(answered, s1) BY <1>3 DEF Fields, SameReceiver
<1>5. RecvInv(answered, B) BY <1>3, <1>4, SameKeeps
<1>6. ASSUME check = "take" PROVE RecvInv(taken, B) /\ DOMAIN taken = Fields
  <2> HIDE DEF answered
  <2>1. /\ s1.recvSeq <= seq
        /\ \A i \in 1..Len(s1.pending) : s1.pending[i].seq # seq
    BY <1>1, <1>3, <1>6, TakenIsNew
  <2> DEFINE q == answered.pending
  <2> DEFINE m == answered.recvSeq
  <2>2. /\ m \in Nat /\ m <= B /\ q \in Seq(ChunkSet) /\ Rising(q)
        /\ \A i \in 1..Len(q) : m < q[i].seq /\ q[i].seq < B
    BY <1>5 DEF RecvInv
  <2>3. /\ m <= seq /\ \A i \in 1..Len(q) : q[i].seq # seq
    BY <1>4, <2>1 DEF SameReceiver
  <2> DEFINE list == Inserted(q, chunk)
  <2>4. DOMAIN answered = Fields BY <1>4 DEF SameReceiver
  <2>5. added = [answered EXCEPT !.pending = list]
    BY <2>4 DEF AddPendingRxFrag, Inserted, Fields
  <2>6. /\ list \in Seq(ChunkSet) /\ Rising(list)
        /\ \A i \in 1..Len(list) : list[i] = chunk \/ \E k \in 1..Len(q) : list[i] = q[k]
    <3> HIDE DEF q, chunk
    <3>1. chunk.seq = seq BY DEF chunk
    <3>2. QED BY <1>1, <2>2, <2>3, <3>1, InsertRises
  <2>7. \A i \in 1..Len(list) : m <= list[i].seq /\ list[i].seq < B
    <3> HIDE DEF list, q, m
    <3>1. \A d \in ChunkSet : d.seq \in Nat BY SrpAssumption DEF ChunkSet
    <3>2. \A k \in 1..Len(q) : q[k].seq \in Nat BY <2>2, <3>1, LenProperties
    <3>3. \A k \in 1..Len(q) : m <= q[k].seq /\ q[k].seq < B BY <2>2, <3>2
    <3>4. m <= chunk.seq /\ chunk.seq < B BY <1>1, <2>3
    <3>5. QED BY <2>6, <3>3, <3>4
  <2>8. /\ DOMAIN added = Fields /\ added.pending = list /\ added.recvSeq = m
        /\ added.firstCmd = answered.firstCmd
    <3> HIDE DEF list
    <3>1. QED BY <2>4, <2>5 DEF Fields
  <2> DEFINE n == Max({k \in 0..Len(list) :
                         \A i \in 1..k : list[i].seq = (m + i - 1) % SeqSpace})
  <2> DEFINE left == SubSeq(list, n + 1, Len(list))
  <2> HIDE DEF list, m, q, added
  <2>9. /\ n \in Nat /\ m + n <= B /\ (m + n) % SeqSpace = m + n
        /\ left \in Seq(ChunkSet) /\ Rising(left)
        /\ \A i \in 1..Len(left) : m + n < left[i].seq /\ left[i].seq < B
    <3>1. B < SeqSpace BY SrpAssumption
    <3>2. QED BY <2>2, <2>6, <2>7, <3>1, DrainRises
  <2>10. /\ DOMAIN taken = Fields /\ taken.pending = left
         /\ taken.recvSeq = (m + n) % SeqSpace /\ taken.firstCmd = added.firstCmd
    <3> DEFINE go == [added EXCEPT !.up = SubSeq(list, 1, n), !.pending = SubSeq(@, n + 1, Len(@)),
                                   !.recvSeq = (@ + n) % SeqSpace,
                                   !.oldest = (@ + n) % SeqSpace]
    <3>1. taken = go BY <2>8 DEF DeliverPending
    <3> HIDE DEF n, taken
    <3>2. /\ DOMAIN go = Fields /\ go.pending = SubSeq(list, n + 1, Len(list))
          /\ go.recvSeq = (m + n) % SeqSpace /\ go.firstCmd = added.firstCmd
      BY <2>8 DEF Fields
    <3>3. QED BY <3>1, <3>2
  <2>11. ~taken.firstCmd BY <1>3, <1>4, <2>8, <2>10 DEF SameReceiver
  <2> HIDE DEF taken, left, n
  <2>12. taken.recvSeq = m + n /\ taken.recvSeq \in Nat BY <2>2, <2>9, <2>10
  <2>13. QED BY <2>9, <2>10, <2>11, <2>12 DEF RecvInv
<1> HIDE DEF taken, answered, check, r
<1>7. DOMAIN answered = Fields BY <1>4 DEF SameReceiver
<1>8. QED BY <1>2, <1>3, <1>5, <1>6, <1>7 DEF r

\* The sender's fields are not the receiver's.
LEMMA SenderSets ==
    ASSUME NEW s, DOMAIN s = Fields, NEW v, NEW w
    PROVE  /\ SameReceiver(s, s)
           /\ SameReceiver([s EXCEPT !.queue = v], s) /\ SameReceiver([s EXCEPT !.save = v], s)
           /\ SameReceiver([s EXCEPT !.active = v], s) /\ SameReceiver([s EXCEPT !.tx = v], s)
           /\ SameReceiver([s EXCEPT !.status = v], s) /\ SameReceiver([s EXCEPT !.n402 = v], s)
           /\ SameReceiver([s EXCEPT !.firstNSRPResp = v], s)
           /\ SameReceiver([s EXCEPT !.handleWNSRP = v], s)
           /\ SameReceiver([s EXCEPT !.useNSRP = v], s)
           /\ SameReceiver([s EXCEPT !.wnsrp = v, !.active = w], s)
           /\ SameReceiver([s EXCEPT !.wnsrp = v, !.save = w], s)
           /\ SameReceiver([s EXCEPT !.wnsrp = v], s)
           /\ SameReceiver([s EXCEPT !.queue = v, !.sendSeq = w], s)
BY DEF SameReceiver, Fields

\* One method after another.
LEMMA SameTwice ==
    ASSUME NEW s, NEW r, NEW t, SameReceiver(r, s), SameReceiver(t, r)
    PROVE  SameReceiver(t, s)
BY DEF SameReceiver

\* Sending, clearing and stopping timers.
LEMMA PartsLeaveReceiver ==
    ASSUME NEW s, DOMAIN s = Fields, NEW n
    PROVE  /\ SameReceiver(SendSrpCommand(s), s) /\ SameReceiver(SendWnsrpCommands(s, n), s)
           /\ SameReceiver(FillWindow(s), s) /\ SameReceiver(SrpCommandClear(s, n), s)
           /\ SameReceiver(RemoveActiveWnsrpTimer(s, n), s)
           /\ \A f : SameReceiver(LowerLayerTx(s, f), s)
<1>1. \A u, f : DOMAIN u = Fields => SameReceiver(LowerLayerTx(u, f), u)
  BY SenderSets DEF LowerLayerTx
<1>2. SameReceiver(SendSrpCommand(s), s)
  <2> DEFINE f == SrpCommandCreate(Head(s.queue), "SRP_COMMAND")
  <2> DEFINE u == [s EXCEPT !.save = <<SrpT401Start(f)>>]
  <2>1. SendSrpCommand(s) = LowerLayerTx(u, <<f>>) BY DEF SendSrpCommand
  <2>2. SameReceiver(u, s) /\ DOMAIN u = Fields BY SenderSets DEF SameReceiver
  <2> HIDE DEF f, u
  <2>3. SameReceiver(LowerLayerTx(u, <<f>>), u) BY <1>1, <2>2
  <2>4. QED BY <2>1, <2>2, <2>3, SameTwice
<1>3. ASSUME NEW k PROVE SameReceiver(SendWnsrpCommands(s, k), s)
  <2> DEFINE new == SubSeq(s.queue, Len(s.active) + 1, k)
  <2> DEFINE f == [i \in DOMAIN new |-> SrpCommandCreate(new[i], "WNSRP_COMMAND")]
  <2> DEFINE u == [s EXCEPT !.active = @ \o [i \in DOMAIN f |-> SrpT401Start(f[i])]]
  <2>1. SendWnsrpCommands(s, k) = LowerLayerTx(u, f) BY DEF SendWnsrpCommands
  <2> HIDE DEF f
  <2>2. SameReceiver(u, s) /\ DOMAIN u = Fields BY SenderSets DEF SameReceiver
  <2> HIDE DEF u
  <2>3. SameReceiver(LowerLayerTx(u, f), u) BY <1>1, <2>2
  <2>4. QED BY <2>1, <2>2, <2>3, SameTwice
<1>4. SameReceiver(FillWindow(s), s) BY <1>3 DEF FillWindow
<1>5. SameReceiver(SrpCommandClear(s, n), s) BY SenderSets DEF SrpCommandClear
<1>6. SameReceiver(RemoveActiveWnsrpTimer(s, n), s) BY SenderSets DEF RemoveActiveWnsrpTimer
<1>7. QED BY <1>1, <1>2, <1>3, <1>4, <1>5, <1>6

\* A message from above.
LEMMA MessageLeavesReceiver ==
    ASSUME NEW s, DOMAIN s = Fields
    PROVE  SameReceiver(Srp_0_1(s), s) /\ SameReceiver(Srp_1_1(s), s)
<1> DEFINE s1 == IF s.wnsrp = "WNSRP_FULL" THEN s ELSE SendSrpCommand(s)
<1> DEFINE s2 == IF s.wnsrp = "NO_WNSRP" THEN s1 ELSE FillWindow(s1)
<1>1. Srp_0_1(s) = [s2 EXCEPT !.status = "WAIT_RESPONSE"] BY DEF Srp_0_1
<1>2. SameReceiver(s1, s) /\ DOMAIN s1 = Fields
  BY SenderSets, PartsLeaveReceiver DEF SameReceiver
<1> HIDE DEF s1
<1>3. SameReceiver(s2, s1) /\ DOMAIN s2 = Fields
  BY <1>2, SenderSets, PartsLeaveReceiver DEF SameReceiver
<1> HIDE DEF s2
<1>4. SameReceiver(Srp_0_1(s), s2)
  <2>1. SameReceiver([s2 EXCEPT !.status = "WAIT_RESPONSE"], s2) BY <1>3, SenderSets
  <2>2. QED BY <1>1, <2>1
<1>5. SameReceiver(Srp_1_1(s), s) BY SenderSets, PartsLeaveReceiver DEF Srp_1_1
<1>6. QED BY <1>2, <1>3, <1>4, <1>5, SameTwice

\* The next chunk.
LEMMA NextLeavesReceiver ==
    ASSUME NEW s, DOMAIN s = Fields
    PROVE  SameReceiver(SendNext(s), s)
<1> DEFINE s1 == IF s.wnsrp = "WNSRP_FULL" \/ s.queue = <<>> THEN s ELSE SendSrpCommand(s)
<1> DEFINE s2 == IF s.wnsrp = "NO_WNSRP" \/ Len(s.active) >= Len(s.queue)
                 THEN s1 ELSE SendWnsrpCommands(s1, Len(s.active) + 1)
<1> DEFINE r == IF s2.save = <<>> /\ s2.active = <<>> THEN [s2 EXCEPT !.status = "IDLE"] ELSE s2
<1>1. SendNext(s) = r BY DEF SendNext
<1>2. SameReceiver(s1, s) /\ DOMAIN s1 = Fields
  BY SenderSets, PartsLeaveReceiver DEF SameReceiver
<1> HIDE DEF s1
<1>3. SameReceiver(s2, s1) /\ DOMAIN s2 = Fields
  <2>1. SameReceiver(s1, s1) BY <1>2, SenderSets
  <2>2. SameReceiver(SendWnsrpCommands(s1, Len(s.active) + 1), s1)
    BY <1>2, PartsLeaveReceiver
  <2>3. SameReceiver(s2, s1) BY <2>1, <2>2
  <2> HIDE DEF s2
  <2>4. QED BY <2>3 DEF SameReceiver
<1> HIDE DEF s2
<1>4. SameReceiver(r, s2) BY <1>3, SenderSets
<1> HIDE DEF r
<1>5. QED BY <1>1, <1>2, <1>3, <1>4, SameTwice

\* A response of whatever mode.
LEMMA ResponseLeavesReceiver ==
    ASSUME NEW s, DOMAIN s = Fields, NEW n
    PROVE  /\ SameReceiver(OnSrpResponse(s), s) /\ SameReceiver(OnNsrpResponse(s, n), s)
           /\ SameReceiver(OnWnsrpResponse(s, n), s)
<1>1. \A u, v : SameReceiver(u, v) => DOMAIN u = Fields BY DEF SameReceiver
<1>2. SameReceiver(OnSrpResponse(s), s)
  <2> DEFINE s1 == IF s.active = <<>> THEN s ELSE RemoveActiveWnsrpTimer(s, 1)
  <2> DEFINE s2 == SrpCommandClear(s1, TimerSeq(s.save[1]))
  <2> DEFINE r == [s2 EXCEPT !.save = <<>>]
  <2>1. OnSrpResponse(s) = IF s.save = <<>> THEN s ELSE SendNext(r) BY DEF OnSrpResponse
  <2>2. SameReceiver(s1, s) BY SenderSets, PartsLeaveReceiver
  <2> HIDE DEF s1
  <2>3. SameReceiver(s2, s1) BY <1>1, <2>2, PartsLeaveReceiver
  <2> HIDE DEF s2
  <2>4. SameReceiver(r, s2) BY <1>1, <2>3, SenderSets
  <2> HIDE DEF r
  <2>5. SameReceiver(SendNext(r), r) BY <1>1, <2>4, NextLeavesReceiver
  <2>6. SameReceiver(SendNext(r), s) BY <2>2, <2>3, <2>4, <2>5, SameTwice
  <2>7. QED BY <2>1, <2>6, SenderSets
<1>3. SameReceiver(OnNsrpResponse(s, n), s)
  <2> DEFINE s1 == SrpCommandClear(s, n)
  <2> DEFINE s2 == IF ActiveWith(s1, n) = {} THEN s1
                   ELSE RemoveActiveWnsrpTimer(s1, Min(ActiveWith(s1, n)))
  <2> DEFINE r == [s2 EXCEPT !.save = <<>>]
  <2>1. OnNsrpResponse(s, n) = IF s2.save # <<>> /\ TimerSeq(s2.save[1]) = n
                               THEN SendNext(r) ELSE s2
    BY DEF OnNsrpResponse
  <2>2. SameReceiver(s1, s) BY PartsLeaveReceiver
  <2> HIDE DEF s1
  <2>3. SameReceiver(s2, s1) BY <1>1, <2>2, SenderSets, PartsLeaveReceiver
  <2> HIDE DEF s2
  <2>4. SameReceiver(r, s2) BY <1>1, <2>3, SenderSets
  <2> HIDE DEF r
  <2>5. SameReceiver(SendNext(r), r) BY <1>1, <2>4, NextLeavesReceiver
  <2>6. SameReceiver(SendNext(r), s) /\ SameReceiver(s2, s)
    BY <2>2, <2>3, <2>4, <2>5, SameTwice
  <2>7. QED BY <2>1, <2>6
<1>4. SameReceiver(OnWnsrpResponse(s, n), s)
  <2> DEFINE s1 == SrpCommandClear(s, n)
  <2> DEFINE i == Min(ActiveWith(s1, n))
  <2> DEFINE s2 == [s1 EXCEPT !.active =
                      [k \in DOMAIN @ |-> IF k < i THEN [@[k] EXCEPT !.n400 = 1] ELSE @[k]]]
  <2> DEFINE s3 == LowerLayerTx(s2, [k \in 1..i - 1 |-> s.active[k].pkt])
  <2> DEFINE r == RemoveActiveWnsrpTimer(s3, i)
  <2>1. OnWnsrpResponse(s, n) = IF ActiveWith(s1, n) = {} THEN s1 ELSE SendNext(r)
    BY DEF OnWnsrpResponse
  <2>2. SameReceiver(s1, s) BY PartsLeaveReceiver
  <2> HIDE DEF s1
  <2>3. SameReceiver(s2, s1) BY <1>1, <2>2, SenderSets
  <2> HIDE DEF s2
  <2>4. SameReceiver(s3, s2) BY <1>1, <2>3, PartsLeaveReceiver
  <2> HIDE DEF s3
  <2>5. SameReceiver(r, s3) BY <1>1, <2>4, PartsLeaveReceiver
  <2> HIDE DEF r
  <2>6. SameReceiver(SendNext(r), r) BY <1>1, <2>5, NextLeavesReceiver
  <2>7. SameReceiver(SendNext(r), s) BY <2>2, <2>3, <2>4, <2>5, <2>6, SameTwice
  <2>8. QED BY <2>1, <2>2, <2>7
<1>5. QED BY <1>2, <1>3, <1>4

\* A timeout, with and without retries left.
LEMMA TimeoutLeavesReceiver ==
    ASSUME NEW s, DOMAIN s = Fields, NEW i
    PROVE  SameReceiver(Resend(s, i), s) /\ SameReceiver(GiveUp(s, i), s)
<1>1. \A u, v : SameReceiver(u, v) => DOMAIN u = Fields BY DEF SameReceiver
<1>2. SameReceiver(Resend(s, i), s)
  <2> DEFINE u == [s EXCEPT !.save[1].n400 = @ + 1]
  <2> DEFINE v == [s EXCEPT !.active[i].n400 = @ + 1]
  <2>1. Resend(s, i) = IF i = 0 THEN LowerLayerTx(u, <<s.save[1].pkt>>)
                       ELSE LowerLayerTx(v, <<s.active[i].pkt>>)
    BY DEF Resend
  <2>2. SameReceiver(u, s) /\ SameReceiver(v, s) BY DEF SameReceiver, Fields
  <2> HIDE DEF u, v
  <2>3. /\ SameReceiver(LowerLayerTx(u, <<s.save[1].pkt>>), u)
        /\ SameReceiver(LowerLayerTx(v, <<s.active[i].pkt>>), v)
    BY <1>1, <2>2, PartsLeaveReceiver
  <2>4. QED BY <2>1, <2>2, <2>3, SameTwice
<1>3. SameReceiver(GiveUp(s, i), s)
  <2> DEFINE u == SrpCommandClear(s, TimerSeq(s.save[1]))
  <2> DEFINE v == SrpCommandClear(s, TimerSeq(s.active[i]))
  <2>1. GiveUp(s, i) = IF i = 0 THEN [u EXCEPT !.save = <<>>] ELSE RemoveActiveWnsrpTimer(v, i)
    BY DEF GiveUp
  <2>2. SameReceiver(u, s) /\ SameReceiver(v, s) BY PartsLeaveReceiver
  <2> HIDE DEF u, v
  <2>3. SameReceiver([u EXCEPT !.save = <<>>], u) BY <1>1, <2>2, SenderSets
  <2>4. SameReceiver(RemoveActiveWnsrpTimer(v, i), v) BY <1>1, <2>2, PartsLeaveReceiver
  <2>5. QED BY <2>1, <2>2, <2>3, <2>4, SameTwice
<1>4. QED BY <1>2, <1>3

\* What a frame does before it becomes an event.
LEMMA NoteLeavesReceiver ==
    ASSUME NEW s, DOMAIN s = Fields, NEW frame \in FrameSet
    PROVE  SameReceiver(SrpNoteFrame(s, frame), s)
<1>1. \A u, v : SameReceiver(u, v) => DOMAIN u = Fields BY DEF SameReceiver
<1>2. \A u : \A new \in {"NO_WNSRP", "WNSRP_FULL"} :
         DOMAIN u = Fields => SameReceiver(WnsrpStatusSet(u, new), u)
  BY SenderSets DEF WnsrpStatusSet
<1>3. SameReceiver(CountN402(s), s)
  <2> DEFINE s1 == [s EXCEPT !.n402 = @ + 1]
  <2>1. CountN402(s) \in {s, s1, WnsrpStatusSet(s1, "NO_WNSRP")} BY DEF CountN402
  <2>2. SameReceiver(s1, s) BY SenderSets
  <2> HIDE DEF s1
  <2>3. SameReceiver(WnsrpStatusSet(s1, "NO_WNSRP"), s) BY <1>1, <1>2, <2>2, SameTwice
  <2>4. QED BY <2>1, <2>2, <2>3, SenderSets
<1>4. frame.header \in CommandHeader \cup ResponseHeader BY DEF FrameSet
<1>5. CASE frame.header = "SRP_COMMAND"
  BY <1>2, <1>5, SenderSets DEF SrpNoteFrame
<1>6. CASE frame.header = "SRP_RESPONSE"
  BY <1>3, <1>6 DEF SrpNoteFrame
<1>7. CASE frame.header = "NSRP_RESPONSE"
  <2> DEFINE s1 == CountN402(s)
  <2>1. SrpNoteFrame(s, frame) = [s1 EXCEPT !.firstNSRPResp = @ \/ s1.useNSRP]
    BY <1>7 DEF SrpNoteFrame
  <2>2. SameReceiver(s1, s) BY <1>3
  <2> HIDE DEF s1
  <2>3. SameReceiver(SrpNoteFrame(s, frame), s1) BY <1>1, <2>1, <2>2, SenderSets
  <2>4. QED BY <2>2, <2>3, SameTwice
<1>8. CASE frame.header \in {"WNSRP_COMMAND", "WNSRP_RESPONSE"}
  BY <1>2, <1>8, SenderSets DEF SrpNoteFrame
<1>9. QED BY <1>4, <1>5, <1>6, <1>7, <1>8 DEF CommandHeader, ResponseHeader

\* A frame, whatever it is; B is above the numbers of commands.
LEMMA FrameDrains ==
    ASSUME NEW s, DOMAIN s = Fields, NEW B \in Nat, B + Window < SeqSpace, RecvInv(s, B),
           NEW frame \in FrameSet, frame.header \in CommandHeader => frame.chunk.seq < B
    PROVE  LET t == SrpFrame(SrpNoteFrame(s, frame), frame) IN
           RecvInv(t, B) /\ DOMAIN t = Fields
<1> DEFINE s1 == SrpNoteFrame(s, frame)
<1> DEFINE event == SrpGetEvent(s1, frame)
<1> DEFINE t == SrpFrame(s1, frame)
<1>1. \A u, v : SameReceiver(u, v) => DOMAIN u = Fields BY DEF SameReceiver
<1>2. SameReceiver(s1, s) BY NoteLeavesReceiver
<1>3. RecvInv(s1, B) /\ DOMAIN s1 = Fields BY <1>1, <1>2, SameKeeps
<1>4. frame.header \in CommandHeader \cup ResponseHeader BY DEF FrameSet
<1> HIDE DEF s1
<1>5. /\ event \in {"COMMAND", "WNSRP_COMMAND", "RESPONSE", "NSRP_RESPONSE", "WNSRP_RESPONSE", "NOP"}
      /\ event \in {"COMMAND", "WNSRP_COMMAND"} => frame.header \in CommandHeader
  BY <1>4 DEF SrpGetEvent, CommandHeader, ResponseHeader
<1>6. CASE event \in {"COMMAND", "WNSRP_COMMAND"}
  <2>1. t = Srp_0_2(s1, frame, event) BY <1>6 DEF SrpFrame
  <2>2. frame.chunk.seq < B BY <1>5, <1>6
  <2> HIDE DEF t, event
  <2>3. QED BY <1>3, <1>6, <2>1, <2>2, ReceiverDrains DEF t, s1
<1>7. CASE event \notin {"COMMAND", "WNSRP_COMMAND"}
  <2>1. t \in {s1, OnSrpResponse(s1), OnNsrpResponse(s1, frame.chunk.seq),
               OnWnsrpResponse(s1, frame.chunk.seq)}
    <3>1. CASE event \in {"RESPONSE", "NSRP_RESPONSE", "WNSRP_RESPONSE"}
      <4>1. t = IF s1.status = "IDLE" THEN s1 ELSE Srp_1_3(s1, frame, event)
        BY <3>1 DEF SrpFrame
      <4> HIDE DEF t, event
      <4>2. Srp_1_3(s1, frame, event) \in {OnSrpResponse(s1), OnNsrpResponse(s1, frame.chunk.seq),
                                           OnWnsrpResponse(s1, frame.chunk.seq)}
        BY <3>1 DEF Srp_1_3
      <4>3. QED BY <4>1, <4>2
    <3>2. CASE event = "NOP" BY <3>2 DEF SrpFrame
    <3>3. QED BY <1>5, <1>7, <3>1, <3>2
  <2>2. SameReceiver(t, s1)
    <3> HIDE DEF t
    <3>1. QED BY <1>3, <2>1, SenderSets, ResponseLeavesReceiver
  <2> HIDE DEF t
  <2>3. QED BY <1>1, <1>3, <2>2, SameKeeps DEF t, s1
<1>8. QED BY <1>6, <1>7

-----------------------------------------------------------------------------
(* The two receivers and the link.                                         *)

\* The numbers that the peer of p gives out are below this.
Limit(p, K) == K * MsgsOf[Other(p)]

\* The receivers, and the commands under way to them.
RxInv(K) ==
    \A p \in Peer :
        /\ DOMAIN ep[p] = Fields /\ RecvInv(ep[p], Limit(p, K))
        /\ \A h \in CommandHeader : \A n \in Numbers(link[p], h) : n < Limit(p, K)

\* Nor does the window reach the end of the number space.
NoWindowWrap(K) ==
    NoWrap(K) /\ \A p \in Peer : K * MsgsOf[p] + Window < SeqSpace

\* The limits as numbers.
LEMMA LimitFacts ==
    ASSUME NEW K, NoWindowWrap(K), NEW p \in Peer
    PROVE  /\ K \in Nat /\ MsgsOf[p] \in Nat /\ Limit(p, K) \in Nat
           /\ Limit(p, K) + Window < SeqSpace /\ Limit(Other(p), K) = K * MsgsOf[p]
<1>1. Other(p) \in Peer /\ Other(Other(p)) = p BY OtherPeer
<1>2. /\ K \in Nat /\ MsgsOf[p] \in Nat /\ MsgsOf[Other(p)] \in Nat
      /\ K * MsgsOf[Other(p)] + Window < SeqSpace
  BY <1>1, SrpAssumption DEF NoWindowWrap, NoWrap
<1>3. K * MsgsOf[Other(p)] \in Nat BY <1>2
<1>4. QED BY <1>1, <1>2, <1>3 DEF Limit

\* What a terminal sends down has numbers that were given out.
LEMMA SendsBelow ==
    ASSUME NEW t, NEW N, NEW R, TerminalInv(t, N), Sends(t, R), NEW M \in Nat,
           t.sendSeq <= M, NEW h \in CommandHeader, NEW n \in Numbers(t.tx, h)
    PROVE  n < M
<1>1. Terminal(t) /\ Ordered(t) BY DEF TerminalInv
<1>2. t.sendSeq \in Nat /\ t.tx \in Seq(FrameSet) BY <1>1 DEF Terminal
<1>3. PICK i \in 1..Len(t.tx) : t.tx[i].header = h /\ n = t.tx[i].chunk.seq
  BY <1>2, LenProperties DEF Numbers
<1>4. t.tx[i] \in FrameSet /\ n \in Nat
  <2>1. t.tx[i] \in FrameSet BY <1>2, LenProperties
  <2>2. \A f \in FrameSet : f.chunk.seq \in Nat BY SrpAssumption DEF FrameSet, ChunkSet
  <2>3. QED BY <1>3, <2>1, <2>2
<1>5. n < t.sendSeq
  <2>1. CASE h = "SRP_COMMAND"
    <3>1. t.queue # <<>> /\ n = t.queue[1].seq BY <1>3, <2>1 DEF Sends
    <3>2. 1 \in DOMAIN t.queue BY <1>1, <3>1, QueueTypes
    <3>3. QED BY <1>1, <3>1, <3>2 DEF Ordered
  <2>2. CASE h = "WNSRP_COMMAND" BY <1>3, <2>2 DEF Sends
  <2>3. QED BY <2>1, <2>2 DEF CommandHeader
<1>6. QED BY <1>2, <1>4, <1>5

\* A step of p that hands frames to the link.
LEMMA RxCommit ==
    ASSUME NEW K, NoWindowWrap(K), SrpInv(K), RxInv(K), NEW p \in Peer, NEW t,
           NEW rest \in Seq(FrameSet), Commit(p, t, rest),
           \A h : Numbers(rest, h) \subseteq Numbers(link[p], h),
           DOMAIN t = Fields, RecvInv(t, Limit(p, K)), t.tx \in Seq(FrameSet),
           \A h \in CommandHeader : \A n \in Numbers(t.tx, h) : n < K * MsgsOf[p]
    PROVE  RxInv(K)'
<1> DEFINE q == Other(p)
<1> DEFINE out == link[q] \o t.tx
<1> DEFINE cut == SubSeq(out, 1, Min({LinkCap, Len(out)}))
<1> DEFINE u == [t EXCEPT !.buffer = Reassemble(t).buffer, !.tx = <<>>, !.up = <<>>]
<1>1. q \in Peer /\ q # p /\ \A r \in Peer : r = p \/ r = q
  <2>1. PICK x \in Peer, y \in Peer : x # y /\ Peer = {x, y} BY SrpAssumption
  <2>2. QED BY <2>1, OtherPeer
<1>2. ep' = [ep EXCEPT ![p] = u] /\ link' = [link EXCEPT ![p] = rest, ![q] = cut]
  BY DEF Commit
<1>3. link \in [Peer -> Seq(FrameSet)] /\ DOMAIN ep = Peer BY DEF SrpInv
<1>4. \A h : Numbers(cut, h) \subseteq Numbers(link[q], h) \cup Numbers(t.tx, h)
  BY <1>1, <1>3, SentNumbers
<1>5. /\ DOMAIN u = Fields /\ u.recvSeq = t.recvSeq /\ u.pending = t.pending
      /\ u.firstCmd = t.firstCmd
  BY DEF Fields
<1> HIDE DEF u, cut, out, q
<1>6. RecvInv(u, Limit(p, K)) /\ DOMAIN u = Fields BY <1>5 DEF RecvInv
<1>7. /\ ep'[p] = u /\ ep'[q] = ep[q] /\ link'[p] = rest /\ link'[q] = cut
  BY <1>1, <1>2, <1>3
<1>8. Limit(q, K) = K * MsgsOf[p] BY LimitFacts DEF q
<1>9. /\ \A h \in CommandHeader : \A n \in Numbers(rest, h) : n < Limit(p, K)
      /\ \A h \in CommandHeader : \A n \in Numbers(cut, h) : n < Limit(q, K)
  BY <1>1, <1>4, <1>8 DEF RxInv
<1>10. \A r \in Peer : Limit(r, K)' = Limit(r, K) BY DEF Limit, Other
<1>11. ASSUME NEW r \in Peer
       PROVE  /\ DOMAIN ep'[r] = Fields /\ RecvInv(ep'[r], Limit(r, K))
              /\ \A h \in CommandHeader : \A n \in Numbers(link'[r], h) : n < Limit(r, K)
  <2>1. CASE r = p BY <1>6, <1>7, <1>9, <2>1
  <2>2. CASE r = q
    <3>1. DOMAIN ep[q] = Fields /\ RecvInv(ep[q], Limit(q, K)) BY <1>1 DEF RxInv
    <3>2. QED BY <1>7, <1>9, <2>2, <3>1
  <2>3. QED BY <1>1, <2>1, <2>2
<1>12. QED BY <1>10, <1>11 DEF RxInv

\* A step of p that changes neither its receiver nor what is sent.
LEMMA RxOwn ==
    ASSUME NEW K, SrpInv(K), RxInv(K), NEW p \in Peer, NEW u, ep' = [ep EXCEPT ![p] = u],
           UNCHANGED link, DOMAIN u = Fields, RecvInv(u, Limit(p, K))
    PROVE  RxInv(K)'
<1>1. DOMAIN ep = Peer BY DEF SrpInv
<1>2. \A r \in Peer : Limit(r, K)' = Limit(r, K) BY DEF Limit, Other
<1>3. \A r \in Peer : ep'[r] = IF r = p THEN u ELSE ep[r] BY <1>1
<1>4. QED BY <1>2, <1>3 DEF RxInv

\* Nothing has been received at the start.
LEMMA RxInit ==
    ASSUME NEW K, NoWindowWrap(K), Init
    PROVE  RxInv(K)
<1> SUFFICES ASSUME NEW p \in Peer
             PROVE  /\ DOMAIN ep[p] = Fields /\ RecvInv(ep[p], Limit(p, K))
                    /\ \A h \in CommandHeader : \A n \in Numbers(link[p], h) : n < Limit(p, K)
  BY DEF RxInv
<1>1. ep[p] = SrpStart(p, call) /\ link[p] = <<>> BY DEF Init
<1>2. DOMAIN ep[p] = Fields /\ ep[p].recvSeq = 0 /\ ep[p].pending = <<>>
  BY <1>1 DEF SrpStart, Fields
<1>3. \A h : Numbers(link[p], h) = {} BY <1>1 DEF Numbers
<1>4. Limit(p, K) \in Nat BY LimitFacts
<1>5. Len(ep[p].pending) = 0 /\ <<>> \in Seq(ChunkSet) BY <1>2
<1>6. RecvInv(ep[p], Limit(p, K)) BY <1>2, <1>4, <1>5 DEF RecvInv, Rising
<1>7. QED BY <1>2, <1>3, <1>6

\* The bound on a terminal's own numbers.
LEMMA OwnLimit ==
    ASSUME NEW K, NoWindowWrap(K), NEW p \in Peer, NEW m \in Nat, NEW n \in Nat,
           m <= K * n, n <= MsgsOf[p]
    PROVE  m <= K * MsgsOf[p] /\ K * MsgsOf[p] \in Nat
<1>1. K \in Nat /\ MsgsOf[p] \in Nat BY LimitFacts
<1>2. K * n <= K * MsgsOf[p] BY <1>1, ProductGrows
<1>3. K * n \in Nat /\ K * MsgsOf[p] \in Nat BY <1>1
<1>4. QED BY <1>2, <1>3

\* What p's methods send, by the invariant of p.
LEMMA PeerSends ==
    ASSUME NEW K, NoWindowWrap(K), NEW p \in Peer, NEW t, NEW N, NEW R, TerminalInv(t, N),
           Sends(t, R), NEW n \in Nat, t.sendSeq <= K * n, n <= MsgsOf[p]
    PROVE  /\ t.tx \in Seq(FrameSet) /\ DOMAIN t = Fields
           /\ \A h \in CommandHeader : \A x \in Numbers(t.tx, h) : x < K * MsgsOf[p]
<1>1. t.sendSeq \in Nat /\ t.tx \in Seq(FrameSet) /\ DOMAIN t = Fields
  BY DEF TerminalInv, Terminal
<1>2. t.sendSeq <= K * MsgsOf[p] /\ K * MsgsOf[p] \in Nat BY <1>1, OwnLimit
<1>3. QED BY <1>1, <1>2, SendsBelow

\* Every step keeps the receivers.
LEMMA RxNext ==
    ASSUME NEW K, NoWindowWrap(K), Window >= 2, SrpInv(K), RxInv(K), [Next]_vars
    PROVE  RxInv(K)'
<1>1. CASE UNCHANGED vars
  <2>1. UNCHANGED <<ep, link>> BY <1>1 DEF vars
  <2>2. QED BY <2>1 DEF RxInv, Limit, Other
<1>2. ASSUME NEW p \in Peer PROVE \A h : Numbers(link[p], h) \subseteq Numbers(link[p], h)
  OBVIOUS
<1>3. ASSUME NEW p \in Peer
      PROVE  /\ DOMAIN ep[p] = Fields /\ RecvInv(ep[p], Limit(p, K)) /\ link[p] \in Seq(FrameSet)
             /\ Len(sent[p]) \in Nat
             /\ ~failed[p] => PeerInv(p, K)
  <2>1. sent[p] \in Seq(Seq(Nat) \ {<<>>}) BY DEF SrpInv
  <2>2. QED BY <2>1, LenProperties DEF RxInv, SrpInv
<1>4. ASSUME NEW p \in Peer, NEW k \in Chunks, UpperLayerRx(p, k) PROVE RxInv(K)'
  <2> DEFINE t == AfterMessage(p, k)
  <2>1. NoWrap(K) BY DEF NoWindowWrap
  <2>2. /\ Commit(p, t, link[p]) /\ TerminalInv(t, Numbered(p)) /\ Sends(t, {})
        /\ sent' \in [Peer -> Seq(Seq(Nat) \ {<<>>})]
        /\ t.sendSeq <= K * Len(sent'[p]) /\ Len(sent'[p]) <= MsgsOf[p]
    BY <1>4, <2>1, MessageFacts
  <2>3. SameReceiver(t, ep[p])
    <3> DEFINE s == ep[p]
    <3> DEFINE new == NewChunks(s.sendSeq, k, ChunksSent(p))
    <3> DEFINE s1 == [s EXCEPT !.queue = @ \o new, !.sendSeq = (@ + k) % SeqSpace]
    <3>1. t = IF s.status = "IDLE" THEN Srp_0_1(s1) ELSE Srp_1_1(s1) BY DEF AfterMessage
    <3>2. DOMAIN s = Fields BY <1>3
    <3> HIDE DEF s, new
    <3>3. SameReceiver(s1, s) BY <3>2, SenderSets
    <3> HIDE DEF s1, t
    <3>4. SameReceiver(Srp_0_1(s1), s1) /\ SameReceiver(Srp_1_1(s1), s1)
      <4>1. DOMAIN s1 = Fields BY <3>3 DEF SameReceiver
      <4>2. QED BY <4>1, MessageLeavesReceiver
    <3>5. QED BY <3>1, <3>3, <3>4, SameTwice DEF s
  <2> HIDE DEF t
  <2>4. RecvInv(t, Limit(p, K)) BY <1>3, <2>3, SameKeeps
  <2>5. Len(sent'[p]) \in Nat
    <3>1. sent'[p] \in Seq(Seq(Nat) \ {<<>>}) BY <2>2
    <3>2. QED BY <3>1, LenProperties
  <2>6. /\ t.tx \in Seq(FrameSet) /\ DOMAIN t = Fields
        /\ \A h \in CommandHeader : \A x \in Numbers(t.tx, h) : x < K * MsgsOf[p]
    BY <2>2, <2>5, PeerSends
  <2>7. QED BY <1>2, <1>3, <2>2, <2>4, <2>6, RxCommit
<1>5. ASSUME NEW p \in Peer, LowerLayerRx(p) PROVE RxInv(K)'
  <2> DEFINE f == Head(link[p])
  <2> DEFINE t == SrpFrame(SrpNoteFrame(ep[p], f), f)
  <2> DEFINE R == IF f.header = "SRP_COMMAND" THEN {f.chunk.seq} ELSE {}
  <2>1. ~failed[p] /\ link[p] # <<>> /\ Commit(p, t, Tail(link[p])) BY <1>5 DEF LowerLayerRx
  <2>2. PeerInv(p, K) BY <1>3, <2>1
  <2>3. f \in FrameSet /\ f.chunk.seq \in Numbers(link[p], f.header) BY <1>3, <2>1, HeadNumber
  <2>4. /\ Tail(link[p]) \in Seq(FrameSet)
        /\ \A h : Numbers(Tail(link[p]), h) \subseteq Numbers(link[p], h)
    BY <1>3, <2>1, TailNumbers
  <2> HIDE DEF f
  <2>5. f.header = "NSRP_RESPONSE" => f.chunk.seq \in Numbered(p) BY <2>3 DEF Numbered
  <2>6. TerminalInv(t, Numbered(p)) /\ Sends(t, R) /\ t.sendSeq = ep[p].sendSeq
    BY <2>2, <2>3, <2>5, FrameKeeps DEF PeerInv
  <2>7. f.header \in CommandHeader => f.chunk.seq < Limit(p, K) BY <2>3 DEF RxInv
  <2>8. Limit(p, K) \in Nat /\ Limit(p, K) + Window < SeqSpace BY LimitFacts
  <2>9. RecvInv(t, Limit(p, K)) BY <1>3, <2>3, <2>7, <2>8, FrameDrains
  <2> HIDE DEF t, R
  <2>10. t.sendSeq <= K * Len(sent[p]) /\ Len(sent[p]) <= MsgsOf[p] BY <2>2, <2>6 DEF PeerInv
  <2>11. /\ t.tx \in Seq(FrameSet) /\ DOMAIN t = Fields
         /\ \A h \in CommandHeader : \A x \in Numbers(t.tx, h) : x < K * MsgsOf[p]
    BY <1>3, <2>6, <2>10, PeerSends
  <2>12. QED BY <2>1, <2>4, <2>9, <2>11, RxCommit
<1>6. ASSUME NEW p \in Peer, LoseFrame(p) PROVE RxInv(K)'
  <2>1. /\ link[p] # <<>> /\ link' = [link EXCEPT ![p] = Tail(@)] /\ ep' = ep
    BY <1>6 DEF LoseFrame
  <2>2. \A h : Numbers(Tail(link[p]), h) \subseteq Numbers(link[p], h)
    BY <1>3, <2>1, TailNumbers
  <2>3. DOMAIN link = Peer BY DEF SrpInv
  <2>4. \A r \in Peer : \A h : Numbers(link'[r], h) \subseteq Numbers(link[r], h)
    BY <2>1, <2>2, <2>3
  <2>5. \A r \in Peer : Limit(r, K)' = Limit(r, K) BY DEF Limit, Other
  <2>6. QED BY <2>1, <2>4, <2>5 DEF RxInv
<1>7. ASSUME NEW p \in Peer, Retransmit(p) PROVE RxInv(K)'
  <2>1. PICK i \in Timers(ep[p]) :
           SrpN400Check(TimerOf(ep[p], i)) /\ Commit(p, Resend(ep[p], i), link[p])
    BY <1>7 DEF Retransmit
  <2>2. ~failed[p] BY <1>7 DEF Retransmit
  <2>3. PeerInv(p, K) BY <1>3, <2>2
  <2> DEFINE t == Resend(ep[p], i)
  <2>4. TerminalInv(t, Numbered(p)) /\ Sends(t, {}) /\ t.sendSeq = ep[p].sendSeq
    BY <2>1, <2>3, ResendKeeps DEF PeerInv
  <2>5. SameReceiver(t, ep[p]) BY <1>3, TimeoutLeavesReceiver
  <2>6. Commit(p, t, link[p]) BY <2>1
  <2> HIDE DEF t
  <2>7. RecvInv(t, Limit(p, K)) BY <1>3, <2>5, SameKeeps
  <2>8. t.sendSeq <= K * Len(sent[p]) /\ Len(sent[p]) <= MsgsOf[p] BY <2>3, <2>4 DEF PeerInv
  <2>9. /\ t.tx \in Seq(FrameSet) /\ DOMAIN t = Fields
        /\ \A h \in CommandHeader : \A x \in Numbers(t.tx, h) : x < K * MsgsOf[p]
    BY <1>3, <2>4, <2>8, PeerSends
  <2>10. QED BY <1>2, <1>3, <2>6, <2>7, <2>9, RxCommit
<1>8. ASSUME NEW p \in Peer, TransmissionFailure(p) PROVE RxInv(K)'
  <2>1. PICK i \in Timers(ep[p]) : Commit(p, GiveUp(ep[p], i), link[p])
    BY <1>8 DEF TransmissionFailure
  <2>2. ~failed[p] BY <1>8 DEF TransmissionFailure
  <2> DEFINE s == ep[p]
  <2> DEFINE t == GiveUp(s, i)
  <2>3. s.tx = <<>> /\ DOMAIN s = Fields BY <1>3, <2>2 DEF PeerInv
  <2>4. t.tx = <<>>
    <3> HIDE DEF s
    <3>1. \A n : DOMAIN SrpCommandClear(s, n) = Fields /\ SrpCommandClear(s, n).tx = <<>>
      BY <2>3 DEF SrpCommandClear, Fields
    <3>2. QED BY <3>1 DEF GiveUp, RemoveActiveWnsrpTimer, Fields
  <2>5. SameReceiver(t, s) BY <2>3, TimeoutLeavesReceiver
  <2>6. Commit(p, t, link[p]) BY <2>1
  <2> HIDE DEF t
  <2>7. RecvInv(t, Limit(p, K)) /\ DOMAIN t = Fields BY <1>3, <2>5, SameKeeps DEF SameReceiver
  <2>8. t.tx \in Seq(FrameSet) /\ \A h : Numbers(t.tx, h) = {} BY <2>4 DEF Numbers
  <2>9. QED BY <1>2, <1>3, <2>6, <2>7, <2>8, RxCommit
<1>9. ASSUME NEW p \in Peer, SrpStop(p) PROVE RxInv(K)'
  <2> DEFINE s == ep[p]
  <2> DEFINE u == [s EXCEPT !.save = <<>>, !.active = <<>>, !.wnsrp = "WNSRP_TX",
                            !.queue = <<>>, !.pending = <<>>, !.useNSRP = FALSE]
  <2>1. ep' = [ep EXCEPT ![p] = u] /\ UNCHANGED link BY <1>9 DEF SrpStop
  <2>2. DOMAIN s = Fields /\ RecvInv(s, Limit(p, K)) BY <1>3
  <2> HIDE DEF s
  <2>3. DOMAIN u = Fields /\ u.recvSeq = s.recvSeq /\ u.pending = <<>> BY <2>2 DEF Fields
  <2> HIDE DEF u
  <2>4. Len(u.pending) = 0 /\ <<>> \in Seq(ChunkSet) BY <2>3
  <2>5. RecvInv(u, Limit(p, K)) BY <2>2, <2>3, <2>4 DEF RecvInv, Rising
  <2>6. QED BY <2>1, <2>3, <2>5, RxOwn
<1>10. ASSUME NEW p \in Peer, UseNSRP(p) PROVE RxInv(K)'
  <2> DEFINE s == ep[p]
  <2> DEFINE u == [[s EXCEPT !.useNSRP = TRUE] EXCEPT !.firstNSRPResp = FALSE]
  <2>1. ep' = [ep EXCEPT ![p] = u] /\ UNCHANGED link BY <1>10, <1>3 DEF UseNSRP, SrpInv
  <2>2. DOMAIN s = Fields /\ RecvInv(s, Limit(p, K)) BY <1>3
  <2> HIDE DEF s
  <2>3. SameReceiver(u, s) BY <2>2 DEF SameReceiver, Fields
  <2> HIDE DEF u
  <2>4. DOMAIN u = Fields /\ RecvInv(u, Limit(p, K)) BY <2>2, <2>3, SameKeeps DEF SameReceiver
  <2>5. QED BY <2>1, <2>4, RxOwn
<1>11. ASSUME NEW p \in Peer, DisableWNSRPSupport(p) PROVE RxInv(K)'
  <2> DEFINE s == IF ep[p].wnsrp = "WNSRP_TX" THEN WnsrpStatusSet(ep[p], "NO_WNSRP") ELSE ep[p]
  <2> DEFINE u == [s EXCEPT !.handleWNSRP = FALSE]
  <2>1. ep' = [ep EXCEPT ![p] = u] /\ UNCHANGED link BY <1>11 DEF DisableWNSRPSupport
  <2>2. SameReceiver(s, ep[p]) BY <1>3, SenderSets DEF WnsrpStatusSet
  <2> HIDE DEF s
  <2>3. SameReceiver(u, s)
    <3>1. DOMAIN s = Fields BY <2>2 DEF SameReceiver
    <3>2. QED BY <3>1, SenderSets
  <2> HIDE DEF u
  <2>4. SameReceiver(u, ep[p]) BY <2>2, <2>3, SameTwice
  <2>5. DOMAIN u = Fields /\ RecvInv(u, Limit(p, K)) BY <1>3, <2>4, SameKeeps DEF SameReceiver
  <2>6. QED BY <2>1, <2>5, RxOwn
<1>12. QED BY <1>1, <1>4, <1>5, <1>6, <1>7, <1>8, <1>9, <1>10, <1>11 DEF Next

-----------------------------------------------------------------------------
(***************************************************************************)
(* What a terminal sends: commands carry chunks of the wait queue.  The    *)
(* methods are looked at as if C were the type of a chunk of the queue,    *)
(* and R that of a chunk of a response.                                    *)
(***************************************************************************)

FramesOf(C, R) ==
    [header : CommandHeader, chunk : C] \cup [header : ResponseHeader, chunk : R]

TimersOf(C) == [pkt : [header : CommandHeader, chunk : C], n400 : Nat]

Carries(s, C, R) ==
    /\ DOMAIN s = Fields
    /\ s.queue \in Seq(C)
    /\ s.save \in Seq(TimersOf(C)) /\ s.active \in Seq(TimersOf(C))
    /\ s.tx \in Seq(FramesOf(C, R))

\* The sender's fields in another terminal.
LEMMA CarriesSame ==
    ASSUME NEW s, NEW r, NEW C, NEW R, Carries(s, C, R), DOMAIN r = Fields,
           r.queue = s.queue, r.save = s.save, r.active = s.active, r.tx = s.tx
    PROVE  Carries(r, C, R)
BY DEF Carries

\* One field at a time.
LEMMA CarriesSets ==
    ASSUME NEW s, NEW C, NEW R, Carries(s, C, R), NEW v
    PROVE  /\ Carries([s EXCEPT !.status = v], C, R) /\ Carries([s EXCEPT !.wnsrp = v], C, R)
           /\ Carries([s EXCEPT !.n402 = v], C, R)
           /\ Carries([s EXCEPT !.firstNSRPResp = v], C, R)
           /\ Carries([s EXCEPT !.handleWNSRP = v], C, R)
           /\ Carries([s EXCEPT !.useNSRP = v], C, R)
           /\ v \in Seq(C) => Carries([s EXCEPT !.queue = v], C, R)
           /\ v \in Seq(TimersOf(C)) => Carries([s EXCEPT !.save = v], C, R)
           /\ v \in Seq(TimersOf(C)) => Carries([s EXCEPT !.active = v], C, R)
           /\ v \in Seq(FramesOf(C, R)) => Carries([s EXCEPT !.tx = v], C, R)
BY DEF Carries, Fields

\* Frames that are handed down.
LEMMA CarriesTx ==
    ASSUME NEW s, NEW C, NEW R, Carries(s, C, R), NEW f \in Seq(FramesOf(C, R))
    PROVE  Carries(LowerLayerTx(s, f), C, R)
<1>1. s.tx \in Seq(FramesOf(C, R)) BY DEF Carries
<1>2. s.tx \o f \in Seq(FramesOf(C, R)) BY <1>1, ConcatProperties
<1>3. Carries([s EXCEPT !.tx = s.tx \o f], C, R) BY <1>2, CarriesSets
<1>4. QED BY <1>3 DEF LowerLayerTx

\* A single frame.
LEMMA OneFrame ==
    ASSUME NEW S, NEW x \in S
    PROVE  <<x>> \in Seq(S)
OBVIOUS

\* A command and its timer.
LEMMA CommandOf ==
    ASSUME NEW C, NEW R, NEW c \in C, NEW h \in CommandHeader
    PROVE  /\ SrpCommandCreate(c, h) \in [header : CommandHeader, chunk : C]
           /\ SrpCommandCreate(c, h) \in FramesOf(C, R)
           /\ SrpT401Start(SrpCommandCreate(c, h)) \in TimersOf(C)
<1>1. SrpCommandCreate(c, h) \in [header : CommandHeader, chunk : C] BY DEF SrpCommandCreate
<1>2. QED BY <1>1 DEF FramesOf, TimersOf, SrpT401Start

\* The head of the queue, with SRP or NSRP.
LEMMA SendSrpCarries ==
    ASSUME NEW s, NEW C, NEW R, Carries(s, C, R), s.queue # <<>>
    PROVE  Carries(SendSrpCommand(s), C, R)
<1> DEFINE f == SrpCommandCreate(Head(s.queue), "SRP_COMMAND")
<1> DEFINE u == [s EXCEPT !.save = <<SrpT401Start(f)>>]
<1>1. Head(s.queue) \in C BY HeadTailProperties DEF Carries
<1>2. f \in FramesOf(C, R) /\ SrpT401Start(f) \in TimersOf(C)
  BY <1>1, CommandOf DEF CommandHeader
<1> HIDE DEF f
<1>3. <<SrpT401Start(f)>> \in Seq(TimersOf(C)) /\ <<f>> \in Seq(FramesOf(C, R)) BY <1>2
<1>4. Carries(u, C, R) BY <1>3, CarriesSets
<1>5. SendSrpCommand(s) = LowerLayerTx(u, <<f>>) BY DEF SendSrpCommand, f
<1> HIDE DEF u
<1>6. QED BY <1>3, <1>4, <1>5, CarriesTx

\* Chunks of the queue, with WNSRP.
LEMMA SendWnsrpCarries ==
    ASSUME NEW s, NEW C, NEW R, Carries(s, C, R), NEW n \in 0..Len(s.queue)
    PROVE  Carries(SendWnsrpCommands(s, n), C, R)
<1> DEFINE m == Len(s.active)
<1> DEFINE new == SubSeq(s.queue, m + 1, n)
<1> DEFINE f == [i \in DOMAIN new |-> SrpCommandCreate(new[i], "WNSRP_COMMAND")]
<1> DEFINE g == [i \in DOMAIN f |-> SrpT401Start(f[i])]
<1> DEFINE u == [s EXCEPT !.active = @ \o g]
<1>1. s.queue \in Seq(C) /\ s.active \in Seq(TimersOf(C)) /\ DOMAIN s = Fields BY DEF Carries
<1>2. m \in Nat /\ Len(s.queue) \in Nat /\ n \in Int BY <1>1, LenProperties
<1>3. new \in Seq(C)
  <2> HIDE DEF m
  <2>1. \A i \in m + 1..n : i \in 1..Len(s.queue) BY <1>2
  <2>2. \A i \in m + 1..n : s.queue[i] \in C BY <1>1, <2>1, LenProperties
  <2>3. m + 1 \in Int BY <1>2
  <2>4. QED BY <1>2, <2>2, <2>3, SubSeqProperties
<1> HIDE DEF new
<1> DEFINE L == Len(new)
<1>4. L \in Nat /\ DOMAIN new = 1..L /\ \A i \in 1..L : new[i] \in C BY <1>3, LenProperties
<1> HIDE DEF L
<1>5. f = [i \in 1..L |-> SrpCommandCreate(new[i], "WNSRP_COMMAND")] BY <1>4
<1>6. \A i \in 1..L : /\ SrpCommandCreate(new[i], "WNSRP_COMMAND") \in FramesOf(C, R)
                      /\ SrpT401Start(SrpCommandCreate(new[i], "WNSRP_COMMAND")) \in TimersOf(C)
  BY <1>4, CommandOf DEF CommandHeader
<1> HIDE DEF f
<1>7. f \in Seq(FramesOf(C, R))
  <2>1. f \in [1..L -> FramesOf(C, R)] BY <1>5, <1>6
  <2>2. QED BY <1>4, <2>1, SeqDef
<1>8. g \in Seq(TimersOf(C))
  <2>1. g \in [1..L -> TimersOf(C)] BY <1>5, <1>6
  <2>2. QED BY <1>4, <2>1, SeqDef
<1> HIDE DEF g
<1>9. s.active \o g \in Seq(TimersOf(C)) BY <1>1, <1>8, ConcatProperties
<1>10. Carries(u, C, R) BY <1>9, CarriesSets
<1>11. SendWnsrpCommands(s, n) = LowerLayerTx(u, f)
  BY DEF SendWnsrpCommands, f, g, new
<1> HIDE DEF u
<1>12. QED BY <1>7, <1>10, <1>11, CarriesTx

\* As many as the window has room for.
LEMMA FillWindowCarries ==
    ASSUME NEW s, NEW C, NEW R, Carries(s, C, R)
    PROVE  Carries(FillWindow(s), C, R)
<1>1. Len(s.queue) \in Nat BY LenProperties DEF Carries
<1>2. Min({Window, Len(s.queue)}) \in 0..Len(s.queue)
  <2>1. Window \in Nat BY SrpAssumption
  <2>2. Min({Window, Len(s.queue)}) = IF Window <= Len(s.queue) THEN Window ELSE Len(s.queue)
    BY <1>1, <2>1, MinOfTwo
  <2>3. QED BY <1>1, <2>1, <2>2
<1>3. QED BY <1>2, SendWnsrpCarries DEF FillWindow

\* A chunk that leaves the queue.
LEMMA ClearCarries ==
    ASSUME NEW s, NEW C, NEW R, Carries(s, C, R), NEW n
    PROVE  Carries(SrpCommandClear(s, n), C, R)
<1> DEFINE hits == {i \in DOMAIN s.queue : s.queue[i].seq = n}
<1>1. s.queue \in Seq(C) /\ DOMAIN s = Fields BY DEF Carries
<1>2. DOMAIN s.queue = 1..Len(s.queue) BY <1>1, LenProperties
<1>3. CASE hits = {} BY <1>3 DEF SrpCommandClear
<1>4. CASE hits # {}
  <2>1. Min(hits) \in 1..Len(s.queue)
    <3>1. hits \in SUBSET Nat BY <1>2
    <3>2. Min(hits) \in hits BY <1>4, <3>1, LeastNat
    <3>3. QED BY <1>2, <3>2
  <2>2. RemoveAt(s.queue, Min(hits)) \in Seq(C) BY <1>1, <2>1, RemoveAtFacts
  <2> DEFINE v == RemoveAt(s.queue, Min(hits))
  <2>3. SrpCommandClear(s, n) = [s EXCEPT !.queue = v] /\ v \in Seq(C)
    BY <1>4, <2>2 DEF SrpCommandClear
  <2> HIDE DEF v
  <2>4. v \in Seq(C) => Carries([s EXCEPT !.queue = v], C, R) BY CarriesSets
  <2>5. QED BY <2>3, <2>4
<1>5. QED BY <1>3, <1>4

\* One of the window's timers that is stopped.
LEMMA RemoveTimerCarries ==
    ASSUME NEW s, NEW C, NEW R, Carries(s, C, R), NEW i \in 1..Len(s.active)
    PROVE  Carries(RemoveActiveWnsrpTimer(s, i), C, R)
<1>1. s.active \in Seq(TimersOf(C)) BY DEF Carries
<1>2. RemoveAt(s.active, i) \in Seq(TimersOf(C)) BY <1>1, RemoveAtFacts
<1>3. Carries([s EXCEPT !.active = RemoveAt(s.active, i)], C, R) BY <1>2, CarriesSets
<1>4. QED BY <1>3 DEF RemoveActiveWnsrpTimer

\* A message from above.
LEMMA MessageCarries ==
    ASSUME NEW s, NEW C, NEW R, Carries(s, C, R), s.queue # <<>>
    PROVE  Carries(Srp_0_1(s), C, R) /\ Carries(Srp_1_1(s), C, R)
<1> DEFINE s1 == IF s.wnsrp = "WNSRP_FULL" THEN s ELSE SendSrpCommand(s)
<1> DEFINE s2 == IF s.wnsrp = "NO_WNSRP" THEN s1 ELSE FillWindow(s1)
<1>1. Carries(s1, C, R) BY SendSrpCarries
<1> HIDE DEF s1
<1>2. Carries(s2, C, R) BY <1>1, FillWindowCarries
<1> HIDE DEF s2
<1>3. Carries([s2 EXCEPT !.status = "WAIT_RESPONSE"], C, R) BY <1>2, CarriesSets
<1>4. Srp_0_1(s) = [s2 EXCEPT !.status = "WAIT_RESPONSE"] BY DEF Srp_0_1, s1, s2
<1>5. Carries(Srp_1_1(s), C, R) BY FillWindowCarries DEF Srp_1_1
<1>6. QED BY <1>3, <1>4, <1>5

\* The next chunk.
LEMMA SendNextCarries ==
    ASSUME NEW s, NEW C, NEW R, Carries(s, C, R)
    PROVE  Carries(SendNext(s), C, R)
<1> DEFINE s1 == IF s.wnsrp = "WNSRP_FULL" \/ s.queue = <<>> THEN s ELSE SendSrpCommand(s)
<1> DEFINE s2 == IF s.wnsrp = "NO_WNSRP" \/ Len(s.active) >= Len(s.queue)
                 THEN s1 ELSE SendWnsrpCommands(s1, Len(s.active) + 1)
<1>1. Carries(s1, C, R) BY SendSrpCarries
<1>2. s1.queue = s.queue
  <2>1. DOMAIN s = Fields BY DEF Carries
  <2>2. QED BY <2>1 DEF SendSrpCommand, LowerLayerTx, Fields
<1>3. Len(s.queue) \in Nat /\ Len(s.active) \in Nat BY LenProperties DEF Carries
<1> HIDE DEF s1
<1>4. Carries(s2, C, R)
  <2>1. CASE s.wnsrp = "NO_WNSRP" \/ Len(s.active) >= Len(s.queue) BY <1>1, <2>1
  <2>2. CASE ~(s.wnsrp = "NO_WNSRP" \/ Len(s.active) >= Len(s.queue))
    <3>1. Len(s.active) + 1 \in 0..Len(s1.queue) BY <1>2, <1>3, <2>2
    <3>2. QED BY <1>1, <2>2, <3>1, SendWnsrpCarries
  <2>3. QED BY <2>1, <2>2
<1> HIDE DEF s2
<1>5. SendNext(s) = IF s2.save = <<>> /\ s2.active = <<>> THEN [s2 EXCEPT !.status = "IDLE"] ELSE s2
  BY DEF SendNext, s1, s2
<1>6. Carries([s2 EXCEPT !.status = "IDLE"], C, R) BY <1>4, CarriesSets
<1>7. QED BY <1>4, <1>5, <1>6

\* The first of the window's timers with a number.
LEMMA FirstWith ==
    ASSUME NEW s, NEW C, NEW R, Carries(s, C, R), NEW n, ActiveWith(s, n) # {}
    PROVE  Min(ActiveWith(s, n)) \in 1..Len(s.active)
<1>1. DOMAIN s.active = 1..Len(s.active) BY LenProperties DEF Carries
<1>2. ActiveWith(s, n) \subseteq 1..Len(s.active) BY <1>1 DEF ActiveWith
<1>3. ActiveWith(s, n) \in SUBSET Nat BY <1>2
<1>4. QED BY <1>2, <1>3, LeastNat

\* Responses.
LEMMA ResponseCarries ==
    ASSUME NEW s, NEW C, NEW R, Carries(s, C, R), NEW n
    PROVE  /\ Carries(OnSrpResponse(s), C, R) /\ Carries(OnNsrpResponse(s, n), C, R)
           /\ Carries(OnWnsrpResponse(s, n), C, R)
<1>1. <<>> \in Seq(TimersOf(C)) BY EmptySeq
<1>2. \A u : Carries(u, C, R) => Carries([u EXCEPT !.save = <<>>], C, R) BY <1>1, CarriesSets
<1>3. Carries(OnSrpResponse(s), C, R)
  <2> DEFINE s1 == IF s.active = <<>> THEN s ELSE RemoveActiveWnsrpTimer(s, 1)
  <2> DEFINE s2 == SrpCommandClear(s1, TimerSeq(s.save[1]))
  <2>1. Carries(s1, C, R)
    <3>1. s.active # <<>> => 1 \in 1..Len(s.active)
      <4>1. s.active \in Seq(TimersOf(C)) BY DEF Carries
      <4>2. QED BY <4>1, EmptySeq, LenProperties
    <3>2. QED BY <3>1, RemoveTimerCarries
  <2> HIDE DEF s1
  <2>2. Carries(s2, C, R) BY <2>1, ClearCarries
  <2> HIDE DEF s2
  <2>3. Carries(SendNext([s2 EXCEPT !.save = <<>>]), C, R) BY <1>2, <2>2, SendNextCarries
  <2>4. OnSrpResponse(s) = IF s.save = <<>> THEN s ELSE SendNext([s2 EXCEPT !.save = <<>>])
    BY DEF OnSrpResponse, s1, s2
  <2>5. QED BY <2>3, <2>4
<1>4. Carries(OnNsrpResponse(s, n), C, R)
  <2> DEFINE s1 == SrpCommandClear(s, n)
  <2> DEFINE s2 == IF ActiveWith(s1, n) = {} THEN s1
                   ELSE RemoveActiveWnsrpTimer(s1, Min(ActiveWith(s1, n)))
  <2>1. Carries(s1, C, R) BY ClearCarries
  <2> HIDE DEF s1
  <2>2. Carries(s2, C, R) BY <2>1, FirstWith, RemoveTimerCarries
  <2> HIDE DEF s2
  <2>3. Carries(SendNext([s2 EXCEPT !.save = <<>>]), C, R) BY <1>2, <2>2, SendNextCarries
  <2>4. OnNsrpResponse(s, n) = IF s2.save # <<>> /\ TimerSeq(s2.save[1]) = n
                               THEN SendNext([s2 EXCEPT !.save = <<>>]) ELSE s2
    BY DEF OnNsrpResponse, s1, s2
  <2>5. QED BY <2>2, <2>3, <2>4
<1>5. Carries(OnWnsrpResponse(s, n), C, R)
  <2> DEFINE s1 == SrpCommandClear(s, n)
  <2> DEFINE i == Min(ActiveWith(s1, n))
  <2> DEFINE a == [k \in DOMAIN s1.active |->
                     IF k < i THEN [s1.active[k] EXCEPT !.n400 = 1] ELSE s1.active[k]]
  <2> DEFINE s2 == [s1 EXCEPT !.active = a]
  <2> DEFINE f == [k \in 1..i - 1 |-> s.active[k].pkt]
  <2>1. Carries(s1, C, R) /\ s1.active = s.active
    <3>1. DOMAIN s = Fields BY DEF Carries
    <3>2. s1.active = s.active BY <3>1 DEF SrpCommandClear, Fields
    <3>3. QED BY <3>2, ClearCarries
  <2>2. OnWnsrpResponse(s, n) = IF ActiveWith(s1, n) = {} THEN s1
          ELSE SendNext(RemoveActiveWnsrpTimer(LowerLayerTx(s2, f), i))
    BY DEF OnWnsrpResponse
  <2> HIDE DEF s1
  <2>3. CASE ActiveWith(s1, n) = {} BY <2>1, <2>2, <2>3
  <2>4. CASE ActiveWith(s1, n) # {}
    <3> DEFINE L == Len(s.active)
    <3>1. i \in 1..L BY <2>1, <2>4, FirstWith
    <3>2. s.active \in Seq(TimersOf(C)) BY DEF Carries
    <3>3. L \in Nat /\ DOMAIN s.active = 1..L /\ \A k \in 1..L : s.active[k] \in TimersOf(C)
      BY <3>2, LenProperties
    <3> HIDE DEF i, L
    <3>4. a \in Seq(TimersOf(C)) /\ Len(a) = L
      <4>1. \A t \in TimersOf(C) : [t EXCEPT !.n400 = 1] \in TimersOf(C) BY DEF TimersOf
      <4>2. a \in [1..L -> TimersOf(C)] BY <2>1, <3>3, <4>1
      <4>3. a \in Seq(TimersOf(C)) BY <3>3, <4>2, SeqDef
      <4>4. DOMAIN a = 1..L BY <4>2
      <4> HIDE DEF a
      <4>5. QED BY <3>3, <4>3, <4>4, LenProperties
    <3>5. f \in Seq(FramesOf(C, R))
      <4>1. \A t \in TimersOf(C) : t.pkt \in FramesOf(C, R) BY DEF TimersOf, FramesOf
      <4>2. i - 1 \in Nat /\ \A k \in 1..i - 1 : k \in 1..L BY <3>1, <3>3
      <4>3. f \in [1..i - 1 -> FramesOf(C, R)] BY <3>3, <4>1, <4>2
      <4>4. QED BY <4>2, <4>3, SeqDef
    <3> HIDE DEF a, f
    <3>6. Carries(s2, C, R) BY <2>1, <3>4, CarriesSets
    <3>7. s2.active = a /\ DOMAIN s2 = Fields BY <2>1 DEF Carries, Fields
    <3> HIDE DEF s2
    <3> DEFINE s3 == LowerLayerTx(s2, f)
    <3>8. Carries(s3, C, R) /\ s3.active = a
      <4>1. s3.active = a BY <3>7 DEF LowerLayerTx, Fields
      <4>2. QED BY <3>5, <3>6, <4>1, CarriesTx
    <3> HIDE DEF s3
    <3>9. Carries(RemoveActiveWnsrpTimer(s3, i), C, R) BY <3>1, <3>4, <3>8, RemoveTimerCarries
    <3>10. Carries(SendNext(RemoveActiveWnsrpTimer(s3, i)), C, R) BY <3>9, SendNextCarries
    <3>11. QED BY <2>2, <2>4, <3>10 DEF s3
  <2>5. QED BY <2>3, <2>4
<1>6. QED BY <1>3, <1>4, <1>5

\* A timeout with retries left.
LEMMA ResendCarries ==
    ASSUME NEW s, NEW C, NEW R, Carries(s, C, R), NEW i \in Timers(s)
    PROVE  Carries(Resend(s, i), C, R)
<1>1. \A t \in TimersOf(C) : /\ [t EXCEPT !.n400 = t.n400 + 1] \in TimersOf(C)
                             /\ t.pkt \in FramesOf(C, R)
  BY DEF TimersOf, FramesOf
<1>2. /\ s.save \in Seq(TimersOf(C)) /\ s.active \in Seq(TimersOf(C)) /\ DOMAIN s = Fields
  BY DEF Carries
<1>3. CASE i = 0
  <2> DEFINE v == [s.save EXCEPT ![1] = [s.save[1] EXCEPT !.n400 = s.save[1].n400 + 1]]
  <2>1. s.save # <<>>
    <3>1. DOMAIN s.active = 1..Len(s.active) BY <1>2, LenProperties
    <3>2. QED BY <1>3, <3>1 DEF Timers
  <2>2. 1 \in 1..Len(s.save) BY <1>2, <2>1, EmptySeq, LenProperties
  <2>3. s.save[1] \in TimersOf(C) BY <1>2, <2>2, LenProperties
  <2>4. v \in Seq(TimersOf(C)) BY <1>1, <1>2, <2>2, <2>3, ExceptSeq
  <2>5. <<s.save[1].pkt>> \in Seq(FramesOf(C, R)) BY <1>1, <2>3, OneFrame
  <2>6. Resend(s, i) = LowerLayerTx([s EXCEPT !.save = v], <<s.save[1].pkt>>)
    BY <1>2, <1>3 DEF Resend, Fields
  <2> HIDE DEF v
  <2>7. Carries([s EXCEPT !.save = v], C, R) BY <2>4, CarriesSets
  <2>8. QED BY <2>5, <2>6, <2>7, CarriesTx
<1>4. CASE i # 0
  <2> DEFINE v == [s.active EXCEPT ![i] = [s.active[i] EXCEPT !.n400 = s.active[i].n400 + 1]]
  <2>1. i \in 1..Len(s.active)
    <3>1. DOMAIN s.active = 1..Len(s.active) BY <1>2, LenProperties
    <3>2. QED BY <1>4, <3>1 DEF Timers
  <2>3. s.active[i] \in TimersOf(C) BY <1>2, <2>1, LenProperties
  <2>4. v \in Seq(TimersOf(C)) BY <1>1, <1>2, <2>1, <2>3, ExceptSeq
  <2>5. <<s.active[i].pkt>> \in Seq(FramesOf(C, R)) BY <1>1, <2>3, OneFrame
  <2>6. Resend(s, i) = LowerLayerTx([s EXCEPT !.active = v], <<s.active[i].pkt>>)
    BY <1>2, <1>4 DEF Resend, Fields
  <2> HIDE DEF v
  <2>7. Carries([s EXCEPT !.active = v], C, R) BY <2>4, CarriesSets
  <2>8. QED BY <2>5, <2>6, <2>7, CarriesTx
<1>5. QED BY <1>3, <1>4

\* What a frame does before it becomes an event.
LEMMA NoteCarries ==
    ASSUME NEW s, NEW C, NEW R, Carries(s, C, R), NEW frame \in FrameSet
    PROVE  Carries(SrpNoteFrame(s, frame), C, R)
<1>1. ASSUME NEW u, Carries(u, C, R), NEW new \in {"NO_WNSRP", "WNSRP_FULL"}
      PROVE  Carries(WnsrpStatusSet(u, new), C, R)
  <2>1. <<>> \in Seq(TimersOf(C)) BY EmptySeq
  <2>2. DOMAIN u = Fields BY <1>1 DEF Carries
  <2> DEFINE v == [u EXCEPT !.wnsrp = new]
  <2>3. Carries(v, C, R) BY <1>1, CarriesSets
  <2>4. /\ [u EXCEPT !.wnsrp = new, !.active = <<>>] = [v EXCEPT !.active = <<>>]
        /\ [u EXCEPT !.wnsrp = new, !.save = <<>>] = [v EXCEPT !.save = <<>>]
    BY <2>2 DEF Fields
  <2> HIDE DEF v
  <2>5. Carries([v EXCEPT !.active = <<>>], C, R) /\ Carries([v EXCEPT !.save = <<>>], C, R)
    BY <2>1, <2>3, CarriesSets
  <2>6. QED BY <2>4, <2>5 DEF WnsrpStatusSet
<1>2. Carries(CountN402(s), C, R)
  <2> DEFINE s1 == [s EXCEPT !.n402 = @ + 1]
  <2>1. Carries(s1, C, R) BY CarriesSets
  <2>2. CountN402(s) = IF s.wnsrp # "WNSRP_TX" THEN s
                       ELSE IF s1.n402 < N402Max THEN s1 ELSE WnsrpStatusSet(s1, "NO_WNSRP")
    BY DEF CountN402
  <2> HIDE DEF s1
  <2>3. QED BY <1>1, <2>1, <2>2
<1>3. frame.header \in CommandHeader \cup ResponseHeader BY DEF FrameSet
<1>4. CASE frame.header = "SRP_COMMAND" BY <1>1, <1>4 DEF SrpNoteFrame
<1>5. CASE frame.header = "SRP_RESPONSE" BY <1>2, <1>5 DEF SrpNoteFrame
<1>6. CASE frame.header = "NSRP_RESPONSE"
  <2> DEFINE s1 == CountN402(s)
  <2>1. SrpNoteFrame(s, frame) = [s1 EXCEPT !.firstNSRPResp = @ \/ s1.useNSRP]
    BY <1>6 DEF SrpNoteFrame
  <2>2. Carries(s1, C, R) BY <1>2
  <2> HIDE DEF s1
  <2>3. Carries([s1 EXCEPT !.firstNSRPResp = s1.firstNSRPResp \/ s1.useNSRP], C, R)
    BY <2>2, CarriesSets
  <2>4. QED BY <2>1, <2>3
<1>7. CASE frame.header \in {"WNSRP_COMMAND", "WNSRP_RESPONSE"} BY <1>1, <1>7 DEF SrpNoteFrame
<1>8. QED BY <1>3, <1>4, <1>5, <1>6, <1>7 DEF CommandHeader, ResponseHeader

\* A larger set of chunks.
LEMMA CarriesMore ==
    ASSUME NEW s, NEW C, NEW R, NEW D, NEW T, C \subseteq D, R \subseteq T, Carries(s, C, R)
    PROVE  Carries(s, D, T)
<1>1. TimersOf(C) \subseteq TimersOf(D) BY DEF TimersOf
<1>2. FramesOf(C, R) \subseteq FramesOf(D, T) BY DEF FramesOf
<1>3. \A A, B : A \subseteq B => Seq(A) \subseteq Seq(B) OBVIOUS
<1>4. QED BY <1>1, <1>2, <1>3 DEF Carries

-----------------------------------------------------------------------------
(* A command, from the chunks that come to those that go up.               *)

\* The receiver has the chunk with number n, passed up or held back.
Got(s, n) == n < s.recvSeq \/ \E i \in 1..Len(s.pending) : s.pending[i].seq = n

\* Chunks come from the list, or with the command.
From(d, s, c) == d = c \/ \E k \in 1..Len(s.pending) : d = s.pending[k]

\* How far back repetitions are answered.
Behind == (SeqSpace - Window) \div 2

\* The oldest number that is not answered any more.
Old(s) == s.oldest = IF s.recvSeq < Behind THEN s.recvSeq + SeqSpace - Behind
                     ELSE s.recvSeq - Behind

\* What a command with chunk c makes of a receiver.
Took(r, s, c) ==
    /\ DOMAIN r = Fields /\ ~r.firstCmd /\ r.buffer = s.buffer
    /\ r.up \in Seq(ChunkSet) /\ r.recvSeq = s.recvSeq + Len(r.up)
    /\ \A i \in 1..Len(r.up) : r.up[i].seq = s.recvSeq + i - 1 /\ From(r.up[i], s, c)
    /\ \A i \in 1..Len(r.pending) : From(r.pending[i], s, c)
    /\ \A n \in Nat : Got(s, n) => Got(r, n)
    /\ Old(s) => Old(r)
    /\ r.queue = s.queue /\ r.save = s.save /\ r.active = s.active
    /\ r.useNSRP = s.useNSRP

\* What it answers.
Answers(r, s, c, B) ==
    \/ r.tx = s.tx
    \/ \E h \in ResponseHeader :
         /\ r.tx = s.tx \o <<SrpResponseCreate(c.seq, h)>>
         /\ s.useNSRP => h # "SRP_RESPONSE"
         /\ Old(s) /\ B <= SeqSpace - Behind => Got(r, c.seq)

\* A number from one round of the number space.
LEMMA ModWrap ==
    ASSUME NEW a \in Nat, NEW b \in Nat, b <= a, a < 2 * b
    PROVE  a % b = a - b
OBVIOUS

\* Half of a difference.
LEMMA BehindType ==
    /\ Behind \in Nat /\ Behind <= SeqSpace - Window /\ SeqSpace \in Nat /\ Window \in Nat
    /\ Window > 0 /\ Behind < SeqSpace
    /\ SeqSpace - Window >= 2 => Behind >= 1
<1>1. SeqSpace \in Nat /\ Window \in Nat /\ Window > 0 /\ Window < SeqSpace BY SrpAssumption
<1>2. SeqSpace - Window \in Nat BY <1>1
<1>3. \A x \in Nat : x \div 2 \in Nat /\ x \div 2 <= x /\ (x >= 2 => x \div 2 >= 1) OBVIOUS
<1> DEFINE x == SeqSpace - Window
<1>4. x \div 2 \in Nat /\ x \div 2 <= x /\ (x >= 2 => x \div 2 >= 1) BY <1>2, <1>3
<1>5. Behind = x \div 2 BY DEF Behind
<1>6. QED BY <1>1, <1>4, <1>5

\* The window of old numbers moves with the number expected next.
LEMMA OldMoves ==
    ASSUME NEW s, NEW r, NEW n \in Nat, s.recvSeq \in Nat, Old(s),
           r.recvSeq = s.recvSeq + n, r.recvSeq < SeqSpace, r.oldest = (s.oldest + n) % SeqSpace
    PROVE  Old(r)
<1>1. Behind \in Nat /\ SeqSpace \in Nat /\ Behind < SeqSpace BY BehindType
<1> DEFINE m == s.recvSeq
<1> DEFINE D == Behind
<1> HIDE DEF D, m
<1>2. m \in Nat /\ D \in Nat /\ D < SeqSpace /\ m + n < SeqSpace BY <1>1 DEF m, D
<1>3. s.oldest = IF m < D THEN m + SeqSpace - D ELSE m - D BY DEF Old, m, D
<1>4. r.oldest = IF m + n < D THEN m + n + SeqSpace - D ELSE m + n - D
  <2>1. CASE m < D /\ m + n < D
    <3>1. s.oldest + n = m + n + SeqSpace - D BY <1>1, <1>2, <1>3, <2>1
    <3>2. s.oldest + n \in Nat /\ s.oldest + n < SeqSpace BY <1>1, <1>2, <2>1, <3>1
    <3>3. (s.oldest + n) % SeqSpace = s.oldest + n BY <1>1, <3>2, ModSmall
    <3>4. QED BY <2>1, <3>1, <3>3
  <2>2. CASE m < D /\ ~(m + n < D)
    <3>1. s.oldest + n = m + n + SeqSpace - D BY <1>1, <1>2, <1>3, <2>2
    <3>2. s.oldest + n \in Nat /\ SeqSpace <= s.oldest + n /\ s.oldest + n < 2 * SeqSpace
      BY <1>1, <1>2, <2>2, <3>1
    <3> DEFINE o == s.oldest + n
    <3>3. o \in Nat /\ SeqSpace <= o /\ o < 2 * SeqSpace /\ o = m + n + SeqSpace - D BY <3>1, <3>2
    <3>4. r.oldest = o % SeqSpace OBVIOUS
    <3> HIDE DEF o
    <3>5. o % SeqSpace = o - SeqSpace BY <1>1, <3>3, ModWrap
    <3>6. o - SeqSpace = m + n - D BY <1>1, <1>2, <3>3
    <3>7. QED BY <2>2, <3>4, <3>5, <3>6
  <2>3. CASE ~(m < D)
    <3>1. s.oldest + n = m + n - D BY <1>1, <1>2, <1>3, <2>3
    <3>2. s.oldest + n \in Nat /\ s.oldest + n < SeqSpace BY <1>1, <1>2, <2>3, <3>1
    <3>3. (s.oldest + n) % SeqSpace = s.oldest + n BY <1>1, <3>2, ModSmall
    <3>4. ~(m + n < D) BY <1>2, <2>3
    <3>5. QED BY <3>1, <3>3, <3>4
  <2>4. QED BY <2>1, <2>2, <2>3
<1>5. r.recvSeq = m + n BY DEF m
<1>6. r.oldest = IF r.recvSeq < D THEN r.recvSeq + SeqSpace - D ELSE r.recvSeq - D
  BY <1>1, <1>2, <1>4, <1>5
<1>7. QED BY <1>6 DEF Old, D

\* A chunk that is only answered has been received: in half the number space
\* none is both unknown and old.
LEMMA AnsweredIsGot ==
    ASSUME NEW s, NEW B \in Nat, B + Window < SeqSpace, RecvInv(s, B), Old(s),
           B <= SeqSpace - Behind, NEW seq \in Nat, seq < B, NEW header,
           CheckRxSeqNum(s, seq, header) = "answer"
    PROVE  Got(s, seq)
<1>1. s.recvSeq \in Nat /\ s.recvSeq <= B /\ s.pending \in Seq(ChunkSet) BY DEF RecvInv
<1>2. DOMAIN s.pending = 1..Len(s.pending) BY <1>1, LenProperties
<1>3. /\ Behind \in Nat /\ SeqSpace \in Nat /\ Window \in Nat /\ Behind < SeqSpace
      /\ SeqSpace - Window >= 2 => Behind >= 1
  BY BehindType
<1>4. Behind >= 1 BY <1>3
<1>5. CASE header = "WNSRP_RESPONSE"
  <2>1. CheckPendingRxList(s, seq) \/ CheckWNSRPRetrans(s, seq) BY <1>5 DEF CheckRxSeqNum
  <2>2. CASE CheckPendingRxList(s, seq) BY <1>2, <2>2 DEF CheckPendingRxList, Got
  <2>3. CASE CheckWNSRPRetrans(s, seq)
    <3>1. CASE s.recvSeq < Behind
      <4>1. s.oldest = s.recvSeq + SeqSpace - Behind BY <3>1 DEF Old
      <4>2. ~(s.oldest < s.recvSeq) /\ ~(s.oldest < seq) BY <1>1, <1>3, <4>1
      <4>3. seq < s.recvSeq BY <2>3, <4>2 DEF CheckWNSRPRetrans
      <4>4. QED BY <4>3 DEF Got
    <3>2. CASE ~(s.recvSeq < Behind)
      <4>1. s.oldest = s.recvSeq - Behind BY <3>2 DEF Old
      <4>2. s.oldest < s.recvSeq BY <1>1, <1>3, <1>4, <4>1
      <4>3. seq < s.recvSeq BY <2>3, <4>2 DEF CheckWNSRPRetrans
      <4>4. QED BY <4>3 DEF Got
    <3>3. QED BY <3>1, <3>2
  <2>4. QED BY <2>1, <2>2, <2>3
<1>6. CASE header # "WNSRP_RESPONSE"
  <2>1. NextSeq(seq) = s.recvSeq BY <1>6 DEF CheckRxSeqNum
  <2>2. seq + 1 \in Nat /\ seq + 1 < SeqSpace BY <1>3, SrpAssumption
  <2>3. (seq + 1) % SeqSpace = seq + 1 BY <1>3, <2>2, ModSmall
  <2>4. s.recvSeq = seq + 1 BY <2>1, <2>3 DEF NextSeq
  <2>5. QED BY <2>4 DEF Got
<1>7. QED BY <1>5, <1>6

\* A command at a receiver.
LEMMA ReceiverTakes ==
    ASSUME NEW s, DOMAIN s = Fields, NEW B \in Nat, B + Window < SeqSpace, RecvInv(s, B),
           NEW frame \in FrameSet, frame.chunk.seq < B,
           NEW event \in {"COMMAND", "WNSRP_COMMAND"}, s.up = <<>>,
           s.firstCmd => s.recvSeq = 0 /\ (event = "COMMAND" => frame.chunk.seq = 0)
    PROVE  /\ Took(Srp_0_2(s, frame, event), s, frame.chunk)
           /\ Answers(Srp_0_2(s, frame, event), s, frame.chunk, B)
<1> DEFINE chunk == frame.chunk
<1> DEFINE seq == frame.chunk.seq
<1> DEFINE header == CASE event = "WNSRP_COMMAND" -> "WNSRP_RESPONSE"
                       [] event = "COMMAND" /\ s.useNSRP -> "NSRP_RESPONSE"
                       [] OTHER -> "SRP_RESPONSE"
<1> DEFINE s1 == IF ~s.firstCmd THEN s
                 ELSE [s EXCEPT !.firstCmd = FALSE,
                                !.recvSeq = IF event = "WNSRP_COMMAND" THEN 0 ELSE seq]
<1> DEFINE f == SrpResponseCreate(seq, header)
<1> DEFINE answered == [s1 EXCEPT !.tx = @ \o <<f>>]
<1> DEFINE added == AddPendingRxFrag(answered, frame.chunk)
<1> DEFINE taken == DeliverPending(added)
<1> DEFINE check == CheckRxSeqNum(s1, seq, header)
<1> DEFINE r == Srp_0_2(s, frame, event)
<1> DEFINE q == s.pending
<1> DEFINE m == s.recvSeq
<1>1. chunk \in ChunkSet /\ seq \in Nat /\ seq < B
  <2>1. chunk \in ChunkSet BY DEF FrameSet
  <2>2. \A d \in ChunkSet : d.seq \in Nat BY SrpAssumption DEF ChunkSet
  <2>3. QED BY <2>1, <2>2
<1>2. \/ r = s1
      \/ check = "answer" /\ r = answered
      \/ check = "take" /\ r = taken
  <2>1. check \in {"take", "answer", "ignore"} BY DEF CheckRxSeqNum
  <2>2. r = CASE check = "ignore" -> s1
              [] check = "answer" -> answered
              [] check = "take" /\ Len(s1.pending) >= Window -> s1
              [] OTHER -> taken
    BY DEF Srp_0_2, LowerLayerTx
  <2> HIDE DEF check, s1, answered, taken, r
  <2>3. QED BY <2>1, <2>2
<1>3. header \in ResponseHeader /\ (s.useNSRP => header # "SRP_RESPONSE") BY DEF ResponseHeader
<1> HIDE DEF header
<1>4. /\ DOMAIN s1 = Fields /\ ~s1.firstCmd /\ s1.pending = q /\ s1.recvSeq = m
      /\ s1.buffer = s.buffer /\ s1.up = <<>> /\ s1.oldest = s.oldest /\ s1.tx = s.tx
      /\ s1.queue = s.queue /\ s1.save = s.save /\ s1.active = s.active
      /\ s1.useNSRP = s.useNSRP
  <2>1. CASE ~s.firstCmd BY <2>1
  <2>2. CASE s.firstCmd
    <3>1. m = IF event = "WNSRP_COMMAND" THEN 0 ELSE seq BY <2>2
    <3>2. QED BY <2>2, <3>1 DEF Fields
  <2>3. QED BY <2>1, <2>2
<1>5. /\ m \in Nat /\ m <= B /\ q \in Seq(ChunkSet) /\ Rising(q)
      /\ \A i \in 1..Len(q) : m < q[i].seq /\ q[i].seq < B
  BY DEF RecvInv
<1> HIDE DEF s1, f
<1>6. /\ DOMAIN answered = Fields /\ ~answered.firstCmd /\ answered.pending = q
      /\ answered.recvSeq = m /\ answered.buffer = s.buffer /\ answered.up = <<>>
      /\ answered.oldest = s.oldest /\ answered.tx = s.tx \o <<f>>
      /\ answered.queue = s.queue /\ answered.save = s.save /\ answered.active = s.active
      /\ answered.useNSRP = s.useNSRP
  BY <1>4 DEF Fields
<1> HIDE DEF answered
<1>7. ASSUME NEW u \in {s1, answered} PROVE Took(u, s, chunk)
  <2>1. /\ DOMAIN u = Fields /\ ~u.firstCmd /\ u.pending = q
        /\ u.recvSeq = m /\ u.buffer = s.buffer /\ u.up = <<>>
        /\ u.oldest = s.oldest
        /\ u.queue = s.queue /\ u.save = s.save /\ u.active = s.active
        /\ u.useNSRP = s.useNSRP
    BY <1>4, <1>6
  <2>2. Len(u.up) = 0 /\ <<>> \in Seq(ChunkSet) BY <2>1
  <2>3. m = m + Len(u.up) /\ \A i \in 1..Len(u.up) : FALSE BY <1>5, <2>2
  <2> HIDE DEF q, m
  <2>4. u.pending = s.pending /\ u.recvSeq = s.recvSeq BY <2>1 DEF q, m
  <2>5. \A i \in 1..Len(u.pending) : From(u.pending[i], s, chunk) BY <2>4 DEF From
  <2>6. (Old(s) => Old(u)) /\ \A n \in Nat : Got(s, n) => Got(u, n) BY <2>1, <2>4 DEF Old, Got
  <2>7. QED BY <2>1, <2>2, <2>3, <2>4, <2>5, <2>6 DEF Took, m
<1>8. ASSUME check = "take"
      PROVE  Took(taken, s, chunk) /\ taken.tx = s.tx \o <<f>> /\ Got(taken, seq)
  <2>1. m <= seq /\ \A i \in 1..Len(q) : q[i].seq # seq
    <3>1. RecvInv(s1, B)
      <4> HIDE DEF q, m
      <4>1. QED BY <1>4, <1>5 DEF RecvInv
    <3>2. QED BY <1>1, <1>4, <1>8, <3>1, TakenIsNew
  <2> DEFINE list == Inserted(q, chunk)
  <2>2. added = [answered EXCEPT !.pending = list]
    BY <1>6 DEF AddPendingRxFrag, Inserted, Fields
  <2>3. /\ list \in Seq(ChunkSet) /\ Rising(list)
        /\ \A i \in 1..Len(list) : list[i] = chunk \/ \E k \in 1..Len(q) : list[i] = q[k]
        /\ \E i \in 1..Len(list) : list[i] = chunk
        /\ \A k \in 1..Len(q) : \E i \in 1..Len(list) : list[i] = q[k]
    <3> HIDE DEF q, chunk
    <3>1. \A i \in 1..Len(q) : q[i].seq # chunk.seq BY <2>1 DEF chunk
    <3>2. chunk \in ChunkSet /\ q \in Seq(ChunkSet) /\ Rising(q) BY <1>1, <1>5
    <3> HIDE DEF list
    <3>3. QED BY ONLY <3>1, <3>2, InsertRises DEF list
  <2>4. \A i \in 1..Len(list) : m <= list[i].seq /\ list[i].seq < B
    <3> HIDE DEF list, q, m
    <3>1. \A d \in ChunkSet : d.seq \in Nat BY SrpAssumption DEF ChunkSet
    <3>2. \A k \in 1..Len(q) : q[k].seq \in Nat BY <1>5, <3>1, LenProperties
    <3>3. \A k \in 1..Len(q) : m <= q[k].seq /\ q[k].seq < B BY <1>5, <3>2
    <3>4. m <= chunk.seq /\ chunk.seq < B BY <1>1, <2>1
    <3>5. QED BY <2>3, <3>3, <3>4
  <2>5. /\ DOMAIN added = Fields /\ added.pending = list /\ added.recvSeq = m
        /\ ~added.firstCmd /\ added.buffer = s.buffer /\ added.oldest = s.oldest
        /\ added.tx = s.tx \o <<f>> /\ added.queue = s.queue /\ added.save = s.save
        /\ added.active = s.active /\ added.useNSRP = s.useNSRP
    <3> HIDE DEF list
    <3>1. QED BY <1>6, <2>2 DEF Fields
  <2> DEFINE n == Max({k \in 0..Len(list) :
                         \A i \in 1..k : list[i].seq = (m + i - 1) % SeqSpace})
  <2> DEFINE left == SubSeq(list, n + 1, Len(list))
  <2> HIDE DEF list, m, q, added
  <2>6. /\ n \in Nat /\ m + n <= B /\ (m + n) % SeqSpace = m + n
        /\ left \in Seq(ChunkSet) /\ Rising(left)
        /\ \A i \in 1..Len(left) : m + n < left[i].seq /\ left[i].seq < B
        /\ n <= Len(list) /\ \A i \in 1..n : list[i].seq = m + i - 1
        /\ Len(left) = Len(list) - n /\ \A i \in 1..Len(list) - n : left[i] = list[n + i]
    <3>1. B < SeqSpace BY SrpAssumption
    <3>2. QED BY <1>5, <2>3, <2>4, <3>1, DrainRises
  <2>7. /\ DOMAIN taken = Fields /\ taken.pending = left /\ taken.recvSeq = (m + n) % SeqSpace
        /\ taken.up = SubSeq(list, 1, n) /\ taken.oldest = (s.oldest + n) % SeqSpace
        /\ ~taken.firstCmd /\ taken.buffer = s.buffer /\ taken.tx = s.tx \o <<f>>
        /\ taken.queue = s.queue /\ taken.save = s.save /\ taken.active = s.active
        /\ taken.useNSRP = s.useNSRP
    <3> DEFINE go == [added EXCEPT !.up = SubSeq(list, 1, n), !.pending = SubSeq(@, n + 1, Len(@)),
                                   !.recvSeq = (@ + n) % SeqSpace,
                                   !.oldest = (@ + n) % SeqSpace]
    <3>1. taken = go BY <2>5 DEF DeliverPending
    <3> HIDE DEF n, taken
    <3>2. /\ DOMAIN go = Fields /\ go.pending = SubSeq(list, n + 1, Len(list))
          /\ go.recvSeq = (m + n) % SeqSpace /\ go.up = SubSeq(list, 1, n)
          /\ go.oldest = (s.oldest + n) % SeqSpace
          /\ ~go.firstCmd /\ go.buffer = s.buffer /\ go.tx = s.tx \o <<f>>
          /\ go.queue = s.queue /\ go.save = s.save /\ go.active = s.active
          /\ go.useNSRP = s.useNSRP
      BY <2>5 DEF Fields
    <3>3. QED BY <3>1, <3>2
  <2> HIDE DEF taken, left, n
  <2> DEFINE L == Len(list)
  <2>8. L \in Nat BY <2>3, LenProperties
  <2>9. taken.recvSeq = m + n /\ m + n < SeqSpace /\ m + n \in Nat
    <3>1. B < SeqSpace /\ SeqSpace \in Nat BY SrpAssumption
    <3>2. m + n \in Nat /\ m + n <= B BY <1>5, <2>6
    <3>3. QED BY <2>6, <2>7, <3>1, <3>2
  <2>10. /\ taken.up \in Seq(ChunkSet) /\ Len(taken.up) = n
         /\ \A i \in 1..n : taken.up[i] = list[i]
    <3>1. \A i \in 1..n : i \in 1..L BY <2>6, <2>8
    <3>2. \A i \in 1..n : list[i] \in ChunkSet BY <2>3, <3>1, LenProperties
    <3>3. /\ SubSeq(list, 1, n) \in Seq(ChunkSet)
          /\ Len(SubSeq(list, 1, n)) = IF 1 <= n THEN n - 1 + 1 ELSE 0
          /\ \A i \in 1..n - 1 + 1 : SubSeq(list, 1, n)[i] = list[1 + i - 1]
      BY <2>6, <3>2, SubSeqProperties
    <3>4. \A i \in 1..n : i \in 1..n - 1 + 1 /\ 1 + i - 1 = i BY <2>6
    <3>5. (IF 1 <= n THEN n - 1 + 1 ELSE 0) = n BY <2>6
    <3>6. QED BY <2>7, <3>3, <3>4, <3>5
  <2>11. \A i \in 1..L : From(list[i], s, chunk) BY <2>3 DEF From, q
  <2>12. \A i \in 1..Len(taken.up) :
            taken.up[i].seq = s.recvSeq + i - 1 /\ From(taken.up[i], s, chunk)
    <3> SUFFICES ASSUME NEW i \in 1..n
                 PROVE  taken.up[i].seq = m + i - 1 /\ From(taken.up[i], s, chunk)
      BY <2>10 DEF m
    <3>1. i \in 1..L BY <2>6, <2>8
    <3>2. QED BY <2>6, <2>10, <2>11, <3>1
  <2>13. \A i \in 1..Len(taken.pending) : From(taken.pending[i], s, chunk)
    <3> SUFFICES ASSUME NEW i \in 1..Len(left) PROVE From(left[i], s, chunk) BY <2>7
    <3>1. n + i \in 1..L /\ i \in 1..L - n BY <2>6, <2>8
    <3>2. QED BY <2>6, <2>11, <3>1
  <2>14. ASSUME NEW i \in 1..L PROVE Got(taken, list[i].seq)
    <3>1. CASE i <= n
      <4>1. i \in 1..n BY <2>6, <2>8, <3>1
      <4>2. list[i].seq = m + i - 1 BY <2>6, <4>1
      <4>3. list[i].seq < taken.recvSeq BY <1>5, <2>6, <2>9, <3>1, <4>1, <4>2
      <4>4. QED BY <4>3 DEF Got
    <3>2. CASE ~(i <= n)
      <4>1. i - n \in 1..L - n /\ n + (i - n) = i BY <2>6, <2>8, <3>2
      <4>2. left[i - n] = list[i] /\ i - n \in 1..Len(left) BY <2>6, <4>1
      <4>3. QED BY <2>7, <4>2 DEF Got
    <3>3. QED BY <3>1, <3>2
  <2>15. Got(taken, seq) BY <2>3, <2>14
  <2>16. ASSUME NEW k \in Nat, Got(s, k) PROVE Got(taken, k)
    <3>1. CASE k < s.recvSeq
      <4>1. k < m + n BY <1>5, <2>6, <3>1 DEF m
      <4>2. QED BY <2>9, <4>1 DEF Got
    <3>2. CASE ~(k < s.recvSeq)
      <4>1. PICK j \in 1..Len(s.pending) : s.pending[j].seq = k BY <2>16, <3>2 DEF Got
      <4>2. PICK i \in 1..L : list[i] = s.pending[j] BY <2>3 DEF q
      <4>3. QED BY <2>14, <4>1, <4>2
    <3>3. QED BY <3>1, <3>2
  <2>17. Old(s) => Old(taken)
    <3>1. s.recvSeq \in Nat /\ taken.recvSeq = s.recvSeq + n /\ taken.recvSeq < SeqSpace
      BY <1>5, <2>9 DEF m
    <3>2. QED BY <2>6, <2>7, <3>1, OldMoves
  <2>18. taken.recvSeq = s.recvSeq + Len(taken.up) BY <2>9, <2>10 DEF m
  <2>19. QED BY <2>7, <2>10, <2>12, <2>13, <2>15, <2>16, <2>17, <2>18 DEF Took
<1> HIDE DEF taken, check, r
<1>9. CASE r = s1 BY <1>4, <1>7, <1>9 DEF Answers, r
<1>10. CASE check = "answer" /\ r = answered
  <2>1. Old(s) /\ B <= SeqSpace - Behind => Got(answered, seq)
    <3> SUFFICES ASSUME Old(s), B <= SeqSpace - Behind PROVE Got(answered, seq) OBVIOUS
    <3> HIDE DEF q, m
    <3>1. RecvInv(s1, B) /\ Old(s1) BY <1>4, <1>5 DEF RecvInv, Old, m
    <3>2. CheckRxSeqNum(s1, seq, header) = "answer" BY <1>10 DEF check
    <3>3. Got(s1, seq) BY <1>1, <3>1, <3>2, AnsweredIsGot
    <3>4. QED BY <1>4, <1>6, <3>3 DEF Got
  <2>2. QED BY <1>3, <1>6, <1>7, <1>10, <2>1 DEF Answers, r, f
<1>11. CASE check = "take" /\ r = taken BY <1>3, <1>8, <1>11 DEF Answers, r, f
<1>12. QED BY <1>2, <1>9, <1>10, <1>11

-----------------------------------------------------------------------------
(***************************************************************************)
(* Reassembly.  What the fold over the chunks and the flattening of the    *)
(* messages compute is found out by looking at a counterexample of least   *)
(* length.                                                                 *)
(***************************************************************************)

\* The fold that puts chunks together, as a function of the set of chunks
\* that have been looked at.
FoldFun(base, q) ==
    CHOOSE g : g = [s \in SUBSET (DOMAIN q) |->
                      IF s = {} THEN base
                      ELSE BufferReceive(g[s \ {Max(s)}], q[Max(s)])]

\* The equation that defines it.
IsFold(g, base, q) ==
    g = [s \in SUBSET (1..Len(q)) |->
           IF s = {} THEN base ELSE BufferReceive(g[s \ {Max(s)}], q[Max(s)])]

\* The function exists: a counterexample of least length would be one chunk
\* longer than a function that does.
LEMMA FoldExists ==
    ASSUME NEW base, NEW S, NEW q \in Seq(S)
    PROVE  IsFold(FoldFun(base, q), base, q)
<1> DEFINE L == Len(q)
<1> DEFINE E(n) == \E g : g = [s \in SUBSET (1..n) |->
                      IF s = {} THEN base
                      ELSE BufferReceive(g[s \ {Max(s)}], q[Max(s)])]
<1> DEFINE Bad == {n \in 0..L : ~E(n)}
<1>1. L \in Nat /\ DOMAIN q = 1..L BY LenProperties
<1>2. E(L)
  <2> SUFFICES ASSUME ~E(L) PROVE FALSE OBVIOUS
  <2> DEFINE m == Min(Bad)
  <2> HIDE DEF E
  <2>1. Bad \in SUBSET Nat /\ L \in Bad BY <1>1
  <2>2. m \in Bad /\ \A n \in Bad : m <= n BY <2>1, LeastNat
  <2>3. m \in 0..L /\ ~E(m) BY <2>2
  <2> HIDE DEF m
  <2>4. m # 0
    <3> SUFFICES ASSUME m = 0 PROVE FALSE OBVIOUS
    <3> DEFINE g == [s \in SUBSET (1..0) |-> base]
    <3>1. 1..0 = {} OBVIOUS
    <3>2. g = [s \in SUBSET (1..0) |->
                  IF s = {} THEN base
                  ELSE BufferReceive(g[s \ {Max(s)}], q[Max(s)])]
      BY <3>1
    <3>3. E(0) BY <3>2 DEF E
    <3>4. QED BY <2>3, <3>3
  <2>5. m - 1 \in 0..L /\ m - 1 < m BY <1>1, <2>3, <2>4
  <2>6. E(m - 1)
    <3>1. m - 1 \notin Bad BY <2>2, <2>3, <2>5 DEF m
    <3>2. QED BY <2>5, <3>1
  <2>7. PICK g : g = [s \in SUBSET (1..m - 1) |->
                      IF s = {} THEN base
                      ELSE BufferReceive(g[s \ {Max(s)}], q[Max(s)])]
    BY <2>6 DEF E
  <2> DEFINE h == [s \in SUBSET (1..m) |->
                      IF m \in s THEN BufferReceive(g[s \ {m}], q[m]) ELSE g[s]]
  <2>8. ASSUME NEW s \in SUBSET (1..m)
        PROVE  h[s] = IF s = {} THEN base
                      ELSE BufferReceive(h[s \ {Max(s)}], q[Max(s)])
    <3>1. CASE m \in s
      <4>1. Max(s) = m
        <5>1. \A x \in s : x \in Int /\ x <= m BY <2>3
        <5>2. m \in Int /\ \A y \in s : m >= y BY <2>3, <5>1
        <5>3. \A x \in s : (\A y \in s : x >= y) => x = m BY <3>1, <5>1, <5>2
        <5>4. QED BY <3>1, <5>2, <5>3 DEF Max
      <4>2. s \ {m} \in SUBSET (1..m) /\ m \notin s \ {m} BY <3>1
      <4>3. s \ {m} \in SUBSET (1..m - 1) BY <2>3
      <4>4. h[s \ {m}] = g[s \ {m}] BY <4>2
      <4>5. h[s] = BufferReceive(g[s \ {m}], q[m]) BY <3>1
      <4>6. QED BY <3>1, <4>1, <4>4, <4>5
    <3>2. CASE m \notin s
      <4>1. s \in SUBSET (1..m - 1) BY <2>3, <3>2
      <4>2. h[s] = g[s] BY <3>2
      <4>3. g[s] = IF s = {} THEN base ELSE BufferReceive(g[s \ {Max(s)}], q[Max(s)])
        BY <2>7, <4>1
      <4>4. s \ {Max(s)} \in SUBSET (1..m) /\ m \notin s \ {Max(s)} BY <3>2
      <4>5. h[s \ {Max(s)}] = g[s \ {Max(s)}] BY <4>4
      <4>6. QED BY <4>2, <4>3, <4>5
    <3>3. QED BY <3>1, <3>2
  <2>9. h = [s \in SUBSET (1..m) |-> IF s = {} THEN base
                      ELSE BufferReceive(h[s \ {Max(s)}], q[Max(s)])]
    <3> HIDE DEF h
    <3>1. DOMAIN h = SUBSET (1..m) /\ h = [s \in SUBSET (1..m) |-> h[s]] BY DEF h
    <3>2. QED BY <2>8, <3>1
  <2>10. E(m) BY <2>9 DEF E
  <2>11. QED BY <2>3, <2>10
<1>3. QED BY <1>1, <1>2 DEF FoldFun, IsFold

\* What the fold goes through, chunk by chunk.
LEMMA FoldSteps ==
    ASSUME NEW S, NEW s, s.up \in Seq(S)
    PROVE  \E g : /\ g[0] = [buffer |-> s.buffer, pdus |-> <<>>]
                  /\ \A m \in 1..Len(s.up) : g[m] = BufferReceive(g[m - 1], s.up[m])
                  /\ Reassemble(s) = g[Len(s.up)]
<1> DEFINE base == [buffer |-> s.buffer, pdus |-> <<>>]
<1> DEFINE q == s.up
<1>0. Reassemble(s) = FoldLeft(BufferReceive, base, q) BY DEF Reassemble
<1> HIDE DEF base, q
<1>8. q \in Seq(S) BY DEF q
<1> DEFINE L == Len(q)
<1> DEFINE F == FoldFun(base, q)
<1> DEFINE g == [m \in 0..L |-> F[1..m]]
<1>1. L \in Nat /\ DOMAIN q = 1..L BY <1>8, LenProperties
<1>2. F = [x \in SUBSET (1..L) |-> IF x = {} THEN base
                      ELSE BufferReceive(F[x \ {Max(x)}], q[Max(x)])]
  <2>1. IsFold(F, base, q) BY <1>8, FoldExists
  <2>2. QED BY <2>1 DEF IsFold
<1>3. FoldLeft(BufferReceive, base, q) = F[DOMAIN q]
  BY DEF FoldLeft, MapThenFoldSet, FoldFun
<1> HIDE DEF F
<1>4. g[0] = base
  <2>1. 1..0 = {} OBVIOUS
  <2>2. F[{}] = base BY <1>2
  <2>3. QED BY <1>1, <2>1, <2>2
<1>5. ASSUME NEW m \in 1..L PROVE g[m] = BufferReceive(g[m - 1], q[m])
  <2>1. m - 1 \in 0..L /\ m \in 0..L /\ m \in Int BY <1>1
  <2>2. 1..m \in SUBSET (1..L) /\ 1..m # {}
    <3>1. m \in 1..m BY <2>1
    <3>2. \A x \in 1..m : x \in 1..L BY <1>1
    <3>3. QED BY <3>1, <3>2
  <2>3. Max(1..m) = m BY DEF Max
  <2>4. (1..m) \ {m} = 1..m - 1 BY <2>1
  <2>5. F[1..m] = BufferReceive(F[1..m - 1], q[m]) BY <1>2, <2>2, <2>3, <2>4
  <2>6. QED BY <2>1, <2>5
<1>6. g[L] = F[1..L] BY <1>1
<1>7. Reassemble(s) = g[L] BY <1>0, <1>1, <1>3, <1>6
<1> HIDE DEF g
<1>9. QED BY Zenon, <1>4, <1>5, <1>7 DEF base, q, L

\* The elements of a flattened sequence, likewise.
FlatFun(q) == CHOOSE g : g = [i \in 1..Len(q) |-> IF i = 1 THEN q[i] ELSE g[i - 1] \o q[i]]

\* The function exists.
LEMMA FlatExists ==
    ASSUME NEW S, NEW q \in Seq(S)
    PROVE  FlatFun(q) = [i \in 1..Len(q) |-> IF i = 1 THEN q[i] ELSE FlatFun(q)[i - 1] \o q[i]]
<1> DEFINE L == Len(q)
<1> DEFINE E(n) == \E g : g = [i \in 1..n |-> IF i = 1 THEN q[i] ELSE g[i - 1] \o q[i]]
<1> DEFINE Bad == {n \in 0..L : ~E(n)}
<1>1. L \in Nat BY LenProperties
<1>2. E(L)
  <2> SUFFICES ASSUME ~E(L) PROVE FALSE OBVIOUS
  <2> DEFINE m == Min(Bad)
  <2> HIDE DEF E
  <2>1. Bad \in SUBSET Nat /\ L \in Bad BY <1>1
  <2>2. m \in Bad /\ \A n \in Bad : m <= n BY <2>1, LeastNat
  <2>3. m \in 0..L /\ ~E(m) BY <2>2
  <2> HIDE DEF m
  <2>4. m # 0
    <3> DEFINE g == [i \in 1..0 |-> q[i]]
    <3>1. 1..0 = {} OBVIOUS
    <3>2. g = [i \in 1..0 |-> IF i = 1 THEN q[i] ELSE g[i - 1] \o q[i]] BY <3>1
    <3>3. E(0) BY <3>2 DEF E
    <3>4. QED BY <2>3, <3>3
  <2>5. m - 1 \in 0..L /\ m - 1 < m BY <1>1, <2>3, <2>4
  <2>6. E(m - 1)
    <3>1. m - 1 \notin Bad BY <2>2, <2>3, <2>5 DEF m
    <3>2. QED BY <2>5, <3>1
  <2>7. PICK g : g = [i \in 1..m - 1 |-> IF i = 1 THEN q[i] ELSE g[i - 1] \o q[i]]
    BY <2>6 DEF E
  <2> DEFINE h == [i \in 1..m |-> IF i = 1 THEN q[i] ELSE g[i - 1] \o q[i]]
  <2>8. ASSUME NEW i \in 1..m PROVE h[i] = IF i = 1 THEN q[i] ELSE h[i - 1] \o q[i]
    <3> SUFFICES ASSUME i # 1 PROVE h[i - 1] = g[i - 1] OBVIOUS
    <3>1. i - 1 \in 1..m - 1 /\ i - 1 \in 1..m BY <2>3
    <3>2. g[i - 1] = IF i - 1 = 1 THEN q[i - 1] ELSE g[i - 1 - 1] \o q[i - 1] BY <2>7, <3>1
    <3>3. QED BY <3>1, <3>2
  <2>9. h = [i \in 1..m |-> IF i = 1 THEN q[i] ELSE h[i - 1] \o q[i]]
    <3> HIDE DEF h
    <3>1. h = [i \in 1..m |-> h[i]] BY DEF h
    <3>2. QED BY <2>8, <3>1
  <2>10. E(m) BY <2>9 DEF E
  <2>11. QED BY <2>3, <2>10
<1>3. QED BY <1>2 DEF FlatFun

\* A flattened sequence has the elements of its elements.
LEMMA FlattenRange ==
    ASSUME NEW S, NEW q \in Seq(Seq(S)), NEW x
    PROVE  x \in Range(FlattenSeq(q)) <=> \E i \in 1..Len(q) : x \in Range(q[i])
<1> DEFINE L == Len(q)
<1>1. L \in Nat /\ \A i \in 1..L : q[i] \in Seq(S) BY LenProperties
<1>2. CASE L = 0
  <2>1. q = <<>> BY <1>2, EmptySeq
  <2>2. FlattenSeq(q) = <<>> BY <1>2, <2>1 DEF FlattenSeq
  <2>3. QED BY <1>2, <2>2 DEF Range
<1>3. CASE L # 0
  <2> DEFINE F == FlatFun(q)
  <2> DEFINE Ok(n) == /\ F[n] \in Seq(S)
                      /\ x \in Range(F[n]) <=> \E i \in 1..n : x \in Range(q[i])
  <2> DEFINE Bad == {n \in 1..L : ~Ok(n)}
  <2>1. F = [i \in 1..L |-> IF i = 1 THEN q[i] ELSE F[i - 1] \o q[i]] BY FlatExists
  <2>2. FlattenSeq(q) = F[L] BY <1>3 DEF FlattenSeq, FlatFun
  <2> HIDE DEF F
  <2>3. Ok(L)
    <3> SUFFICES ASSUME ~Ok(L) PROVE FALSE OBVIOUS
    <3> DEFINE m == Min(Bad)
    <3> HIDE DEF Ok
    <3>1. Bad \in SUBSET Nat /\ L \in Bad BY <1>1, <1>3
    <3>2. m \in Bad /\ \A n \in Bad : m <= n BY <3>1, LeastNat
    <3>3. m \in 1..L /\ ~Ok(m) BY <3>2
    <3> HIDE DEF m
    <3>4. m # 1
      <4>1. F[1] = q[1] /\ 1 \in 1..L BY <1>1, <1>3, <2>1
      <4>2. Ok(1) BY <1>1, <4>1 DEF Ok
      <4>3. QED BY <3>3, <4>2
    <3>5. m - 1 \in 1..L /\ m - 1 < m BY <1>1, <3>3, <3>4
    <3>6. Ok(m - 1)
      <4>1. m - 1 \notin Bad BY <3>2, <3>3, <3>5 DEF m
      <4>2. QED BY <3>5, <4>1
    <3>7. F[m] = F[m - 1] \o q[m] BY <2>1, <3>3, <3>4
    <3>8. F[m - 1] \in Seq(S) /\ q[m] \in Seq(S) BY <1>1, <3>3, <3>6 DEF Ok
    <3>9. F[m] \in Seq(S) /\ Range(F[m]) = Range(F[m - 1]) \cup Range(q[m])
      <4>1. \A u, v \in Seq(S) : u \o v \in Seq(S) /\ Range(u \o v) = Range(u) \cup Range(v)
        BY RangeConcatenation, ConcatProperties
      <4>2. QED BY <3>7, <3>8, <4>1
    <3>10. \A i : i \in 1..m <=> i \in 1..m - 1 \/ i = m BY <3>3
    <3>11. x \in Range(F[m - 1]) <=> \E i \in 1..m - 1 : x \in Range(q[i]) BY <3>6 DEF Ok
    <3>12. x \in Range(F[m]) <=> \E i \in 1..m : x \in Range(q[i])
      BY <3>9, <3>10, <3>11, Zenon
    <3>13. QED BY <3>3, <3>9, <3>12 DEF Ok
  <2>4. QED BY <2>2, <2>3
<1>4. QED BY <1>2, <1>3

-----------------------------------------------------------------------------
(* Messages and their chunks.                                              *)

\* How many chunks the first i messages have: the position of the last one.
After(ms, i) == IF i = 0 THEN 0 ELSE Last(ms[i])

Total(ms) == After(ms, Len(ms))

\* Each message goes on where the one before it ended.
Consecutive(ms) ==
    /\ ms \in Seq(Seq(Nat) \ {<<>>})
    /\ \A i \in 0..Len(ms) : After(ms, i) \in Nat
    /\ \A i \in 1..Len(ms) : /\ After(ms, i - 1) < After(ms, i)
                             /\ ms[i] = Pdu(After(ms, i - 1), After(ms, i) - After(ms, i - 1))

\* The chunks of these messages, numbered from 0.
ChunksOf(ms) ==
    {c \in ChunkSet : /\ c.seq < Total(ms) /\ c.data = c.seq + 1
                      /\ c.last <=> \E i \in 1..Len(ms) : After(ms, i) = c.data}

\* The first n chunks of ms have become the messages rs and the buffer.
Assembled(ms, rs, buffer, n) ==
    /\ n \in Nat /\ n <= Total(ms)
    /\ \E k \in 0..Len(ms) :
         /\ rs = SubSeq(ms, 1, k) /\ After(ms, k) <= n
         /\ k < Len(ms) => n < After(ms, k + 1)
         /\ buffer = Pdu(After(ms, k), n - After(ms, k))

\* A piece of the chunks in a row.
LEMMA PduFacts ==
    ASSUME NEW a \in Nat, NEW k \in Nat
    PROVE  /\ Pdu(a, k) \in Seq(Nat) /\ Len(Pdu(a, k)) = k
           /\ \A i \in 1..k : Pdu(a, k)[i] = a + i
           /\ k = 0 => Pdu(a, k) = <<>>
           /\ Append(Pdu(a, k), a + k + 1) = Pdu(a, k + 1)
           /\ k > 0 => Pdu(a, k) # <<>> /\ Last(Pdu(a, k)) = a + k
<1> DEFINE u == Pdu(a, k)
<1> DEFINE v == Pdu(a, k + 1)
<1>1. \A j \in Nat : Pdu(a, j) \in [1..j -> Nat] /\ \A i \in 1..j : Pdu(a, j)[i] = a + i
  BY DEF Pdu
<1>2. \A j \in Nat : Pdu(a, j) \in Seq(Nat) /\ DOMAIN Pdu(a, j) = 1..j BY <1>1, SeqDef
<1>3. \A j \in Nat : Len(Pdu(a, j)) = j BY <1>2, LenProperties
<1>4. k + 1 \in Nat /\ a + k + 1 \in Nat /\ k + 1 \in 1..k + 1 /\ a + (k + 1) = a + k + 1
  OBVIOUS
<1>5. /\ u \in Seq(Nat) /\ Len(u) = k /\ \A i \in 1..k : u[i] = a + i
      /\ v \in Seq(Nat) /\ Len(v) = k + 1 /\ \A i \in 1..k + 1 : v[i] = a + i
  BY <1>1, <1>2, <1>3, <1>4
<1> HIDE DEF u, v
<1>6. Append(u, a + k + 1) = v
  <2> DEFINE w == Append(u, a + k + 1)
  <2>1. /\ w \in Seq(Nat) /\ Len(w) = k + 1 /\ \A i \in 1..k : w[i] = u[i]
        /\ w[k + 1] = a + k + 1
    BY <1>4, <1>5, AppendProperties
  <2>2. ASSUME NEW i \in 1..Len(w) PROVE w[i] = v[i]
    <3>1. i \in 1..k \/ i = k + 1 BY <2>1
    <3>2. v[k + 1] = a + k + 1 BY <1>4, <1>5
    <3>3. \A x \in 1..k : x \in 1..k + 1 OBVIOUS
    <3>4. QED BY <1>5, <2>1, <3>1, <3>2, <3>3
  <2> HIDE DEF w
  <2>3. QED BY <1>5, <2>1, <2>2, SeqEqual DEF w
<1>7. k = 0 => u = <<>> BY <1>5, EmptySeq
<1>8. k > 0 => u # <<>> /\ Last(u) = a + k
  <2> SUFFICES ASSUME k > 0 PROVE u # <<>> /\ Last(u) = a + k OBVIOUS
  <2>1. k \in 1..k BY SMT
  <2>2. u # <<>> BY <1>5, EmptySeq
  <2>3. QED BY <1>5, <2>1, <2>2 DEF Last
<1>9. QED BY <1>5, <1>6, <1>7, <1>8 DEF u, v

\* Later messages end later.
LEMMA AfterRises ==
    ASSUME NEW ms, Consecutive(ms), NEW i \in 0..Len(ms), NEW j \in 0..Len(ms), i < j
    PROVE  After(ms, i) < After(ms, j)
<1> DEFINE L == Len(ms)
<1>1. L \in Nat BY LenProperties DEF Consecutive
<1>2. /\ \A x \in 0..L : After(ms, x) \in Nat
      /\ \A x \in 1..L : After(ms, x - 1) < After(ms, x)
  BY DEF Consecutive
<1> DEFINE bad == {x \in 0..L : i < x /\ ~(After(ms, i) < After(ms, x))}
<1> SUFFICES ASSUME j \in bad PROVE FALSE OBVIOUS
<1> HIDE DEF L
<1>3. bad \in SUBSET Nat /\ bad # {} BY <1>1
<1> DEFINE x == Min(bad)
<1>4. x \in bad /\ \A y \in bad : x <= y BY <1>3, LeastNat
<1> HIDE DEF x
<1>5. x \in 0..L /\ i < x /\ ~(After(ms, i) < After(ms, x)) BY <1>4
<1>6. i \in Nat /\ x \in 1..L /\ x - 1 \in 0..L /\ ~(x <= x - 1) BY <1>1, <1>5 DEF L
<1>7. After(ms, x - 1) < After(ms, x) /\ After(ms, x - 1) \in Nat /\ After(ms, x) \in Nat
  BY <1>2, <1>5, <1>6
<1>8. After(ms, i) \in Nat BY <1>2 DEF L
<1>9. CASE x - 1 = i BY <1>5, <1>7, <1>9
<1>10. CASE x - 1 # i
  <2>1. i < x - 1 BY <1>5, <1>6, <1>10
  <2>2. x - 1 \notin bad BY <1>4, <1>6
  <2>3. After(ms, i) < After(ms, x - 1) BY <1>6, <2>1, <2>2
  <2>4. QED BY <1>5, <1>7, <1>8, <2>3
<1>11. QED BY <1>9, <1>10

\* One more of a prefix.
LEMMA PrefixGrows ==
    ASSUME NEW S, NEW ms \in Seq(S), NEW k \in Nat, k + 1 \in 1..Len(ms)
    PROVE  Append(SubSeq(ms, 1, k), ms[k + 1]) = SubSeq(ms, 1, k + 1)
<1> DEFINE x == Append(SubSeq(ms, 1, k), ms[k + 1])
<1> DEFINE y == SubSeq(ms, 1, k + 1)
<1>1. Len(ms) \in Nat /\ \A i \in 1..Len(ms) : ms[i] \in S BY LenProperties
<1>2. ASSUME NEW j \in Nat, j <= Len(ms)
      PROVE  /\ SubSeq(ms, 1, j) \in Seq(S) /\ Len(SubSeq(ms, 1, j)) = j
             /\ \A i \in 1..j : SubSeq(ms, 1, j)[i] = ms[i]
  <2>1. \A i \in 1..j : ms[i] \in S BY <1>1, <1>2
  <2>2. /\ SubSeq(ms, 1, j) \in Seq(S)
        /\ Len(SubSeq(ms, 1, j)) = IF 1 <= j THEN j - 1 + 1 ELSE 0
        /\ \A i \in 1..j - 1 + 1 : SubSeq(ms, 1, j)[i] = ms[1 + i - 1]
    BY <2>1, SubSeqProperties
  <2>3. \A i \in 1..j : i \in 1..j - 1 + 1 /\ 1 + i - 1 = i OBVIOUS
  <2>4. (IF 1 <= j THEN j - 1 + 1 ELSE 0) = j OBVIOUS
  <2>5. QED BY <2>2, <2>3, <2>4
<1>3. k <= Len(ms) /\ k + 1 \in Nat /\ k + 1 <= Len(ms) BY <1>1
<1>4. /\ x \in Seq(S) /\ Len(x) = k + 1 /\ x[k + 1] = ms[k + 1]
      /\ \A i \in 1..k : x[i] = ms[i]
  <2>1. /\ SubSeq(ms, 1, k) \in Seq(S) /\ Len(SubSeq(ms, 1, k)) = k
        /\ \A i \in 1..k : SubSeq(ms, 1, k)[i] = ms[i]
    BY <1>2, <1>3
  <2>2. ms[k + 1] \in S BY <1>1
  <2>3. QED BY <2>1, <2>2, AppendProperties
<1>5. /\ y \in Seq(S) /\ Len(y) = k + 1 /\ \A i \in 1..k + 1 : y[i] = ms[i] BY <1>2, <1>3
<1> HIDE DEF x, y
<1>6. \A i \in 1..k + 1 : x[i] = y[i]
  <2>1. \A i \in 1..k + 1 : i \in 1..k \/ i = k + 1 OBVIOUS
  <2>2. QED BY <1>4, <1>5, <2>1
<1>7. QED BY <1>4, <1>5, <1>6, SeqEqual DEF x, y

\* One more behind what is behind something else.
LEMMA AppendBehind ==
    ASSUME NEW S, NEW u \in Seq(S), NEW v \in Seq(S), NEW z \in S
    PROVE  u \o Append(v, z) = Append(u \o v, z) /\ u \o v \in Seq(S)
<1> DEFINE w == Append(v, z)
<1> DEFINE x == u \o w
<1> DEFINE o == u \o v
<1> DEFINE y == Append(o, z)
<1> DEFINE U == Len(u)
<1> DEFINE V == Len(v)
<1>1. U \in Nat /\ V \in Nat BY LenProperties
<1>2. w \in Seq(S) /\ Len(w) = V + 1 /\ w[V + 1] = z /\ \A i \in 1..V : w[i] = v[i]
  BY AppendProperties
<1>3. /\ o \in Seq(S) /\ Len(o) = U + V
      /\ \A i \in 1..U + V : o[i] = IF i <= U THEN u[i] ELSE v[i - U]
  BY ConcatProperties
<1> HIDE DEF w, o, U, V
<1>4. /\ x \in Seq(S) /\ Len(x) = U + (V + 1)
      /\ \A i \in 1..U + (V + 1) : x[i] = IF i <= U THEN u[i] ELSE w[i - U]
  <2>1. /\ x \in Seq(S) /\ Len(x) = Len(u) + Len(w)
        /\ \A i \in 1..Len(u) + Len(w) : x[i] = IF i <= Len(u) THEN u[i] ELSE w[i - Len(u)]
    BY <1>2, ConcatProperties
  <2>2. QED BY <1>2, <2>1 DEF U
<1>5. y \in Seq(S) /\ Len(y) = U + V + 1 /\ y[U + V + 1] = z /\ \A i \in 1..U + V : y[i] = o[i]
  BY <1>3, AppendProperties
<1> HIDE DEF x, y
<1>6. ASSUME NEW i \in 1..U + V + 1 PROVE x[i] = y[i]
  <2>1. i \in 1..U + (V + 1) /\ i \in Int BY <1>1
  <2>2. CASE i <= U
    <3>1. i \in 1..U + V BY <1>1, <2>2
    <3>2. QED BY <1>3, <1>4, <1>5, <2>1, <2>2, <3>1
  <2>3. CASE ~(i <= U) /\ i <= U + V
    <3>1. i \in 1..U + V /\ i - U \in 1..V BY <1>1, <2>3
    <3>2. x[i] = v[i - U] BY <1>2, <1>4, <2>1, <2>3, <3>1
    <3>3. QED BY <1>3, <1>5, <2>3, <3>1, <3>2
  <2>4. CASE i = U + V + 1
    <3>1. ~(i <= U) /\ i - U = V + 1 BY <1>1, <2>4
    <3>2. QED BY <1>2, <1>4, <1>5, <2>1, <2>4, <3>1
  <2>5. QED BY <1>1, <2>1, <2>2, <2>3, <2>4
<1>7. Len(x) = Len(y) BY <1>1, <1>4, <1>5
<1>8. QED BY <1>3, <1>4, <1>5, <1>6, <1>7, SeqEqual DEF x, y, w, o

\* Where the messages stand.
LEMMA AssembledAt ==
    ASSUME NEW ms, NEW rs, NEW buffer, NEW n \in Nat, n <= Total(ms), NEW k \in 0..Len(ms),
           rs = SubSeq(ms, 1, k), After(ms, k) <= n, k < Len(ms) => n < After(ms, k + 1),
           buffer = Pdu(After(ms, k), n - After(ms, k))
    PROVE  Assembled(ms, rs, buffer, n)
BY Zenon DEF Assembled

\* One more chunk in its turn.
LEMMA AssembleStep ==
    ASSUME NEW ms, Consecutive(ms), NEW rs \in Seq(Seq(Nat)), NEW ps \in Seq(Seq(Nat)),
           NEW buffer, NEW n, Assembled(ms, rs \o ps, buffer, n),
           NEW c \in ChunksOf(ms), c.seq = n
    PROVE  LET r == BufferReceive([buffer |-> buffer, pdus |-> ps], c) IN
           /\ r = [buffer |-> r.buffer, pdus |-> r.pdus] /\ r.pdus \in Seq(Seq(Nat))
           /\ Assembled(ms, rs \o r.pdus, r.buffer, n + 1)
<1> DEFINE L == Len(ms)
<1> DEFINE r == BufferReceive([buffer |-> buffer, pdus |-> ps], c)
<1> DEFINE b == Append(buffer, c.data)
<1>1. L \in Nat /\ ms \in Seq(Seq(Nat)) BY LenProperties DEF Consecutive
<1>2. n \in Nat /\ n <= Total(ms) BY DEF Assembled
<1>3. PICK k \in 0..L : /\ rs \o ps = SubSeq(ms, 1, k) /\ After(ms, k) <= n
                        /\ k < L => n < After(ms, k + 1)
                        /\ buffer = Pdu(After(ms, k), n - After(ms, k))
  BY DEF Assembled
<1> DEFINE a == After(ms, k)
<1>4. /\ \A i \in 0..L : After(ms, i) \in Nat
      /\ \A i \in 1..L : ms[i] = Pdu(After(ms, i - 1), After(ms, i) - After(ms, i - 1))
  BY DEF Consecutive
<1>5. /\ n < Total(ms) /\ c.data = n + 1
      /\ c.last <=> \E i \in 1..L : After(ms, i) = n + 1
  BY DEF ChunksOf
<1>6. Total(ms) = After(ms, L) BY DEF Total
<1> HIDE DEF L
<1>7. k < L /\ k + 1 \in 1..L /\ k + 1 \in 0..L /\ k \in Nat
  <2>1. a \in Nat /\ Total(ms) \in Nat BY <1>1, <1>4, <1>6
  <2>2. k # L BY <1>2, <1>3, <1>5, <1>6, <2>1
  <2>3. QED BY <1>1, <2>2
<1>8. a \in Nat /\ n - a \in Nat /\ After(ms, k + 1) \in Nat /\ n + 1 - a = n - a + 1
  BY <1>2, <1>3, <1>4, <1>7
<1>9. b = Pdu(a, n + 1 - a)
  <2> DEFINE x == n - a
  <2>1. x \in Nat /\ a + x + 1 = n + 1 BY <1>2, <1>8
  <2> HIDE DEF x, a
  <2>2. Append(Pdu(a, x), a + x + 1) = Pdu(a, x + 1) BY <1>8, <2>1, PduFacts
  <2>3. QED BY <1>3, <1>5, <1>8, <2>1, <2>2 DEF x, a
<1>10. n + 1 \in Nat /\ n + 1 <= Total(ms)
  <2>1. Total(ms) \in Nat BY <1>1, <1>4, <1>6
  <2>2. QED BY <1>2, <1>5, <2>1
<1>11. CASE c.last
  <2>1. r = [buffer |-> <<>>, pdus |-> Append(ps, b)] BY <1>11 DEF BufferReceive
  <2>2. After(ms, k + 1) = n + 1
    <3>1. PICK i \in 1..L : After(ms, i) = n + 1 BY <1>5, <1>11
    <3>2. i \in 0..L /\ i \in Nat BY <1>1
    <3>3. CASE i < k + 1
      <4>1. i <= k BY <1>7, <3>2, <3>3
      <4>2. i = k \/ After(ms, i) < a
        <5>1. i = k \/ i < k BY <1>7, <3>2, <4>1
        <5>2. QED BY <3>2, <5>1, AfterRises DEF L
      <4>3. QED BY <1>2, <1>3, <1>8, <3>1, <4>2
    <3>4. CASE i > k + 1
      <4>1. k + 1 < i BY <1>7, <3>2, <3>4
      <4>2. After(ms, k + 1) < After(ms, i) BY <1>7, <3>2, <4>1, AfterRises DEF L
      <4>3. QED BY <1>2, <1>3, <1>7, <1>8, <3>1, <4>2
    <3>5. QED BY <1>7, <3>1, <3>2, <3>3, <3>4
  <2>3. ms[k + 1] = b
    <3>1. ms[k + 1] = Pdu(After(ms, k + 1 - 1), After(ms, k + 1) - After(ms, k + 1 - 1))
      BY <1>4, <1>7
    <3>2. k + 1 - 1 = k BY <1>7
    <3> HIDE DEF b
    <3>3. After(ms, k + 1 - 1) = a BY <3>2
    <3> HIDE DEF a
    <3>5. ms[k + 1] = Pdu(a, n + 1 - a) BY <1>2, <1>8, <2>2, <3>1, <3>3
    <3>4. QED BY <1>9, <3>5
  <2> HIDE DEF b, a, r
  <2>4. b \in Seq(Nat) /\ ms[k + 1] \in Seq(Nat)
    <3>1. \A i \in 1..L : ms[i] \in Seq(Nat) BY <1>1, LenProperties DEF L
    <3>2. QED BY <1>7, <2>3, <3>1
  <2>5. Append(ps, b) \in Seq(Seq(Nat)) BY <2>4, AppendProperties
  <2>6. rs \o Append(ps, b) = SubSeq(ms, 1, k + 1)
    <3>1. rs \o Append(ps, b) = Append(rs \o ps, b) BY <2>4, AppendBehind
    <3>2. Append(SubSeq(ms, 1, k), ms[k + 1]) = SubSeq(ms, 1, k + 1)
      BY <1>1, <1>7, PrefixGrows DEF L
    <3>3. QED BY <1>3, <2>3, <3>1, <3>2
  <2>7. n + 1 - After(ms, k + 1) = 0 BY <1>2, <2>2
  <2>8. <<>> = Pdu(After(ms, k + 1), n + 1 - After(ms, k + 1))
    <3> DEFINE x == After(ms, k + 1)
    <3>1. x \in Nat /\ 0 \in Nat BY <1>8
    <3> HIDE DEF x
    <3>2. Pdu(x, 0) = <<>> BY <3>1, PduFacts
    <3>3. QED BY <2>7, <3>2 DEF x
  <2>9. k + 1 < L => n + 1 < After(ms, k + 1 + 1)
    <3> SUFFICES ASSUME k + 1 < L PROVE n + 1 < After(ms, k + 1 + 1) OBVIOUS
    <3>1. k + 1 + 1 \in 0..L /\ k + 1 < k + 1 + 1 BY <1>1, <1>7
    <3>2. After(ms, k + 1) < After(ms, k + 1 + 1) BY <1>7, <3>1, AfterRises DEF L
    <3>3. QED BY <2>2, <3>2
  <2>10. After(ms, k + 1) <= n + 1 BY <1>2, <2>2
  <2>11. Assembled(ms, rs \o Append(ps, b), <<>>, n + 1)
    <3> DEFINE j == k + 1
    <3> DEFINE n1 == n + 1
    <3> DEFINE x == rs \o Append(ps, b)
    <3>1. /\ n1 \in Nat /\ n1 <= Total(ms) /\ j \in 0..Len(ms)
          /\ x = SubSeq(ms, 1, j) /\ After(ms, j) <= n1
          /\ j < Len(ms) => n1 < After(ms, j + 1)
          /\ <<>> = Pdu(After(ms, j), n1 - After(ms, j))
      BY <1>1, <1>2, <1>7, <1>8, <1>10, <2>6, <2>8, <2>9, <2>10 DEF L
    <3> HIDE DEF j, n1, x
    <3>2. Assembled(ms, x, <<>>, n1) BY <3>1, AssembledAt
    <3>3. QED BY <3>2 DEF n1, x
  <2>12. r.buffer = <<>> /\ r.pdus = Append(ps, b) BY <2>1
  <2>13. r = [buffer |-> r.buffer, pdus |-> r.pdus] /\ r.pdus \in Seq(Seq(Nat))
    BY <2>1, <2>5, <2>12
  <2>14. QED BY <2>11, <2>12, <2>13 DEF r
<1>12. CASE ~c.last
  <2>1. r = [buffer |-> b, pdus |-> ps] BY <1>12 DEF BufferReceive
  <2>2. After(ms, k + 1) # n + 1 BY <1>5, <1>7, <1>12
  <2>3. n + 1 < After(ms, k + 1) BY <1>2, <1>3, <1>7, <1>8, <2>2
  <2>4. After(ms, k) <= n + 1 BY <1>2, <1>3, <1>8
  <2> HIDE DEF b, r
  <2>9. k \in 0..L /\ b = Pdu(After(ms, k), n + 1 - After(ms, k)) BY <1>9
  <2>5. Assembled(ms, rs \o ps, b, n + 1)
    <3> DEFINE n1 == n + 1
    <3> DEFINE x == rs \o ps
    <3>1. /\ n1 \in Nat /\ n1 <= Total(ms) /\ k \in 0..Len(ms)
          /\ x = SubSeq(ms, 1, k) /\ After(ms, k) <= n1
          /\ k < Len(ms) => n1 < After(ms, k + 1)
          /\ b = Pdu(After(ms, k), n1 - After(ms, k))
      BY <1>1, <1>2, <1>3, <1>8, <1>10, <2>3, <2>4, <2>9 DEF L
    <3> HIDE DEF n1, x
    <3>2. Assembled(ms, x, b, n1) BY <3>1, AssembledAt
    <3>3. QED BY <3>2 DEF n1, x
  <2>6. r.buffer = b /\ r.pdus = ps BY <2>1
  <2>7. r = [buffer |-> r.buffer, pdus |-> r.pdus] BY <2>1, <2>6
  <2>8. QED BY <2>5, <2>6, <2>7 DEF r
<1>13. QED BY <1>11, <1>12 DEF ChunksOf, ChunkSet

\* What a receiver passes up continues what H.245 has.
LEMMA Reassembled ==
    ASSUME NEW ms, Consecutive(ms), NEW rs \in Seq(Seq(Nat)), NEW s, NEW n \in Nat,
           Assembled(ms, rs, s.buffer, n), s.up \in Seq(ChunksOf(ms)),
           \A i \in 1..Len(s.up) : s.up[i].seq = n + i - 1
    PROVE  /\ Reassemble(s).pdus \in Seq(Seq(Nat))
           /\ Assembled(ms, rs \o Reassemble(s).pdus, Reassemble(s).buffer, n + Len(s.up))
<1> DEFINE U == Len(s.up)
<1> DEFINE base == [buffer |-> s.buffer, pdus |-> <<>>]
<1>1. U \in Nat /\ \A i \in 1..U : s.up[i] \in ChunksOf(ms) BY LenProperties
<1>2. PICK g : /\ g[0] = base
               /\ \A m \in 1..U : g[m] = BufferReceive(g[m - 1], s.up[m])
               /\ Reassemble(s) = g[U]
  BY Zenon, FoldSteps DEF base, U
<1> DEFINE Good(m) == /\ g[m] = [buffer |-> g[m].buffer, pdus |-> g[m].pdus]
                      /\ g[m].pdus \in Seq(Seq(Nat))
                      /\ Assembled(ms, rs \o g[m].pdus, g[m].buffer, n + m)
<1> DEFINE bad == {m \in 0..U : ~Good(m)}
<1>3. \A i \in 1..U : s.up[i].seq = n + i - 1 OBVIOUS
<1> HIDE DEF U
<1>4. Good(0)
  <2>1. g[0].buffer = s.buffer /\ g[0].pdus = <<>> BY <1>2
  <2>2. rs \o <<>> = rs /\ n + 0 = n BY ConcatEmptySeq
  <2>3. g[0] = [buffer |-> g[0].buffer, pdus |-> g[0].pdus] BY <1>2, <2>1
  <2>4. g[0].pdus \in Seq(Seq(Nat)) BY <2>1
  <2>5. QED BY <2>1, <2>2, <2>3, <2>4
<1>5. ASSUME NEW m \in 1..U, Good(m - 1) PROVE Good(m)
  <2> DEFINE h == g[m - 1]
  <2> DEFINE c == s.up[m]
  <2>1. m \in Nat /\ m - 1 \in Nat /\ n + (m - 1) = n + m - 1 /\ n + (m - 1) + 1 = n + m
    BY <1>1
  <2>2. c \in ChunksOf(ms) /\ c.seq = n + (m - 1) BY <1>1, <1>3, <2>1
  <2>3. /\ h = [buffer |-> h.buffer, pdus |-> h.pdus] /\ h.pdus \in Seq(Seq(Nat))
        /\ Assembled(ms, rs \o h.pdus, h.buffer, n + (m - 1))
    BY <1>5
  <2>4. g[m] = BufferReceive(h, c) BY <1>2
  <2> HIDE DEF h, c
  <2> DEFINE r == BufferReceive([buffer |-> h.buffer, pdus |-> h.pdus], c)
  <2>5. /\ r = [buffer |-> r.buffer, pdus |-> r.pdus] /\ r.pdus \in Seq(Seq(Nat))
        /\ Assembled(ms, rs \o r.pdus, r.buffer, n + (m - 1) + 1)
    BY <2>2, <2>3, AssembleStep
  <2>6. g[m] = r BY <2>3, <2>4
  <2> HIDE DEF r
  <2>7. QED BY <2>1, <2>5, <2>6
<1> HIDE DEF Good
<1>6. bad = {}
  <2> SUFFICES ASSUME bad # {} PROVE FALSE OBVIOUS
  <2>1. bad \in SUBSET Nat BY <1>1
  <2> DEFINE m == Min(bad)
  <2>2. m \in bad /\ \A y \in bad : m <= y BY <2>1, LeastNat
  <2> HIDE DEF m
  <2>3. m \in 0..U /\ ~Good(m) BY <2>2
  <2>4. m # 0 BY <1>4, <2>3
  <2>5. m \in 1..U /\ m - 1 \in 0..U /\ ~(m <= m - 1) BY <1>1, <2>3, <2>4
  <2>6. Good(m - 1) BY <2>2, <2>5
  <2>7. QED BY <1>5, <2>3, <2>5, <2>6
<1>7. Good(U)
  <2>1. U \in 0..U BY <1>1
  <2>2. QED BY <1>6, <2>1
<1>8. QED BY <1>2, <1>7 DEF Good, U

\* Prefixes of two sequences that agree that far.
LEMMA SamePrefix ==
    ASSUME NEW S, NEW u \in Seq(S), NEW v \in Seq(S), NEW j \in Nat,
           j <= Len(u), j <= Len(v), \A i \in 1..j : u[i] = v[i]
    PROVE  SubSeq(u, 1, j) = SubSeq(v, 1, j)
<1>1. ASSUME NEW w \in Seq(S), j <= Len(w)
      PROVE  /\ SubSeq(w, 1, j) \in Seq(S) /\ Len(SubSeq(w, 1, j)) = j
             /\ \A i \in 1..j : SubSeq(w, 1, j)[i] = w[i]
  <2>1. \A i \in 1..j : w[i] \in S BY <1>1, LenProperties
  <2>2. /\ SubSeq(w, 1, j) \in Seq(S)
        /\ Len(SubSeq(w, 1, j)) = IF 1 <= j THEN j - 1 + 1 ELSE 0
        /\ \A i \in 1..j - 1 + 1 : SubSeq(w, 1, j)[i] = w[1 + i - 1]
    BY <2>1, SubSeqProperties
  <2>3. \A i \in 1..j : i \in 1..j - 1 + 1 /\ 1 + i - 1 = i OBVIOUS
  <2>4. (IF 1 <= j THEN j - 1 + 1 ELSE 0) = j OBVIOUS
  <2>5. QED BY <2>2, <2>3, <2>4
<1> DEFINE x == SubSeq(u, 1, j)
<1> DEFINE y == SubSeq(v, 1, j)
<1>2. /\ x \in Seq(S) /\ Len(x) = j /\ \A i \in 1..j : x[i] = u[i] BY <1>1
<1>3. /\ y \in Seq(S) /\ Len(y) = j /\ \A i \in 1..j : y[i] = v[i] BY <1>1
<1> HIDE DEF x, y
<1>4. \A i \in 1..j : x[i] = y[i] BY <1>2, <1>3
<1>5. QED BY <1>2, <1>3, <1>4, SeqEqual DEF x, y

\* The messages before a new one stay where they are.
LEMMA MessageAdds ==
    ASSUME NEW ms, Consecutive(ms), NEW k \in Nat \ {0}
    PROVE  LET m == Append(ms, Pdu(Total(ms), k)) IN
           /\ Consecutive(m) /\ Total(ms) \in Nat /\ Total(m) = Total(ms) + k
           /\ ChunksOf(ms) \subseteq ChunksOf(m)
           /\ \A rs, buffer, n : Assembled(ms, rs, buffer, n) => Assembled(m, rs, buffer, n)
           /\ \A i \in 1..k : Total(ms) + k <= SeqSpace =>
                Chunk(Total(ms) + i - 1, Total(ms) + i, i = k) \in ChunksOf(m)
<1> DEFINE T == Total(ms)
<1> DEFINE L == Len(ms)
<1> DEFINE x == Pdu(T, k)
<1> DEFINE m == Append(ms, x)
<1>1. /\ ms \in Seq(Seq(Nat) \ {<<>>}) /\ L \in Nat
      /\ \A i \in 0..L : After(ms, i) \in Nat
      /\ \A i \in 1..L : /\ After(ms, i - 1) < After(ms, i)
                         /\ ms[i] = Pdu(After(ms, i - 1), After(ms, i) - After(ms, i - 1))
  BY LenProperties DEF Consecutive
<1>2. T = After(ms, L) /\ L \in 0..L /\ T \in Nat /\ k \in Nat /\ k > 0
  BY <1>1 DEF Total
<1>3. x \in Seq(Nat) \ {<<>>} /\ Last(x) = T + k
  <2> HIDE DEF T
  <2>1. x \in Seq(Nat) /\ x # <<>> /\ Last(x) = T + k BY <1>2, PduFacts
  <2>2. QED BY <2>1
<1> HIDE DEF T, x
<1>4. /\ m \in Seq(Seq(Nat) \ {<<>>}) /\ Len(m) = L + 1 /\ m[L + 1] = x
      /\ \A i \in 1..L : m[i] = ms[i]
  BY <1>1, <1>3, AppendProperties
<1> HIDE DEF m, L
<1>5. /\ \A i \in 0..L : After(m, i) = After(ms, i)
      /\ After(m, L + 1) = T + k
  <2>1. ASSUME NEW i \in 0..L PROVE After(m, i) = After(ms, i)
    <3>1. CASE i = 0 BY <3>1 DEF After
    <3>2. CASE i # 0
      <4>1. i \in 1..L BY <1>1, <3>2
      <4>2. m[i] = ms[i] BY <1>4, <4>1
      <4>3. QED BY <3>2, <4>2 DEF After
    <3>3. QED BY <3>1, <3>2
  <2>2. L + 1 # 0 BY <1>1
  <2>3. QED BY <1>3, <1>4, <2>1, <2>2 DEF After
<1>6. Consecutive(m)
  <2>1. ASSUME NEW i \in 0..L + 1 PROVE After(m, i) \in Nat
    <3>1. i \in 0..L \/ i = L + 1 BY <1>1
    <3>2. QED BY <1>1, <1>2, <1>5, <3>1
  <2>2. ASSUME NEW i \in 1..L + 1
        PROVE  /\ After(m, i - 1) < After(m, i)
               /\ m[i] = Pdu(After(m, i - 1), After(m, i) - After(m, i - 1))
    <3>1. CASE i \in 1..L
      <4>1. i \in 0..L /\ i - 1 \in 0..L BY <1>1, <3>1
      <4>2. After(m, i) = After(ms, i) /\ After(m, i - 1) = After(ms, i - 1) /\ m[i] = ms[i]
        BY <1>4, <1>5, <3>1, <4>1
      <4>3. QED BY <1>1, <3>1, <4>2
    <3>2. CASE i = L + 1
      <4>1. L + 1 - 1 = L BY <1>1
      <4>2. After(m, L) = T BY <1>2, <1>5
      <4>3. T + k - T = k /\ T < T + k BY <1>2
      <4>4. m[L + 1] = Pdu(T, k) BY <1>4 DEF x
      <4>5. i - 1 = L BY <1>1, <3>2, <4>1
      <4>6. After(m, i - 1) = T /\ After(m, i) = T + k /\ m[i] = Pdu(T, k)
        BY <1>5, <3>2, <4>2, <4>4, <4>5
      <4>7. QED BY <1>2, <4>3, <4>6
    <3>3. i \in 1..L \/ i = L + 1 BY <1>1
    <3>4. QED BY <3>1, <3>2, <3>3
  <2>3. QED BY <1>4, <2>1, <2>2 DEF Consecutive
<1>7. Total(m) = T + k BY <1>4, <1>5 DEF Total
<1>8. ASSUME NEW i \in 0..L PROVE After(ms, i) <= T
  <2>1. i = L \/ i < L BY <1>1
  <2>2. i < L => After(ms, i) < T BY <1>2, AfterRises DEF L
  <2>3. After(ms, i) \in Nat BY <1>1
  <2>4. QED BY <1>2, <2>1, <2>2, <2>3
<1>9. ASSUME NEW c \in ChunksOf(ms) PROVE c \in ChunksOf(m)
  <2>1. /\ c \in ChunkSet /\ c.seq < T /\ c.data = c.seq + 1
        /\ c.last <=> \E i \in 1..L : After(ms, i) = c.data
    BY DEF ChunksOf, L, T
  <2>2. c.seq \in Nat BY <2>1, SrpAssumption DEF ChunkSet
  <2>3. c.seq < T + k /\ c.data # T + k BY <1>2, <2>1, <2>2
  <2>4. (\E i \in 1..L : After(ms, i) = c.data) <=> \E i \in 1..L + 1 : After(m, i) = c.data
    <3>1. ASSUME NEW i \in 1..L, After(ms, i) = c.data
          PROVE  \E j \in 1..L + 1 : After(m, j) = c.data
      <4>1. i \in 0..L /\ i \in 1..L + 1 BY <1>1
      <4>2. QED BY <1>5, <3>1, <4>1
    <3>2. ASSUME NEW j \in 1..L + 1, After(m, j) = c.data
          PROVE  \E i \in 1..L : After(ms, i) = c.data
      <4>1. j # L + 1 BY <1>5, <2>3, <3>2
      <4>2. j \in 1..L /\ j \in 0..L BY <1>1, <4>1
      <4>3. QED BY <1>5, <3>2, <4>2
    <3>3. QED BY <3>1, <3>2
  <2>5. QED BY <1>4, <1>7, <2>1, <2>3, <2>4 DEF ChunksOf
<1>10. ASSUME NEW rs, NEW buffer, NEW n, Assembled(ms, rs, buffer, n)
       PROVE  Assembled(m, rs, buffer, n)
  <2>1. n \in Nat /\ n <= T BY <1>10 DEF Assembled, T
  <2>2. PICK j \in 0..L : /\ rs = SubSeq(ms, 1, j) /\ After(ms, j) <= n
                          /\ j < L => n < After(ms, j + 1)
                          /\ buffer = Pdu(After(ms, j), n - After(ms, j))
    BY <1>10 DEF Assembled, L
  <2>3. j \in 0..L + 1 /\ j \in Nat /\ n <= T + k BY <1>1, <1>2, <2>1
  <2>4. After(m, j) = After(ms, j) BY <1>5
  <2>5. SubSeq(m, 1, j) = SubSeq(ms, 1, j)
    <3>1. \A i \in 1..j : m[i] = ms[i]
      <4>1. \A i \in 1..j : i \in 1..L BY <1>1
      <4>2. QED BY <1>4, <4>1
    <3>2. j <= Len(m) /\ j <= Len(ms) BY <1>1, <1>4 DEF L
    <3>3. QED BY <1>1, <1>4, <2>3, <3>1, <3>2, SamePrefix
  <2>6. n < After(m, j + 1)
    <3>1. CASE j = L BY <1>2, <1>5, <2>1, <3>1
    <3>2. CASE j # L
      <4>1. j < L /\ j + 1 \in 0..L BY <1>1, <3>2
      <4>2. QED BY <1>5, <2>2, <4>1
    <3>3. QED BY <3>1, <3>2
  <2>7. QED BY <1>4, <1>7, <2>1, <2>2, <2>3, <2>4, <2>5, <2>6, AssembledAt
<1>11. ASSUME NEW i \in 1..k, T + k <= SeqSpace
       PROVE  Chunk(T + i - 1, T + i, i = k) \in ChunksOf(m)
  <2> DEFINE c == Chunk(T + i - 1, T + i, i = k)
  <2>1. i \in Nat /\ i > 0 /\ i <= k /\ SeqSpace \in Nat BY <1>2, SrpAssumption
  <2>2. T + i - 1 \in 0..SeqSpace - 1 /\ T + i \in Nat /\ T + i - 1 + 1 = T + i
    BY <1>2, <1>11, <2>1
  <2>3. c \in ChunkSet /\ c.seq = T + i - 1 /\ c.data = T + i /\ c.last = (i = k)
    BY <2>2 DEF Chunk, ChunkSet
  <2>4. c.seq < T + k /\ c.data = c.seq + 1 BY <1>2, <2>1, <2>2, <2>3
  <2>5. (i = k) <=> \E j \in 1..L + 1 : After(m, j) = T + i
    <3>1. ASSUME i = k PROVE \E j \in 1..L + 1 : After(m, j) = T + i
      <4>1. L + 1 \in 1..L + 1 BY <1>1
      <4>2. QED BY <1>5, <3>1, <4>1
    <3>2. ASSUME NEW j \in 1..L + 1, After(m, j) = T + i PROVE i = k
      <4>1. CASE j = L + 1 BY <1>2, <1>5, <2>1, <3>2, <4>1
      <4>2. CASE j # L + 1
        <5>1. j \in 0..L BY <1>1, <4>2
        <5>2. After(ms, j) <= T /\ After(ms, j) = T + i BY <1>5, <1>8, <3>2, <5>1
        <5>3. QED BY <1>2, <2>1, <5>2
      <4>3. QED BY <4>1, <4>2
    <3>3. QED BY <3>1, <3>2
  <2> HIDE DEF c
  <2>6. c \in ChunksOf(m) BY <1>4, <1>7, <2>3, <2>4, <2>5 DEF ChunksOf
  <2>7. QED BY <2>6 DEF c
<1>12. QED BY <1>2, <1>6, <1>7, <1>9, <1>10, <1>11 DEF m, x, T

-----------------------------------------------------------------------------
(* The wait queue, method by method.                                       *)

SameQueue(r, s) ==
    /\ DOMAIN r = Fields /\ r.queue = s.queue /\ r.sendSeq = s.sendSeq
    /\ r.useNSRP = s.useNSRP

\* Only chunks with the number n leave the queue.
Drops(r, s, n) ==
    /\ DOMAIN r = Fields /\ r.sendSeq = s.sendSeq /\ r.useNSRP = s.useNSRP
    /\ \A i \in 1..Len(s.queue) :
         s.queue[i].seq # n => \E j \in 1..Len(r.queue) : r.queue[j] = s.queue[i]

\* The fields of which the queue is none.
LEMMA QueueSets ==
    ASSUME NEW s, DOMAIN s = Fields, NEW v, NEW w
    PROVE  /\ SameQueue(s, s) /\ SameQueue([s EXCEPT !.save = v], s)
           /\ SameQueue([s EXCEPT !.active = v], s) /\ SameQueue([s EXCEPT !.tx = v], s)
           /\ SameQueue([s EXCEPT !.status = v], s) /\ SameQueue([s EXCEPT !.n402 = v], s)
           /\ SameQueue([s EXCEPT !.firstNSRPResp = v], s)
           /\ SameQueue([s EXCEPT !.handleWNSRP = v], s)
           /\ SameQueue([s EXCEPT !.wnsrp = v, !.active = w], s)
           /\ SameQueue([s EXCEPT !.wnsrp = v, !.save = w], s)
           /\ SameQueue([s EXCEPT !.wnsrp = v], s)
BY DEF SameQueue, Fields

\* Two methods in a row leave the queue alone.
LEMMA QueueTwice ==
    ASSUME NEW s, NEW r, NEW t, SameQueue(r, s), SameQueue(t, r)
    PROVE  SameQueue(t, s)
BY DEF SameQueue

\* Sending and stopping timers.
LEMMA PartsLeaveQueue ==
    ASSUME NEW s, DOMAIN s = Fields, NEW n
    PROVE  /\ SameQueue(SendSrpCommand(s), s) /\ SameQueue(SendWnsrpCommands(s, n), s)
           /\ SameQueue(FillWindow(s), s) /\ SameQueue(RemoveActiveWnsrpTimer(s, n), s)
           /\ \A f : SameQueue(LowerLayerTx(s, f), s)
<1>1. ASSUME NEW u, DOMAIN u = Fields, NEW f PROVE SameQueue(LowerLayerTx(u, f), u)
  BY <1>1, QueueSets DEF LowerLayerTx
<1>2. \A u : SameQueue(u, s) => DOMAIN u = Fields BY DEF SameQueue
<1>3. SameQueue(SendSrpCommand(s), s)
  <2> DEFINE f == SrpCommandCreate(Head(s.queue), "SRP_COMMAND")
  <2> DEFINE u == [s EXCEPT !.save = <<SrpT401Start(f)>>]
  <2>1. SendSrpCommand(s) = LowerLayerTx(u, <<f>>) BY DEF SendSrpCommand
  <2>2. SameQueue(u, s) BY QueueSets
  <2> HIDE DEF u, f
  <2>3. QED BY <1>1, <1>2, <2>1, <2>2, QueueTwice
<1>4. ASSUME NEW m PROVE SameQueue(SendWnsrpCommands(s, m), s)
  <2> DEFINE new == SubSeq(s.queue, Len(s.active) + 1, m)
  <2> DEFINE f == [i \in DOMAIN new |-> SrpCommandCreate(new[i], "WNSRP_COMMAND")]
  <2> DEFINE u == [s EXCEPT !.active = @ \o [i \in DOMAIN f |-> SrpT401Start(f[i])]]
  <2>1. SendWnsrpCommands(s, m) = LowerLayerTx(u, f) BY DEF SendWnsrpCommands
  <2>2. SameQueue(u, s) BY QueueSets
  <2> HIDE DEF u, f
  <2>3. QED BY <1>1, <1>2, <2>1, <2>2, QueueTwice
<1>5. SameQueue(FillWindow(s), s) BY <1>4 DEF FillWindow
<1>6. SameQueue(RemoveActiveWnsrpTimer(s, n), s) BY QueueSets DEF RemoveActiveWnsrpTimer
<1>7. QED BY <1>1, <1>3, <1>4, <1>5, <1>6

\* A message from above, once it is in the queue, and the next chunk.
LEMMA MessageLeavesQueue ==
    ASSUME NEW s, DOMAIN s = Fields
    PROVE  /\ SameQueue(Srp_0_1(s), s) /\ SameQueue(Srp_1_1(s), s)
           /\ SameQueue(SendNext(s), s)
<1>0. \A u, v : SameQueue(u, v) => DOMAIN u = Fields BY DEF SameQueue
<1>1. SameQueue(Srp_1_1(s), s) BY PartsLeaveQueue, QueueSets DEF Srp_1_1
<1>2. SameQueue(Srp_0_1(s), s)
  <2> DEFINE s1 == IF s.wnsrp = "WNSRP_FULL" THEN s ELSE SendSrpCommand(s)
  <2> DEFINE s2 == IF s.wnsrp = "NO_WNSRP" THEN s1 ELSE FillWindow(s1)
  <2>1. Srp_0_1(s) = [s2 EXCEPT !.status = "WAIT_RESPONSE"] BY DEF Srp_0_1
  <2>2. SameQueue(s1, s) BY PartsLeaveQueue, QueueSets
  <2> HIDE DEF s1
  <2>3. SameQueue(s2, s1) BY <1>0, <2>2, PartsLeaveQueue, QueueSets
  <2> HIDE DEF s2
  <2>4. DOMAIN s2 = Fields BY <1>0, <2>3
  <2>6. SameQueue([s2 EXCEPT !.status = "WAIT_RESPONSE"], s2) BY <2>4, QueueSets
  <2>5. QED BY <2>1, <2>2, <2>3, <2>6, QueueTwice
<1>3. SameQueue(SendNext(s), s)
  <2> DEFINE s1 == IF s.wnsrp = "WNSRP_FULL" \/ s.queue = <<>> THEN s ELSE SendSrpCommand(s)
  <2> DEFINE s2 == IF s.wnsrp = "NO_WNSRP" \/ Len(s.active) >= Len(s.queue)
                   THEN s1 ELSE SendWnsrpCommands(s1, Len(s.active) + 1)
  <2>1. SendNext(s) = IF s2.save = <<>> /\ s2.active = <<>>
                      THEN [s2 EXCEPT !.status = "IDLE"] ELSE s2
    BY DEF SendNext
  <2>2. SameQueue(s1, s) BY PartsLeaveQueue, QueueSets
  <2> HIDE DEF s1
  <2>3. SameQueue(s2, s1) BY <1>0, <2>2, PartsLeaveQueue, QueueSets
  <2> HIDE DEF s2
  <2>4. SameQueue(SendNext(s), s2) BY <1>0, <2>1, <2>3, QueueSets
  <2>5. QED BY <2>2, <2>3, <2>4, QueueTwice
<1>4. QED BY <1>1, <1>2, <1>3

\* A timeout.
LEMMA ResendLeavesQueue ==
    ASSUME NEW s, DOMAIN s = Fields, NEW i
    PROVE  SameQueue(Resend(s, i), s)
<1>1. ASSUME NEW u, SameQueue(u, s), NEW f PROVE SameQueue(LowerLayerTx(u, f), s)
  <2>1. DOMAIN u = Fields BY <1>1 DEF SameQueue
  <2>2. SameQueue(LowerLayerTx(u, f), u) BY <2>1, PartsLeaveQueue
  <2>3. QED BY <1>1, <2>2, QueueTwice
<1>2. CASE i = 0
  <2> DEFINE u == [s EXCEPT !.save[1].n400 = @ + 1]
  <2>1. Resend(s, i) = LowerLayerTx(u, <<s.save[1].pkt>>) BY <1>2 DEF Resend
  <2>2. SameQueue(u, s) BY QueueSets
  <2> HIDE DEF u
  <2>3. QED BY <1>1, <2>1, <2>2
<1>3. CASE i # 0
  <2> DEFINE u == [s EXCEPT !.active[i].n400 = @ + 1]
  <2>1. Resend(s, i) = LowerLayerTx(u, <<s.active[i].pkt>>) BY <1>3 DEF Resend
  <2>2. SameQueue(u, s) BY QueueSets
  <2> HIDE DEF u
  <2>3. QED BY <1>1, <2>1, <2>2
<1>4. QED BY <1>2, <1>3

\* What a frame does before it becomes an event.
LEMMA NoteLeavesQueue ==
    ASSUME NEW s, DOMAIN s = Fields, NEW frame \in FrameSet
    PROVE  SameQueue(SrpNoteFrame(s, frame), s)
<1>1. ASSUME NEW u, DOMAIN u = Fields, NEW new \in {"NO_WNSRP", "WNSRP_FULL"}
      PROVE  SameQueue(WnsrpStatusSet(u, new), u)
  BY <1>1, QueueSets DEF WnsrpStatusSet
<1>2. SameQueue(s, s) BY QueueSets
<1>3. SameQueue(CountN402(s), s) /\ DOMAIN CountN402(s) = Fields
  <2> DEFINE s1 == [s EXCEPT !.n402 = @ + 1]
  <2>1. SameQueue(s1, s) /\ DOMAIN s1 = Fields BY QueueSets
  <2>2. CountN402(s) = IF s.wnsrp # "WNSRP_TX" THEN s
                       ELSE IF s1.n402 < N402Max THEN s1 ELSE WnsrpStatusSet(s1, "NO_WNSRP")
    BY DEF CountN402
  <2> HIDE DEF s1
  <2>3. SameQueue(WnsrpStatusSet(s1, "NO_WNSRP"), s1) BY <1>1, <2>1
  <2>4. SameQueue(WnsrpStatusSet(s1, "NO_WNSRP"), s) BY <2>1, <2>3, QueueTwice
  <2>5. SameQueue(CountN402(s), s) BY <1>2, <2>1, <2>2, <2>4
  <2>6. QED BY <2>5 DEF SameQueue
<1>4. frame.header \in CommandHeader \cup ResponseHeader BY DEF FrameSet
<1>5. CASE frame.header = "SRP_COMMAND" BY <1>1, <1>2, <1>5 DEF SrpNoteFrame
<1>6. CASE frame.header = "SRP_RESPONSE" BY <1>3, <1>6 DEF SrpNoteFrame
<1>7. CASE frame.header = "NSRP_RESPONSE"
  <2> DEFINE s1 == CountN402(s)
  <2>1. SrpNoteFrame(s, frame) = [s1 EXCEPT !.firstNSRPResp = @ \/ s1.useNSRP]
    BY <1>7 DEF SrpNoteFrame
  <2>2. SameQueue(s1, s) /\ DOMAIN s1 = Fields BY <1>3
  <2> HIDE DEF s1
  <2>3. SameQueue([s1 EXCEPT !.firstNSRPResp = s1.firstNSRPResp \/ s1.useNSRP], s1)
    BY <2>2, QueueSets
  <2>4. QED BY <2>1, <2>2, <2>3, QueueTwice
<1>8. CASE frame.header \in {"WNSRP_COMMAND", "WNSRP_RESPONSE"}
  BY <1>1, <1>2, <1>8 DEF SrpNoteFrame
<1>9. QED BY <1>4, <1>5, <1>6, <1>7, <1>8 DEF CommandHeader, ResponseHeader

\* SrpCommandClear drops one chunk with the number.
LEMMA ClearDrops ==
    ASSUME NEW s, DOMAIN s = Fields, s.queue \in Seq(ChunkSet), NEW n
    PROVE  Drops(SrpCommandClear(s, n), s, n)
<1> DEFINE hits == {i \in DOMAIN s.queue : s.queue[i].seq = n}
<1> DEFINE L == Len(s.queue)
<1>1. L \in Nat /\ DOMAIN s.queue = 1..L BY LenProperties
<1>2. CASE hits = {}
  <2>1. SrpCommandClear(s, n) = s BY <1>2 DEF SrpCommandClear
  <2>2. QED BY <2>1 DEF Drops
<1>3. CASE hits # {}
  <2> DEFINE m == Min(hits)
  <2> DEFINE v == RemoveAt(s.queue, m)
  <2>1. m \in hits
    <3>1. hits \in SUBSET Nat BY <1>1
    <3>2. QED BY <1>3, <3>1, LeastNat
  <2>2. SrpCommandClear(s, n) = [s EXCEPT !.queue = v] BY <1>3 DEF SrpCommandClear
  <2>3. m \in 1..L /\ s.queue[m].seq = n BY <1>1, <2>1
  <2> HIDE DEF m, hits
  <2>4. /\ v \in Seq(ChunkSet) /\ Len(v) = L - 1
        /\ \A i \in 1..L - 1 : v[i] = IF i < m THEN s.queue[i] ELSE s.queue[i + 1]
    BY <2>3, RemoveAtFacts
  <2> HIDE DEF v
  <2> DEFINE r == [s EXCEPT !.queue = v]
  <2>5. /\ DOMAIN r = Fields /\ r.queue = v /\ r.sendSeq = s.sendSeq /\ r.useNSRP = s.useNSRP
    BY DEF Fields
  <2>6. ASSUME NEW i \in 1..L, s.queue[i].seq # n
        PROVE  \E j \in 1..L - 1 : v[j] = s.queue[i]
    <3>1. i # m BY <2>3, <2>6
    <3>2. CASE i < m
      <4>1. i \in 1..L - 1 BY <1>1, <2>3, <3>2
      <4>2. QED BY <2>4, <3>2, <4>1
    <3>3. CASE i > m
      <4>1. i - 1 \in 1..L - 1 /\ ~(i - 1 < m) /\ i - 1 + 1 = i BY <1>1, <2>3, <3>3
      <4>2. QED BY <2>4, <4>1
    <3>4. QED BY <1>1, <2>3, <3>1, <3>2, <3>3
  <2> HIDE DEF r
  <2>7. Drops(r, s, n) BY <2>4, <2>5, <2>6 DEF Drops
  <2>8. QED BY <2>2, <2>7 DEF r
<1>4. QED BY <1>2, <1>3

\* A chunk leaves, and then nothing happens to the queue.
LEMMA DropsThen ==
    ASSUME NEW s, NEW r, NEW t, NEW n, Drops(r, s, n), SameQueue(t, r)
    PROVE  Drops(t, s, n)
BY DEF Drops, SameQueue

\* A response with a number drops the chunk with that number only.
LEMMA ResponseDrops ==
    ASSUME NEW s, DOMAIN s = Fields, s.queue \in Seq(ChunkSet), NEW n
    PROVE  Drops(OnNsrpResponse(s, n), s, n) /\ Drops(OnWnsrpResponse(s, n), s, n)
<1>0. /\ \A u, v : SameQueue(u, v) => DOMAIN u = Fields
      /\ \A u, v : Drops(u, v, n) => DOMAIN u = Fields
  BY DEF SameQueue, Drops
<1> DEFINE s1 == SrpCommandClear(s, n)
<1>1. Drops(s1, s, n) /\ DOMAIN s1 = Fields BY <1>0, ClearDrops
<1>2. Drops(OnNsrpResponse(s, n), s, n)
  <2> DEFINE s2 == IF ActiveWith(s1, n) = {} THEN s1
                   ELSE RemoveActiveWnsrpTimer(s1, Min(ActiveWith(s1, n)))
  <2> DEFINE s3 == [s2 EXCEPT !.save = <<>>]
  <2>1. OnNsrpResponse(s, n) = IF s2.save # <<>> /\ TimerSeq(s2.save[1]) = n
                               THEN SendNext(s3) ELSE s2
    BY DEF OnNsrpResponse
  <2> HIDE DEF s1
  <2>2. SameQueue(s2, s1) BY <1>1, PartsLeaveQueue, QueueSets
  <2> HIDE DEF s2
  <2>3. Drops(s2, s, n) /\ DOMAIN s2 = Fields BY <1>0, <1>1, <2>2, DropsThen
  <2>4. SameQueue(s3, s2) /\ DOMAIN s3 = Fields BY <1>0, <2>3, QueueSets
  <2> HIDE DEF s3
  <2>5. SameQueue(SendNext(s3), s3) BY <2>4, MessageLeavesQueue
  <2>6. Drops(SendNext(s3), s, n) BY <2>3, <2>4, <2>5, DropsThen
  <2>7. QED BY <2>1, <2>3, <2>6
<1>3. Drops(OnWnsrpResponse(s, n), s, n)
  <2> DEFINE i == Min(ActiveWith(s1, n))
  <2> DEFINE s2 == [s1 EXCEPT !.active =
                      [k \in DOMAIN @ |-> IF k < i THEN [@[k] EXCEPT !.n400 = 1] ELSE @[k]]]
  <2> DEFINE s3 == LowerLayerTx(s2, [k \in 1..i - 1 |-> s.active[k].pkt])
  <2> DEFINE s4 == RemoveActiveWnsrpTimer(s3, i)
  <2>1. OnWnsrpResponse(s, n) = IF ActiveWith(s1, n) = {} THEN s1 ELSE SendNext(s4)
    BY DEF OnWnsrpResponse
  <2> HIDE DEF s1, i
  <2>2. SameQueue(s2, s1) BY <1>1, QueueSets
  <2> HIDE DEF s2
  <2>3. DOMAIN s2 = Fields BY <1>0, <2>2
  <2>4. SameQueue(s3, s2) /\ DOMAIN s3 = Fields BY <1>0, <2>3, PartsLeaveQueue
  <2> HIDE DEF s3
  <2>5. SameQueue(s4, s3) /\ DOMAIN s4 = Fields BY <1>0, <2>4, PartsLeaveQueue
  <2> HIDE DEF s4
  <2>6. SameQueue(SendNext(s4), s4) BY <2>5, MessageLeavesQueue
  <2>7. SameQueue(SendNext(s4), s1) BY <2>2, <2>4, <2>5, <2>6, QueueTwice
  <2>8. Drops(SendNext(s4), s, n) BY <1>1, <2>7, DropsThen
  <2>9. QED BY <1>1, <2>1, <2>8
<1>4. QED BY <1>2, <1>3

-----------------------------------------------------------------------------
(* One direction of the call.                                              *)

\* Messages that have become more.
GrownTo(m, ms) ==
    /\ Consecutive(m) /\ ChunksOf(ms) \subseteq ChunksOf(m)
    /\ \A rs, buffer, n : Assembled(ms, rs, buffer, n) => Assembled(m, rs, buffer, n)

\* Before its first command a terminal has answered nothing.
Answerable(s) == IF s.firstCmd THEN {} ELSE ChunkSet

\* Nothing has left the wait queue yet.
Starts(s) ==
    /\ s.queue = <<>> => s.sendSeq = 0
    /\ s.queue # <<>> => s.queue[1].seq = 0

\* The messages ms go from terminal s to terminal r, frames are under way to r
\* and rc has come out; dead is whether s has reported a failure.
FlowOf(ms, s, r, frames, rc, dead) ==
    /\ Consecutive(ms)
    /\ ~dead => s.sendSeq = Total(ms) /\ Carries(s, ChunksOf(ms), {})
    /\ frames \in Seq(FramesOf(ChunksOf(ms), Answerable(s)))
    /\ r.pending \in Seq(ChunksOf(ms)) /\ r.up = <<>>
    /\ Assembled(ms, rc, r.buffer, r.recvSeq)
    /\ r.firstCmd => /\ r.recvSeq = 0 /\ Numbers(frames, "SRP_COMMAND") \subseteq {0}
                     /\ ~dead => Starts(s)

\* A method of the sending terminal; first is whether its peer has yet to
\* receive a command.
SendsOut(ms, t, dead, first) ==
    /\ Carries(t, ChunksOf(ms), Answerable(t)) /\ t.sendSeq = Total(ms)
    /\ first => /\ Numbers(t.tx, "SRP_COMMAND") \subseteq {0}
                /\ ~dead => Starts(t)

\* A method of the receiving terminal.
PassesUp(ms, rc, t) ==
    /\ t.pending \in Seq(ChunksOf(ms)) /\ (t.firstCmd => t.recvSeq = 0)
    /\ Reassemble(t).pdus \in Seq(Seq(Nat))
    /\ Assembled(ms, rc \o Reassemble(t).pdus, Reassemble(t).buffer, t.recvSeq)

\* A terminal when a method has ended.
Committed(t) == [t EXCEPT !.buffer = Reassemble(t).buffer, !.tx = <<>>, !.up = <<>>]

\* What Commit leaves as it is.
LEMMA CommittedFields ==
    ASSUME NEW t, DOMAIN t = Fields
    PROVE  LET u == Committed(t) IN
           /\ DOMAIN u = Fields /\ u.buffer = Reassemble(t).buffer /\ u.tx = <<>> /\ u.up = <<>>
           /\ u.queue = t.queue /\ u.save = t.save /\ u.active = t.active
           /\ u.sendSeq = t.sendSeq /\ u.recvSeq = t.recvSeq /\ u.pending = t.pending
           /\ u.firstCmd = t.firstCmd /\ u.useNSRP = t.useNSRP /\ u.oldest = t.oldest
BY DEF Committed, Fields

\* Frames on a link, some lost beyond LinkCap.
LEMMA CutIn ==
    ASSUME NEW S, NEW old \in Seq(S), NEW tx \in Seq(S)
    PROVE  LET out == old \o tx IN SubSeq(out, 1, Min({LinkCap, Len(out)})) \in Seq(S)
<1> DEFINE out == old \o tx
<1> DEFINE n == Min({LinkCap, Len(out)})
<1>1. out \in Seq(S) BY ConcatProperties
<1> HIDE DEF out
<1>2. Len(out) \in Nat /\ LinkCap \in Nat /\ \A i \in 1..Len(out) : out[i] \in S
  BY <1>1, LenProperties, SrpAssumption
<1>3. n = IF LinkCap <= Len(out) THEN LinkCap ELSE Len(out) BY <1>2, MinOfTwo
<1> HIDE DEF n
<1>4. n \in Nat /\ \A i \in 1..n : out[i] \in S BY <1>2, <1>3
<1>5. SubSeq(out, 1, n) \in Seq(S) BY <1>4, SubSeqProperties
<1>6. QED BY <1>5 DEF n, out

\* Sequences over a larger set.
LEMMA MoreSeq ==
    ASSUME NEW S, NEW T, S \subseteq T, NEW q \in Seq(S)
    PROVE  q \in Seq(T)
<1>1. q \in [1..Len(q) -> S] /\ Len(q) \in Nat BY LenProperties
<1>2. q \in [1..Len(q) -> T] BY <1>1
<1>3. QED BY <1>1, <1>2, SeqDef

\* Frames with more chunks.
LEMMA FramesMore ==
    ASSUME NEW C, NEW D, NEW R, NEW T, C \subseteq D, R \subseteq T
    PROVE  FramesOf(C, R) \subseteq FramesOf(D, T)
<1>1. [header : CommandHeader, chunk : C] \subseteq [header : CommandHeader, chunk : D] OBVIOUS
<1>2. [header : ResponseHeader, chunk : R] \subseteq [header : ResponseHeader, chunk : T] OBVIOUS
<1>3. QED BY <1>1, <1>2 DEF FramesOf

\* Frames under way are frames.
LEMMA FramesAre ==
    ASSUME NEW ms, NEW s
    PROVE  /\ FramesOf(ChunksOf(ms), Answerable(s)) \subseteq FrameSet
           /\ ChunksOf(ms) \subseteq ChunkSet /\ Answerable(s) \subseteq ChunkSet
<1>1. ChunksOf(ms) \subseteq ChunkSet /\ Answerable(s) \subseteq ChunkSet
  BY DEF ChunksOf, Answerable
<1>2. FramesOf(ChunkSet, ChunkSet) \subseteq FrameSet BY DEF FramesOf, FrameSet
<1>3. FramesOf(ChunksOf(ms), Answerable(s)) \subseteq FramesOf(ChunkSet, ChunkSet)
  BY <1>1, FramesMore
<1>4. QED BY <1>1, <1>2, <1>3

\* A method of the sending terminal.
LEMMA SenderMoves ==
    ASSUME NEW ms, NEW m, NEW s, NEW t, NEW r, NEW frames, NEW rc, NEW dead, NEW fails,
           FlowOf(ms, s, r, frames, rc, dead), GrownTo(m, ms),
           SendsOut(m, t, fails, r.firstCmd), t.firstCmd => s.firstCmd
    PROVE  LET out == frames \o t.tx IN
           FlowOf(m, Committed(t), r, SubSeq(out, 1, Min({LinkCap, Len(out)})), rc, fails)
<1> DEFINE out == frames \o t.tx
<1> DEFINE cut == SubSeq(out, 1, Min({LinkCap, Len(out)}))
<1> DEFINE u == Committed(t)
<1> DEFINE F == FramesOf(ChunksOf(m), Answerable(t))
<1>1. /\ frames \in Seq(FramesOf(ChunksOf(ms), Answerable(s)))
      /\ r.pending \in Seq(ChunksOf(ms)) /\ r.up = <<>>
      /\ Assembled(ms, rc, r.buffer, r.recvSeq)
      /\ r.firstCmd => r.recvSeq = 0 /\ Numbers(frames, "SRP_COMMAND") \subseteq {0}
  BY DEF FlowOf
<1>2. /\ Consecutive(m) /\ ChunksOf(ms) \subseteq ChunksOf(m)
      /\ Assembled(m, rc, r.buffer, r.recvSeq)
  BY <1>1 DEF GrownTo
<1>3. /\ DOMAIN t = Fields /\ t.queue \in Seq(ChunksOf(m)) /\ t.tx \in Seq(F)
      /\ t.save \in Seq(TimersOf(ChunksOf(m))) /\ t.active \in Seq(TimersOf(ChunksOf(m)))
      /\ t.sendSeq = Total(m)
      /\ r.firstCmd => Numbers(t.tx, "SRP_COMMAND") \subseteq {0} /\ (~fails => Starts(t))
  BY DEF SendsOut, Carries
<1>4. Answerable(s) \subseteq Answerable(t) BY DEF Answerable
<1>5. frames \in Seq(F) BY <1>1, <1>2, <1>4, FramesMore, MoreSeq
<1>6. cut \in Seq(F) BY <1>3, <1>5, CutIn
<1>7. Numbers(cut, "SRP_COMMAND") \subseteq
        Numbers(frames, "SRP_COMMAND") \cup Numbers(t.tx, "SRP_COMMAND")
  <2>1. frames \in Seq(FrameSet) /\ t.tx \in Seq(FrameSet)
    BY <1>3, <1>5, FramesAre, MoreSeq
  <2>2. QED BY <2>1, SentNumbers
<1>8. /\ DOMAIN u = Fields /\ u.queue = t.queue /\ u.save = t.save /\ u.active = t.active
      /\ u.tx = <<>> /\ u.sendSeq = t.sendSeq /\ u.firstCmd = t.firstCmd
  BY <1>3, CommittedFields
<1> HIDE DEF u, cut
<1>9. Carries(u, ChunksOf(m), {})
  <2>1. <<>> \in Seq(FramesOf(ChunksOf(m), {})) BY EmptySeq
  <2>2. QED BY <1>3, <1>8, <2>1 DEF Carries
<1>10. cut \in Seq(FramesOf(ChunksOf(m), Answerable(u))) BY <1>6, <1>8 DEF Answerable
<1>11. r.pending \in Seq(ChunksOf(m)) BY <1>1, <1>2, MoreSeq
<1>12. r.firstCmd => /\ r.recvSeq = 0 /\ Numbers(cut, "SRP_COMMAND") \subseteq {0}
                     /\ ~fails => Starts(u)
  BY <1>1, <1>3, <1>7, <1>8 DEF Starts
<1>13. FlowOf(m, u, r, cut, rc, fails)
  BY <1>1, <1>2, <1>3, <1>8, <1>9, <1>10, <1>11, <1>12 DEF FlowOf
<1>14. QED BY <1>13 DEF u, cut

\* A method of the receiving terminal.
LEMMA ReceiverMoves ==
    ASSUME NEW ms, NEW s, NEW t, NEW r, NEW frames, NEW rc, NEW dead, NEW rest,
           FlowOf(ms, s, r, frames, rc, dead), PassesUp(ms, rc, t), DOMAIN t = Fields,
           t.firstCmd => r.firstCmd, rest \in Seq(FramesOf(ChunksOf(ms), Answerable(s))),
           \A h : Numbers(rest, h) \subseteq Numbers(frames, h)
    PROVE  FlowOf(ms, s, Committed(t), rest, rc \o Reassemble(t).pdus, dead)
<1> DEFINE u == Committed(t)
<1>1. /\ u.buffer = Reassemble(t).buffer /\ u.up = <<>> /\ u.recvSeq = t.recvSeq
      /\ u.pending = t.pending /\ u.firstCmd = t.firstCmd
  BY CommittedFields
<1> HIDE DEF u
<1>2. Numbers(rest, "SRP_COMMAND") \subseteq Numbers(frames, "SRP_COMMAND") OBVIOUS
<1>3. FlowOf(ms, s, u, rest, rc \o Reassemble(t).pdus, dead)
  BY <1>1, <1>2 DEF FlowOf, PassesUp
<1>4. QED BY <1>3 DEF u

\* What came out are messages.
LEMMA AssembledType ==
    ASSUME NEW ms, Consecutive(ms), NEW rc, NEW buffer, NEW n, Assembled(ms, rc, buffer, n)
    PROVE  rc \in Seq(Seq(Nat))
<1>1. PICK k \in 0..Len(ms) : rc = SubSeq(ms, 1, k) BY DEF Assembled
<1>2. ms \in Seq(Seq(Nat)) /\ Len(ms) \in Nat BY LenProperties DEF Consecutive
<1>3. k \in Nat /\ \A i \in 1..k : ms[i] \in Seq(Nat) BY <1>2, LenProperties
<1>4. SubSeq(ms, 1, k) \in Seq(Seq(Nat)) BY <1>3, SubSeqProperties
<1>5. QED BY <1>1, <1>4

\* A terminal whose receiver was left alone passes nothing up.
LEMMA SamePassesUp ==
    ASSUME NEW ms, NEW s, NEW r, NEW t, NEW frames, NEW rc, NEW dead,
           FlowOf(ms, s, r, frames, rc, dead), SameReceiver(t, r)
    PROVE  PassesUp(ms, rc, t)
<1>1. /\ Consecutive(ms) /\ r.pending \in Seq(ChunksOf(ms)) /\ r.up = <<>>
      /\ Assembled(ms, rc, r.buffer, r.recvSeq) /\ (r.firstCmd => r.recvSeq = 0)
  BY DEF FlowOf
<1>2. /\ t.recvSeq = r.recvSeq /\ t.pending = r.pending /\ t.firstCmd = r.firstCmd
      /\ t.up = <<>> /\ t.buffer = r.buffer
  BY <1>1 DEF SameReceiver
<1>3. t.recvSeq \in Nat /\ Assembled(ms, rc, t.buffer, t.recvSeq) BY <1>1, <1>2 DEF Assembled
<1>4. rc \in Seq(Seq(Nat)) BY <1>1, AssembledType
<1>5. t.up \in Seq(ChunksOf(ms)) /\ Len(t.up) = 0 BY <1>2
<1>6. \A i \in 1..Len(t.up) : t.up[i].seq = t.recvSeq + i - 1 BY <1>5
<1>7. /\ Reassemble(t).pdus \in Seq(Seq(Nat))
      /\ Assembled(ms, rc \o Reassemble(t).pdus, Reassemble(t).buffer, t.recvSeq + Len(t.up))
  BY <1>1, <1>3, <1>4, <1>5, <1>6, Reassembled
<1>8. t.recvSeq + Len(t.up) = t.recvSeq BY <1>3, <1>5
<1>9. QED BY <1>1, <1>2, <1>7, <1>8 DEF PassesUp

-----------------------------------------------------------------------------
(* A frame in both directions of the call.                                 *)

\* A frame is a command that the receiver takes or answers, or a response that
\* the sender acts on, or it changes no more than the mode.
LEMMA FrameOutcome ==
    ASSUME NEW s, NEW C, C \subseteq ChunkSet, Carries(s, C, {}), s.up = <<>>, s.tx = <<>>,
           NEW B \in Nat, B + Window < SeqSpace, RecvInv(s, B),
           NEW frame \in FrameSet, frame.header \in CommandHeader => frame.chunk.seq < B,
           s.firstCmd => s.recvSeq = 0 /\ (frame.header = "SRP_COMMAND" => frame.chunk.seq = 0)
    PROVE  LET s1 == SrpNoteFrame(s, frame)
               t  == SrpFrame(s1, frame)
           IN  /\ SameReceiver(s1, s) /\ SameQueue(s1, s) /\ Carries(s1, C, {}) /\ s1.tx = <<>>
               /\ \/ /\ frame.header \in CommandHeader
                     /\ Took(t, s1, frame.chunk) /\ Answers(t, s1, frame.chunk, B)
                  \/ /\ frame.header \in ResponseHeader /\ SameReceiver(t, s) /\ Carries(t, C, {})
                     /\ frame.header # "SRP_RESPONSE" /\ s.useNSRP => Drops(t, s1, frame.chunk.seq)
                  \/ t = s1
<1> DEFINE s1 == SrpNoteFrame(s, frame)
<1> DEFINE event == SrpGetEvent(s1, frame)
<1> DEFINE t == SrpFrame(s1, frame)
<1> DEFINE n == frame.chunk.seq
<1>1. DOMAIN s = Fields BY DEF Carries
<1>2. SameReceiver(s1, s) BY <1>1, NoteLeavesReceiver
<1>3. SameQueue(s1, s) BY <1>1, NoteLeavesQueue
<1>4. Carries(s1, C, {}) BY NoteCarries
<1>5. s1.tx = <<>>
  <2>1. \A new : WnsrpStatusSet(s, new).tx = <<>> \/ new \notin {"NO_WNSRP", "WNSRP_FULL"}
    BY <1>1 DEF WnsrpStatusSet, Fields
  <2>2. CountN402(s).tx = <<>> /\ DOMAIN CountN402(s) = Fields
    <3> DEFINE c == [s EXCEPT !.n402 = @ + 1]
    <3>1. DOMAIN c = Fields /\ c.tx = <<>> BY <1>1 DEF Fields
    <3>2. CountN402(s) \in {s, c, WnsrpStatusSet(c, "NO_WNSRP")} BY DEF CountN402
    <3> HIDE DEF c
    <3>3. WnsrpStatusSet(c, "NO_WNSRP") = [c EXCEPT !.wnsrp = "NO_WNSRP", !.active = <<>>]
      BY DEF WnsrpStatusSet
    <3> DEFINE d == [c EXCEPT !.wnsrp = "NO_WNSRP", !.active = <<>>]
    <3>4. d.tx = <<>> /\ DOMAIN d = Fields BY <3>1 DEF Fields
    <3> HIDE DEF d
    <3>5. QED BY <1>1, <3>1, <3>2, <3>3, <3>4 DEF d
  <2>3. [CountN402(s) EXCEPT !.firstNSRPResp = @ \/ CountN402(s).useNSRP].tx = <<>>
    BY <2>2 DEF Fields
  <2>4. frame.header \in CommandHeader \cup ResponseHeader BY DEF FrameSet
  <2>5. s1 \in {s, WnsrpStatusSet(s, "NO_WNSRP"), WnsrpStatusSet(s, "WNSRP_FULL"), CountN402(s),
                [CountN402(s) EXCEPT !.firstNSRPResp = @ \/ CountN402(s).useNSRP]}
    BY <2>4 DEF SrpNoteFrame, CommandHeader, ResponseHeader
  <2> HIDE DEF s1
  <2>6. QED BY <2>1, <2>2, <2>3, <2>5
<1>6. frame.header \in CommandHeader \cup ResponseHeader BY DEF FrameSet
<1>7. DOMAIN s1 = Fields /\ RecvInv(s1, B) BY <1>2, SameKeeps DEF SameReceiver
<1>8. /\ s1.queue \in Seq(ChunkSet) /\ s1.useNSRP = s.useNSRP
  <2>1. s1.queue \in Seq(C) BY <1>4 DEF Carries
  <2>2. QED BY <1>3, <2>1, MoreSeq DEF SameQueue
<1>9. s1.up = <<>> /\ s1.recvSeq = s.recvSeq /\ s1.firstCmd = s.firstCmd BY <1>2 DEF SameReceiver
<1> HIDE DEF s1
<1>10. /\ event \in {"COMMAND", "WNSRP_COMMAND", "RESPONSE", "NSRP_RESPONSE", "WNSRP_RESPONSE", "NOP"}
       /\ event = "COMMAND" => frame.header = "SRP_COMMAND"
       /\ event = "WNSRP_COMMAND" => frame.header = "WNSRP_COMMAND"
       /\ event \in {"RESPONSE", "NSRP_RESPONSE", "WNSRP_RESPONSE"} => frame.header \in ResponseHeader
       /\ event = "RESPONSE" => frame.header = "SRP_RESPONSE" \/ ~s1.useNSRP
  BY <1>6 DEF SrpGetEvent, CommandHeader, ResponseHeader
<1>11. CASE event \in {"COMMAND", "WNSRP_COMMAND"}
  <2>1. t = Srp_0_2(s1, frame, event) BY <1>11 DEF SrpFrame
  <2>2. frame.header \in CommandHeader BY <1>10, <1>11 DEF CommandHeader
  <2>3. s1.firstCmd => s1.recvSeq = 0 /\ (event = "COMMAND" => n = 0) BY <1>9, <1>10
  <2> HIDE DEF t, event
  <2>4. Took(t, s1, frame.chunk) /\ Answers(t, s1, frame.chunk, B)
    BY <1>7, <1>9, <1>11, <2>1, <2>2, <2>3, ReceiverTakes
  <2>5. QED BY <1>2, <1>3, <1>4, <1>5, <2>2, <2>4 DEF t, s1
<1>12. CASE event \in {"RESPONSE", "NSRP_RESPONSE", "WNSRP_RESPONSE"}
  <2>1. \/ t = s1
        \/ t = OnSrpResponse(s1) /\ (frame.header = "SRP_RESPONSE" \/ ~s1.useNSRP)
        \/ t \in {OnNsrpResponse(s1, n), OnWnsrpResponse(s1, n)}
    <3>1. t = IF s1.status = "IDLE" THEN s1 ELSE Srp_1_3(s1, frame, event)
      BY <1>12 DEF SrpFrame
    <3> HIDE DEF t, event
    <3>2. CASE event = "RESPONSE"
      <4>1. Srp_1_3(s1, frame, event) = OnSrpResponse(s1) BY <3>2 DEF Srp_1_3
      <4>2. QED BY <1>10, <3>1, <3>2, <4>1
    <3>3. CASE event # "RESPONSE"
      <4>1. Srp_1_3(s1, frame, event) \in {OnNsrpResponse(s1, n), OnWnsrpResponse(s1, n)}
        BY <1>12, <3>3 DEF Srp_1_3
      <4>2. QED BY <3>1, <4>1
    <3>4. QED BY <3>2, <3>3
  <2>2. frame.header \in ResponseHeader BY <1>10, <1>12
  <2>3. /\ Carries(OnSrpResponse(s1), C, {}) /\ Carries(OnNsrpResponse(s1, n), C, {})
        /\ Carries(OnWnsrpResponse(s1, n), C, {})
    BY <1>4, ResponseCarries
  <2>4. /\ SameReceiver(OnSrpResponse(s1), s1) /\ SameReceiver(OnNsrpResponse(s1, n), s1)
        /\ SameReceiver(OnWnsrpResponse(s1, n), s1)
    BY <1>7, ResponseLeavesReceiver
  <2>5. Drops(OnNsrpResponse(s1, n), s1, n) /\ Drops(OnWnsrpResponse(s1, n), s1, n)
    BY <1>7, <1>8, ResponseDrops
  <2> HIDE DEF t, n
  <2>6. \/ t = s1
        \/ /\ SameReceiver(t, s1) /\ Carries(t, C, {})
           /\ frame.header # "SRP_RESPONSE" /\ s.useNSRP => Drops(t, s1, n)
    BY <1>8, <2>1, <2>3, <2>4, <2>5
  <2>7. SameReceiver(t, s1) => SameReceiver(t, s) BY <1>2, SameTwice
  <2>8. QED BY <1>2, <1>3, <1>4, <1>5, <2>2, <2>6, <2>7 DEF t, s1, n
<1>13. CASE event = "NOP"
  <2>1. t = s1 BY <1>13 DEF SrpFrame
  <2>2. QED BY <1>2, <1>3, <1>4, <1>5, <2>1 DEF t, s1
<1>14. QED BY <1>10, <1>11, <1>12, <1>13

\* A response that a terminal creates.
LEMMA ResponseType ==
    ASSUME NEW c \in ChunkSet, NEW h \in ResponseHeader
    PROVE  /\ SrpResponseCreate(c.seq, h) \in [header : ResponseHeader, chunk : ChunkSet]
           /\ SrpResponseCreate(c.seq, h).header = h
           /\ h # "SRP_RESPONSE" => SrpResponseCreate(c.seq, h).chunk.seq = c.seq
<1>1. 0 \in 0..SeqSpace - 1 /\ c.seq \in 0..SeqSpace - 1 BY SrpAssumption DEF ChunkSet
<1>2. QED BY <1>1 DEF SrpResponseCreate, Chunk, ChunkSet

\* The SRP commands that go out while nothing has left the queue.
LEMMA FirstNumbers ==
    ASSUME NEW t, NEW R, t.tx \in Seq(FrameSet), Sends(t, R), Starts(t)
    PROVE  Numbers(t.tx, "SRP_COMMAND") \subseteq {0}
<1>1. DOMAIN t.tx = 1..Len(t.tx) BY LenProperties
<1>2. QED BY <1>1 DEF Numbers, Sends, Starts

\* Nothing goes out.
LEMMA NoNumbers ==
    ASSUME NEW h
    PROVE  Numbers(<<>>, h) = {}
BY DEF Numbers

\* The same queue.
LEMMA StartsSame ==
    ASSUME NEW s, NEW t, SameQueue(t, s), Starts(s)
    PROVE  Starts(t)
BY DEF SameQueue, Starts

\* What a command leaves a receiver with continues what H.245 has.
LEMMA TookPassesUp ==
    ASSUME NEW mq, NEW r, NEW s, NEW s1, NEW in, NEW rp, NEW dq, FlowOf(mq, r, s, in, rp, dq),
           SameReceiver(s1, s), NEW t, NEW c \in ChunksOf(mq), Took(t, s1, c), t.pending \in Seq(ChunkSet)
    PROVE  PassesUp(mq, rp, t)
<1> DEFINE C == ChunksOf(mq)
<1>1. /\ Consecutive(mq) /\ s.pending \in Seq(C) /\ Assembled(mq, rp, s.buffer, s.recvSeq)
  BY DEF FlowOf
<1>2. s1.pending = s.pending /\ s1.recvSeq = s.recvSeq /\ s1.buffer = s.buffer
  BY DEF SameReceiver
<1>3. s.recvSeq \in Nat BY <1>1 DEF Assembled
<1>4. /\ ~t.firstCmd /\ t.buffer = s.buffer /\ t.up \in Seq(ChunkSet)
      /\ t.recvSeq = s.recvSeq + Len(t.up)
      /\ \A i \in 1..Len(t.up) : t.up[i].seq = s.recvSeq + i - 1 /\ From(t.up[i], s1, c)
      /\ \A i \in 1..Len(t.pending) : From(t.pending[i], s1, c)
  BY <1>2 DEF Took
<1> HIDE DEF C
<1>5. \A d : From(d, s1, c) => d \in C
  <2>1. \A k \in 1..Len(s.pending) : s.pending[k] \in C BY <1>1, LenProperties
  <2>2. c \in C BY DEF C
  <2>3. QED BY <1>2, <2>1, <2>2 DEF From
<1>6. ASSUME NEW z \in Seq(ChunkSet), \A i \in 1..Len(z) : From(z[i], s1, c) PROVE z \in Seq(C)
  <2>1. Len(z) \in Nat /\ z = [i \in 1..Len(z) |-> z[i]] BY LenProperties
  <2>2. \A i \in 1..Len(z) : z[i] \in C BY <1>5, <1>6
  <2>3. z \in [1..Len(z) -> C] BY <2>1, <2>2
  <2>4. QED BY <2>1, <2>3, SeqDef
<1>7. t.up \in Seq(C) /\ t.pending \in Seq(C) BY <1>4, <1>6
<1>8. rp \in Seq(Seq(Nat)) BY <1>1, AssembledType
<1>9. Assembled(mq, rp, t.buffer, s.recvSeq) BY <1>1, <1>4
<1>10. \A i \in 1..Len(t.up) : t.up[i].seq = s.recvSeq + i - 1 BY <1>4
<1>11. /\ Reassemble(t).pdus \in Seq(Seq(Nat))
       /\ Assembled(mq, rp \o Reassemble(t).pdus, Reassemble(t).buffer, s.recvSeq + Len(t.up))
  BY <1>1, <1>3, <1>7, <1>8, <1>9, <1>10, Reassembled DEF C
<1>12. QED BY <1>4, <1>7, <1>11 DEF PassesUp, C

\* A frame that arrives at s, from r: s answers, sends its next chunk or
\* passes chunks up, and both directions are in order.
LEMMA FrameFlows ==
    ASSUME NEW ms, NEW mq, NEW s, NEW r, NEW out, NEW in, NEW rq, NEW rp, NEW dq,
           FlowOf(ms, s, r, out, rq, FALSE), FlowOf(mq, r, s, in, rp, dq), in # <<>>,
           NEW N, TerminalInv(s, N), s.tx = <<>>,
           Head(in).header = "NSRP_RESPONSE" => Head(in).chunk.seq \in N,
           NEW B \in Nat, B + Window < SeqSpace, RecvInv(s, B),
           Head(in).header \in CommandHeader => Head(in).chunk.seq < B
    PROVE  LET t == SrpFrame(SrpNoteFrame(s, Head(in)), Head(in)) IN
           /\ SendsOut(ms, t, FALSE, r.firstCmd) /\ PassesUp(mq, rp, t)
           /\ (t.firstCmd => s.firstCmd) /\ DOMAIN t = Fields
<1> DEFINE f == Head(in)
<1> DEFINE s1 == SrpNoteFrame(s, f)
<1> DEFINE t == SrpFrame(s1, f)
<1> DEFINE C == ChunksOf(ms)
<1> DEFINE R == IF f.header = "SRP_COMMAND" THEN {f.chunk.seq} ELSE {}
<1>1. /\ s.sendSeq = Total(ms) /\ Carries(s, C, {}) /\ (r.firstCmd => Starts(s))
  BY DEF FlowOf
<1>2. /\ in \in Seq(FramesOf(ChunksOf(mq), Answerable(r))) /\ s.up = <<>>
      /\ s.firstCmd => s.recvSeq = 0 /\ Numbers(in, "SRP_COMMAND") \subseteq {0}
  BY DEF FlowOf
<1>3. f \in FramesOf(ChunksOf(mq), Answerable(r)) BY <1>2, HeadTailProperties
<1>4. in \in Seq(FrameSet) /\ C \subseteq ChunkSet BY <1>2, FramesAre, MoreSeq
<1>5. f \in FrameSet /\ f.chunk.seq \in Numbers(in, f.header) BY <1>4, HeadNumber
<1>6. TerminalInv(t, N) /\ Sends(t, R) /\ t.sendSeq = s.sendSeq BY <1>5, FrameKeeps
<1>7. s.firstCmd => s.recvSeq = 0 /\ (f.header = "SRP_COMMAND" => f.chunk.seq = 0)
  BY <1>2, <1>5
<1>8. DOMAIN s = Fields BY <1>1 DEF Carries
<1>9. RecvInv(t, B) /\ DOMAIN t = Fields BY <1>5, <1>8, FrameDrains
<1> HIDE DEF f, C
<1>10. /\ SameReceiver(s1, s) /\ SameQueue(s1, s) /\ Carries(s1, C, {}) /\ s1.tx = <<>>
       /\ \/ /\ f.header \in CommandHeader
             /\ Took(t, s1, f.chunk) /\ Answers(t, s1, f.chunk, B)
          \/ /\ f.header \in ResponseHeader /\ SameReceiver(t, s) /\ Carries(t, C, {})
          \/ t = s1
  BY <1>1, <1>2, <1>4, <1>5, <1>7, FrameOutcome DEF f
<1> HIDE DEF s1, t, R
<1>11. t.tx \in Seq(FrameSet) BY <1>6 DEF TerminalInv, Terminal
<1>12. ASSUME r.firstCmd => Starts(t)
       PROVE  r.firstCmd => Numbers(t.tx, "SRP_COMMAND") \subseteq {0} /\ Starts(t)
  BY <1>6, <1>11, <1>12, FirstNumbers
<1>13. Answerable(t) = IF t.firstCmd THEN {} ELSE ChunkSet BY DEF Answerable
<1>14. Carries(t, C, {}) => Carries(t, C, Answerable(t)) BY CarriesMore
<1>15. SUFFICES /\ Carries(t, C, Answerable(t)) /\ (r.firstCmd => Starts(t))
                /\ PassesUp(mq, rp, t) /\ (t.firstCmd => s.firstCmd)
  BY <1>1, <1>6, <1>9, <1>12 DEF SendsOut, t, s1, f, C
<1>16. CASE /\ f.header \in CommandHeader
            /\ Took(t, s1, f.chunk) /\ Answers(t, s1, f.chunk, B)
  <2>1. f.chunk \in ChunksOf(mq) /\ f.chunk \in ChunkSet
    <3>1. f.header \notin ResponseHeader BY <1>16 DEF CommandHeader, ResponseHeader
    <3>2. QED BY <1>3, <1>5, <3>1 DEF FramesOf, FrameSet
  <2>2. ~t.firstCmd /\ t.queue = s1.queue /\ t.save = s1.save /\ t.active = s1.active
    BY <1>16 DEF Took
  <2>3. t.tx \in Seq(FramesOf(C, ChunkSet))
    <3>1. CASE t.tx = s1.tx BY <1>10, <3>1
    <3>2. CASE \E h \in ResponseHeader : t.tx = s1.tx \o <<SrpResponseCreate(f.chunk.seq, h)>>
      <4>1. PICK h \in ResponseHeader : t.tx = s1.tx \o <<SrpResponseCreate(f.chunk.seq, h)>>
        BY <3>2
      <4> DEFINE g == SrpResponseCreate(f.chunk.seq, h)
      <4>2. g \in FramesOf(C, ChunkSet) BY <2>1, ResponseType DEF FramesOf
      <4> HIDE DEF g
      <4>3. <<g>> \in Seq(FramesOf(C, ChunkSet)) BY <4>2, OneFrame
      <4>4. t.tx = <<g>> BY <1>10, <4>1, <4>3 DEF g
      <4>5. QED BY <4>3, <4>4
    <3>3. QED BY <1>16, <3>1, <3>2 DEF Answers
  <2>4. Carries(t, C, Answerable(t)) BY <1>9, <1>10, <1>13, <2>2, <2>3 DEF Carries
  <2>5. r.firstCmd => Starts(t)
    BY <1>1, <1>6, <1>10, <2>2 DEF Starts, SameQueue
  <2>6. t.pending \in Seq(ChunkSet) BY <1>9 DEF RecvInv
  <2>7. PassesUp(mq, rp, t) BY <1>10, <1>16, <2>1, <2>6, TookPassesUp
  <2>8. QED BY <2>2, <2>4, <2>5, <2>7
<1>17. CASE f.header \in ResponseHeader /\ SameReceiver(t, s) /\ Carries(t, C, {})
  <2>1. f.header \notin CommandHeader BY <1>17 DEF CommandHeader, ResponseHeader
  <2>2. f.chunk \in Answerable(r) BY <1>3, <2>1 DEF FramesOf
  <2>3. ~r.firstCmd BY <2>2 DEF Answerable
  <2>4. PassesUp(mq, rp, t) BY <1>17, SamePassesUp
  <2>5. t.firstCmd = s.firstCmd BY <1>17 DEF SameReceiver
  <2>6. QED BY <1>14, <1>17, <2>3, <2>4, <2>5
<1>18. CASE t = s1
  <2>1. SameReceiver(t, s) /\ SameQueue(t, s) /\ Carries(t, C, {}) BY <1>10, <1>18
  <2>2. r.firstCmd => Starts(t) BY <1>1, <2>1, StartsSame
  <2>3. PassesUp(mq, rp, t) BY <2>1, SamePassesUp
  <2>4. t.firstCmd = s.firstCmd BY <2>1 DEF SameReceiver
  <2>5. QED BY <1>14, <2>1, <2>2, <2>3, <2>4
<1>19. QED BY <1>10, <1>16, <1>17, <1>18

\* The chunks of a message, as UpperLayerRx numbers them, below the wrap.
LEMMA NewChunksOf ==
    ASSUME NEW ms, Consecutive(ms), NEW k \in Nat \ {0}, Total(ms) + k < SeqSpace
    PROVE  LET new == NewChunks(Total(ms), k, Total(ms))
               m   == Append(ms, Pdu(Total(ms), k))
           IN  /\ GrownTo(m, ms) /\ new \in Seq(ChunksOf(m)) /\ Len(new) = k
               /\ new[1].seq = Total(ms) /\ Total(m) = Total(ms) + k
               /\ \A i \in 1..k : new[i].seq = Total(ms) + i - 1
               /\ (Total(ms) + k) % SeqSpace = Total(ms) + k
<1> DEFINE a == Total(ms)
<1> DEFINE new == NewChunks(a, k, a)
<1> DEFINE m == Append(ms, Pdu(a, k))
<1>1. /\ Consecutive(m) /\ a \in Nat /\ Total(m) = a + k
      /\ ChunksOf(ms) \subseteq ChunksOf(m)
      /\ \A rs, buffer, n : Assembled(ms, rs, buffer, n) => Assembled(m, rs, buffer, n)
      /\ \A i \in 1..k : a + k <= SeqSpace => Chunk(a + i - 1, a + i, i = k) \in ChunksOf(m)
  BY MessageAdds
<1> HIDE DEF a, m
<1>2. SeqSpace \in Nat /\ a + k < SeqSpace BY SrpAssumption DEF a
<1>3. GrownTo(m, ms) BY <1>1 DEF GrownTo
<1>4. /\ Len(new) = k /\ (a + k) % SeqSpace = a + k
      /\ \A i \in 1..k : new[i].seq = a + i - 1
  <2>1. a \in Nat /\ k \in Nat /\ k >= 1 /\ a + k < SeqSpace BY <1>1, <1>2
  <2>2. QED BY ONLY <2>1, NewChunksFacts
<1>5. \A i \in 1..k : (a + i - 1) % SeqSpace = a + i - 1
  <2> SUFFICES ASSUME NEW i \in 1..k PROVE (a + i - 1) % SeqSpace = a + i - 1 OBVIOUS
  <2>1. a + i - 1 \in Nat /\ a + i - 1 < SeqSpace BY <1>1, <1>2
  <2>2. QED BY <1>2, <2>1, ModSmall
<1>6. new = [i \in 1..k |-> Chunk(a + i - 1, a + i, i = k)] BY <1>5 DEF NewChunks
<1>7. new \in [1..k -> ChunksOf(m)]
  <2>1. a + k <= SeqSpace BY <1>1, <1>2
  <2>2. \A i \in 1..k : Chunk(a + i - 1, a + i, i = k) \in ChunksOf(m) BY <1>1, <2>1
  <2> HIDE DEF new
  <2>3. QED BY <1>6, <2>2
<1> HIDE DEF new
<1>8. new \in Seq(ChunksOf(m)) BY <1>7, SeqDef
<1>9. new[1].seq = a BY <1>1, <1>4
<1>10. QED BY <1>1, <1>3, <1>4, <1>8, <1>9 DEF a, new, m

\* Terminal s with a message of k chunks in its queue, n chunks after the first.
WithMessage(s, k, n) == [s EXCEPT !.queue = @ \o NewChunks(s.sendSeq, k, n),
                                  !.sendSeq = (@ + k) % SeqSpace]

\* Such a message has numbers left.
Fits(ms, k) == Total(ms) + k < SeqSpace

\* What waited still waits, and so do the chunks with the numbers given out.
Joins(t, s) ==
    /\ \A i \in 1..Len(s.queue) : \E j \in 1..Len(t.queue) : t.queue[j] = s.queue[i]
    /\ \A n \in Nat : s.sendSeq <= n /\ n < t.sendSeq =>
         \E j \in 1..Len(t.queue) : t.queue[j].seq = n
    /\ t.useNSRP = s.useNSRP

\* H.245 sends a message at s, of k chunks.
LEMMA MessageFlows ==
    ASSUME NEW ms, NEW s, NEW r, NEW out, NEW rq, FlowOf(ms, s, r, out, rq, FALSE),
           NEW k \in Nat \ {0}, Fits(ms, k), NEW s1,
           s1 = WithMessage(s, k, Total(ms)), NEW t, t = Srp_0_1(s1) \/ t = Srp_1_1(s1),
           NEW N, NEW R, TerminalInv(t, N), Sends(t, R)
    PROVE  LET m == Append(ms, Pdu(Total(ms), k)) IN
           /\ GrownTo(m, ms) /\ SendsOut(m, t, FALSE, r.firstCmd)
           /\ SameReceiver(t, s) /\ Joins(t, s) /\ Carries(t, ChunksOf(m), {})
<1> DEFINE a == Total(ms)
<1> DEFINE new == NewChunks(a, k, a)
<1> DEFINE m == Append(ms, Pdu(a, k))
<1>1. /\ Consecutive(ms) /\ s.sendSeq = a /\ Carries(s, ChunksOf(ms), {}) /\ (r.firstCmd => Starts(s))
  BY DEF FlowOf
<1>0. Total(ms) + k < SeqSpace BY DEF Fits
<1>2. /\ GrownTo(m, ms) /\ new \in Seq(ChunksOf(m)) /\ Len(new) = k
      /\ new[1].seq = a /\ Total(m) = a + k /\ (a + k) % SeqSpace = a + k
  BY <1>0, <1>1, NewChunksOf
<1>3. ChunksOf(ms) \subseteq ChunksOf(m) BY <1>2 DEF GrownTo
<1>4. DOMAIN s = Fields /\ s.queue \in Seq(ChunksOf(ms)) BY <1>1 DEF Carries
<1>5. Carries(s, ChunksOf(m), {}) /\ s.queue \in Seq(ChunksOf(m))
  <2>1. Carries(s, ChunksOf(m), {}) BY <1>1, <1>3, CarriesMore
  <2>2. QED BY <2>1 DEF Carries
<1> HIDE DEF a, new, m
<1>6. s1 = [s EXCEPT !.queue = s.queue \o new, !.sendSeq = a + k]
  BY <1>1, <1>2, <1>4 DEF new, a, Fields, WithMessage
<1>7. /\ DOMAIN s1 = Fields /\ s1.queue = s.queue \o new /\ s1.sendSeq = a + k
      /\ s1.save = s.save /\ s1.active = s.active /\ s1.tx = s.tx
  BY <1>4, <1>6 DEF Fields
<1>8. s.queue \o new \in Seq(ChunksOf(m)) /\ s.queue \o new # <<>>
      /\ (s.queue \o new)[1] = IF s.queue = <<>> THEN new[1] ELSE s.queue[1]
  <2>1. Len(s.queue) \in Nat /\ (s.queue = <<>> <=> Len(s.queue) = 0) BY <1>5, LenProperties, EmptySeq
  <2>2. /\ s.queue \o new \in Seq(ChunksOf(m)) /\ Len(s.queue \o new) = Len(s.queue) + Len(new)
        /\ \A i \in 1..Len(s.queue) + Len(new) :
             (s.queue \o new)[i] = IF i <= Len(s.queue) THEN s.queue[i] ELSE new[i - Len(s.queue)]
    BY <1>2, <1>5, ConcatProperties
  <2>3. Len(s.queue \o new) > 0 /\ 1 \in 1..Len(s.queue) + Len(new) BY <1>2, <2>1, <2>2
  <2>4. QED BY <2>1, <2>2, <2>3
<1>9. Carries(s1, ChunksOf(m), {}) BY <1>5, <1>7, <1>8 DEF Carries
<1>10. SameReceiver(s1, s)
  <2> DEFINE v == s.queue \o new
  <2> DEFINE w == a + k
  <2>1. s1 = [s EXCEPT !.queue = v, !.sendSeq = w] BY <1>6
  <2> HIDE DEF v, w
  <2>2. SameReceiver([s EXCEPT !.queue = v, !.sendSeq = w], s) BY <1>4, SenderSets
  <2>3. QED BY <2>1, <2>2
<1>11. SameReceiver(t, s)
  <2>1. SameReceiver(t, s1) BY <1>7, MessageLeavesReceiver
  <2>2. QED BY <1>10, <2>1, SameTwice
<1>12. SameQueue(t, s1) BY <1>7, MessageLeavesQueue
<1>13. Carries(t, ChunksOf(m), {})
  <2>1. s1.queue # <<>> BY <1>7, <1>8
  <2>2. Carries(Srp_0_1(s1), ChunksOf(m), {}) /\ Carries(Srp_1_1(s1), ChunksOf(m), {})
    BY ONLY <1>9, <2>1, MessageCarries
  <2>3. QED BY <2>2
<1>14. Carries(t, ChunksOf(m), Answerable(t)) BY <1>13, CarriesMore
<1>15. t.queue = s1.queue /\ t.sendSeq = s1.sendSeq BY <1>12 DEF SameQueue
<1>16. t.sendSeq = Total(m) BY <1>2, <1>7, <1>15
<1>17. r.firstCmd => Starts(t)
  BY <1>1, <1>2, <1>7, <1>8, <1>15 DEF Starts
<1>18. t.tx \in Seq(FrameSet) BY DEF TerminalInv, Terminal
<1>19. r.firstCmd => Numbers(t.tx, "SRP_COMMAND") \subseteq {0} BY <1>17, <1>18, FirstNumbers
<1>20. SendsOut(m, t, FALSE, r.firstCmd) BY <1>14, <1>16, <1>17, <1>19 DEF SendsOut
<1>21. /\ Len(s1.queue) = Len(s.queue) + k
       /\ \A i \in 1..Len(s.queue) : s1.queue[i] = s.queue[i]
       /\ \A i \in 1..k : s1.queue[Len(s.queue) + i].seq = a + i - 1
  <2> DEFINE u == s.queue
  <2>1. Len(u) \in Nat BY <1>5, LenProperties
  <2>2. /\ Len(u \o new) = Len(u) + k
        /\ \A i \in 1..Len(u) + k : (u \o new)[i] = IF i <= Len(u) THEN u[i] ELSE new[i - Len(u)]
    BY <1>2, <1>5, ConcatProperties
  <2>3. s1.queue = u \o new BY <1>7
  <2>4. \A i \in 1..k : new[i].seq = a + i - 1 BY <1>0, <1>1, NewChunksOf DEF new, a
  <2> HIDE DEF u
  <2>5. \A i \in 1..Len(u) : i \in 1..Len(u) + k /\ i <= Len(u) BY <2>1
  <2>6. ASSUME NEW i \in 1..k
        PROVE  Len(u) + i \in 1..Len(u) + k /\ ~(Len(u) + i <= Len(u)) /\ Len(u) + i - Len(u) = i
    BY <2>1
  <2>7. ASSUME NEW i \in 1..Len(u) PROVE s1.queue[i] = u[i] BY <2>2, <2>3, <2>5
  <2>8. ASSUME NEW i \in 1..k PROVE s1.queue[Len(u) + i].seq = a + i - 1
    <3>1. (u \o new)[Len(u) + i] = new[i] BY <2>2, <2>6
    <3>2. QED BY <2>3, <2>4, <3>1
  <2>9. Len(s1.queue) = Len(u) + k BY <2>2, <2>3
  <2>10. QED BY <2>7, <2>8, <2>9 DEF u
<1>22. Joins(t, s)
  <2>1. Len(s.queue) \in Nat /\ a \in Nat /\ k \in Nat /\ k >= 1
    <3>1. a \in Nat BY <1>1, MessageAdds DEF a
    <3>2. QED BY <1>5, <3>1, LenProperties
  <2>2. t.useNSRP = s.useNSRP BY <1>4, <1>6, <1>12 DEF SameQueue, Fields
  <2>3. ASSUME NEW i \in 1..Len(s.queue)
        PROVE  \E j \in 1..Len(t.queue) : t.queue[j] = s.queue[i]
    <3>1. i \in 1..Len(t.queue) /\ t.queue[i] = s.queue[i] BY <1>15, <1>21, <2>1
    <3>2. QED BY <3>1
  <2>4. ASSUME NEW n \in Nat, s.sendSeq <= n, n < t.sendSeq
        PROVE  \E j \in 1..Len(t.queue) : t.queue[j].seq = n
    <3> DEFINE i == n - a + 1
    <3> DEFINE j == Len(s.queue) + i
    <3>1. a <= n /\ n < a + k BY <1>1, <1>7, <1>15, <2>4
    <3>2. i \in 1..k /\ a + i - 1 = n BY <2>1, <3>1
    <3> HIDE DEF i
    <3>3. j \in 1..Len(t.queue) BY <1>15, <1>21, <2>1, <3>2
    <3>4. t.queue[j].seq = n BY <1>15, <1>21, <3>2
    <3> HIDE DEF j
    <3>5. QED BY <3>3, <3>4
  <2>5. QED BY <2>2, <2>3, <2>4 DEF Joins
<1>23. QED BY <1>2, <1>11, <1>13, <1>20, <1>22 DEF m, a

\* A timeout, with and without retries left.
LEMMA ResendFlows ==
    ASSUME NEW ms, NEW s, NEW r, NEW out, NEW rq, FlowOf(ms, s, r, out, rq, FALSE),
           NEW i \in Timers(s), NEW N, NEW R, TerminalInv(Resend(s, i), N), Sends(Resend(s, i), R)
    PROVE  /\ SendsOut(ms, Resend(s, i), FALSE, r.firstCmd)
           /\ SameReceiver(Resend(s, i), s) /\ SameQueue(Resend(s, i), s)
           /\ Carries(Resend(s, i), ChunksOf(ms), {})
<1> DEFINE t == Resend(s, i)
<1> DEFINE C == ChunksOf(ms)
<1>1. s.sendSeq = Total(ms) /\ Carries(s, C, {}) /\ (r.firstCmd => Starts(s)) BY DEF FlowOf
<1>2. DOMAIN s = Fields BY <1>1 DEF Carries
<1>3. Carries(t, C, {}) BY <1>1, ResendCarries
<1>4. SameReceiver(t, s) /\ SameQueue(t, s) BY <1>2, TimeoutLeavesReceiver, ResendLeavesQueue
<1> HIDE DEF t, C
<1>5. t.sendSeq = s.sendSeq BY <1>4 DEF SameQueue
<1>6. r.firstCmd => Starts(t) BY <1>1, <1>4, StartsSame
<1>7. t.tx \in Seq(FrameSet) BY DEF TerminalInv, Terminal, t
<1>8. r.firstCmd => Numbers(t.tx, "SRP_COMMAND") \subseteq {0} BY <1>6, <1>7, FirstNumbers DEF t
<1>9. Carries(t, C, Answerable(t)) BY <1>3, CarriesMore
<1>10. QED BY <1>1, <1>3, <1>4, <1>5, <1>6, <1>8, <1>9 DEF SendsOut, C, t

\* The same without retries left: the terminal is in failure from then on.
LEMMA GiveUpFlows ==
    ASSUME NEW ms, NEW s, NEW r, NEW out, NEW rq, FlowOf(ms, s, r, out, rq, FALSE), s.tx = <<>>,
           NEW i \in Timers(s)
    PROVE  /\ SendsOut(ms, GiveUp(s, i), TRUE, r.firstCmd)
           /\ SameReceiver(GiveUp(s, i), s)
<1> DEFINE t == GiveUp(s, i)
<1> DEFINE C == ChunksOf(ms)
<1>1. s.sendSeq = Total(ms) /\ Carries(s, C, {}) BY DEF FlowOf
<1>2. DOMAIN s = Fields /\ s.active \in Seq(TimersOf(C)) BY <1>1 DEF Carries
<1> HIDE DEF C
<1>3. ASSUME NEW n
      PROVE  LET c == SrpCommandClear(s, n) IN
             /\ Carries(c, C, {}) /\ c.tx = <<>> /\ c.sendSeq = s.sendSeq /\ c.active = s.active
             /\ DOMAIN c = Fields
  <2>1. Carries(SrpCommandClear(s, n), C, {}) BY <1>1, ClearCarries
  <2>2. QED BY <1>2, <2>1 DEF SrpCommandClear, Fields
<1>4. Carries(t, C, {}) /\ t.tx = <<>> /\ t.sendSeq = s.sendSeq
  <2>1. CASE i = 0
    <3> DEFINE c == SrpCommandClear(s, TimerSeq(s.save[1]))
    <3>1. t = [c EXCEPT !.save = <<>>] BY <2>1 DEF GiveUp
    <3>2. Carries(c, C, {}) /\ c.tx = <<>> /\ c.sendSeq = s.sendSeq /\ DOMAIN c = Fields BY <1>3
    <3> HIDE DEF c
    <3>3. <<>> \in Seq(TimersOf(C)) BY EmptySeq
    <3>4. Carries([c EXCEPT !.save = <<>>], C, {}) BY <3>2, <3>3, CarriesSets
    <3>5. [c EXCEPT !.save = <<>>].tx = <<>> /\ [c EXCEPT !.save = <<>>].sendSeq = s.sendSeq
      BY <3>2 DEF Fields
    <3> HIDE DEF t
    <3>6. QED BY <3>1, <3>4, <3>5
  <2>2. CASE i # 0
    <3>1. i \in 1..Len(s.active) BY <1>2, <2>2, LenProperties DEF Timers
    <3> DEFINE c == SrpCommandClear(s, TimerSeq(s.active[i]))
    <3>2. t = RemoveActiveWnsrpTimer(c, i) BY <2>2 DEF GiveUp
    <3>3. /\ Carries(c, C, {}) /\ c.tx = <<>> /\ c.sendSeq = s.sendSeq /\ c.active = s.active
          /\ DOMAIN c = Fields
      BY <1>3
    <3> HIDE DEF c, t
    <3>4. Carries(t, C, {}) BY <3>1, <3>2, <3>3, RemoveTimerCarries
    <3>5. t.tx = <<>> /\ t.sendSeq = s.sendSeq BY <3>2, <3>3 DEF RemoveActiveWnsrpTimer, Fields
    <3>6. QED BY <3>4, <3>5
  <2>3. QED BY <2>1, <2>2
<1>5. SameReceiver(t, s) BY <1>2, TimeoutLeavesReceiver
<1> HIDE DEF t
<1>6. Carries(t, C, Answerable(t)) BY <1>4, CarriesMore
<1>7. Numbers(t.tx, "SRP_COMMAND") \subseteq {0} BY <1>4, NoNumbers
<1>8. QED BY <1>1, <1>4, <1>5, <1>6, <1>7 DEF SendsOut, C, t

-----------------------------------------------------------------------------
(* Both directions of the call.                                            *)

\* The messages of p on their way to its peer.
Flow(p) == FlowOf(sent[p], ep[p], ep[Other(p)], link[Other(p)], rcvd[Other(p)], failed[p])

Flows == DOMAIN rcvd = Peer /\ \A p \in Peer : Flow(p)

\* There is nobody else.
LEMMA OnlyOther ==
    ASSUME NEW p \in Peer
    PROVE  \A r \in Peer : r = p \/ r = Other(p)
<1>1. PICK x \in Peer, y \in Peer : x # y /\ Peer = {x, y} BY SrpAssumption
<1>2. QED BY <1>1, OtherPeer

\* Messages that have stayed the same.
LEMMA GrownSame ==
    ASSUME NEW ms, Consecutive(ms)
    PROVE  GrownTo(ms, ms)
BY DEF GrownTo

\* A step of p that hands frames to the link and messages to H.245.
LEMMA FlowCommit ==
    ASSUME NEW K, SrpInv(K), Flows, NEW p \in Peer, NEW t, NEW rest, NEW m, NEW dead,
           Commit(p, t, rest), DOMAIN t = Fields, t.firstCmd => ep[p].firstCmd,
           GrownTo(m, sent[p]), sent'[p] = m, sent'[Other(p)] = sent[Other(p)],
           failed'[p] = dead, failed'[Other(p)] = failed[Other(p)],
           SendsOut(m, t, dead, ep[Other(p)].firstCmd),
           PassesUp(sent[Other(p)], rcvd[p], t),
           rest \in Seq(FramesOf(ChunksOf(sent[Other(p)]), Answerable(ep[Other(p)]))),
           \A h : Numbers(rest, h) \subseteq Numbers(link[p], h)
    PROVE  Flows' /\ rcvd'[Other(p)] = rcvd[Other(p)] /\ rcvd'[p] = rcvd[p] \o Reassemble(t).pdus
           /\ ep'[p] = Committed(t) /\ ep'[Other(p)] = ep[Other(p)]
<1> DEFINE q == Other(p)
<1> DEFINE out == link[q] \o t.tx
<1> DEFINE cut == SubSeq(out, 1, Min({LinkCap, Len(out)}))
<1>1. q \in Peer /\ q # p /\ Other(q) = p BY OtherPeer
<1>2. DOMAIN ep = Peer /\ DOMAIN link = Peer /\ DOMAIN rcvd = Peer BY DEF SrpInv, Flows
<1>3. /\ ep' = [ep EXCEPT ![p] = Committed(t)]
      /\ link' = [link EXCEPT ![p] = rest, ![q] = cut]
      /\ rcvd' = [rcvd EXCEPT ![p] = @ \o Reassemble(t).pdus]
  BY DEF Commit, Committed
<1>4. /\ FlowOf(sent[p], ep[p], ep[q], link[q], rcvd[q], failed[p])
      /\ FlowOf(sent[q], ep[q], ep[p], link[p], rcvd[p], failed[q])
  BY <1>1 DEF Flows, Flow
<1>5. FlowOf(m, Committed(t), ep[q], cut, rcvd[q], dead) BY <1>4, SenderMoves
<1>6. FlowOf(sent[q], ep[q], Committed(t), rest, rcvd[p] \o Reassemble(t).pdus, failed[q])
  BY <1>4, ReceiverMoves
<1> HIDE DEF cut
<1>7. /\ ep'[p] = Committed(t) /\ ep'[q] = ep[q] /\ link'[p] = rest /\ link'[q] = cut
      /\ rcvd'[p] = rcvd[p] \o Reassemble(t).pdus /\ rcvd'[q] = rcvd[q] /\ DOMAIN rcvd' = Peer
  BY <1>1, <1>2, <1>3
<1>8. FlowOf(sent'[p], ep'[p], ep'[q], link'[q], rcvd'[q], failed'[p]) BY <1>5, <1>7
<1>9. FlowOf(sent'[q], ep'[q], ep'[p], link'[p], rcvd'[p], failed'[q]) BY <1>6, <1>7 DEF q
<1>10. Flow(p)' BY <1>8 DEF Flow, q
<1>11. Flow(q)' BY <1>1, <1>9 DEF Flow
<1> HIDE DEF q
<1>12. \A r \in Peer : r = p \/ r = q BY OnlyOther DEF q
<1>13. \A r \in Peer : Flow(r)' BY <1>10, <1>11, <1>12
<1>14. Flows' BY <1>7, <1>13 DEF Flows
<1>15. QED BY <1>7, <1>14 DEF q

\* A step of p alone.
LEMMA FlowOwn ==
    ASSUME NEW K, SrpInv(K), Flows, NEW p \in Peer, NEW u, ep' = [ep EXCEPT ![p] = u],
           UNCHANGED <<call, link, lost, sent, rcvd, failed>>, DOMAIN u = Fields,
           u.firstCmd = ep[p].firstCmd, u.recvSeq = ep[p].recvSeq, u.buffer = ep[p].buffer,
           u.up = ep[p].up, u.pending = ep[p].pending \/ u.pending = <<>>,
           failed[p] \/ /\ u.queue = ep[p].queue /\ u.sendSeq = ep[p].sendSeq
                        /\ Carries(u, ChunksOf(sent[p]), {})
    PROVE  Flows'
<1> DEFINE q == Other(p)
<1>1. q \in Peer /\ q # p /\ Other(q) = p BY OtherPeer
<1>2. DOMAIN ep = Peer BY DEF SrpInv
<1>3. /\ FlowOf(sent[p], ep[p], ep[q], link[q], rcvd[q], failed[p])
      /\ FlowOf(sent[q], ep[q], ep[p], link[p], rcvd[p], failed[q])
  BY <1>1 DEF Flows, Flow
<1>4. Answerable(u) = Answerable(ep[p]) BY DEF Answerable
<1>5. FlowOf(sent[p], u, ep[q], link[q], rcvd[q], failed[p])
  <2>1. CASE failed[p] BY <1>3, <1>4, <2>1 DEF FlowOf
  <2>2. CASE ~failed[p]
    <3>1. /\ u.queue = ep[p].queue /\ u.sendSeq = ep[p].sendSeq
          /\ Carries(u, ChunksOf(sent[p]), {})
      BY <2>2
    <3>2. u.sendSeq = ep[p].sendSeq /\ (Starts(ep[p]) => Starts(u)) BY <3>1 DEF Starts
    <3>3. QED BY <1>3, <1>4, <3>1, <3>2 DEF FlowOf
  <2>3. QED BY <2>1, <2>2
<1>6. FlowOf(sent[q], ep[q], u, link[p], rcvd[p], failed[q])
  <2>1. u.pending \in Seq(ChunksOf(sent[q])) BY <1>3, EmptySeq DEF FlowOf
  <2>2. QED BY <1>3, <2>1 DEF FlowOf
<1>7. ep'[p] = u /\ ep'[q] = ep[q] BY <1>1, <1>2
<1>8. Flow(p)' BY <1>5, <1>7 DEF Flow, q
<1>9. Flow(q)' BY <1>1, <1>6, <1>7 DEF Flow
<1> HIDE DEF q
<1>10. \A r \in Peer : r = p \/ r = q BY OnlyOther DEF q
<1>11. \A r \in Peer : Flow(r)' BY <1>8, <1>9, <1>10
<1>12. DOMAIN rcvd' = Peer BY DEF Flows
<1>13. QED BY <1>11, <1>12 DEF Flows

\* A frame is lost.
LEMMA FlowLose ==
    ASSUME NEW K, SrpInv(K), Flows, NEW p \in Peer, LoseFrame(p)
    PROVE  Flows'
<1> DEFINE q == Other(p)
<1>1. q \in Peer /\ q # p /\ Other(q) = p BY OtherPeer
<1>2. /\ link[p] # <<>> /\ link' = [link EXCEPT ![p] = Tail(@)]
      /\ UNCHANGED <<ep, call, sent, rcvd, failed>>
  BY DEF LoseFrame
<1>3. link \in [Peer -> Seq(FrameSet)] BY DEF SrpInv
<1>4. /\ FlowOf(sent[p], ep[p], ep[q], link[q], rcvd[q], failed[p])
      /\ FlowOf(sent[q], ep[q], ep[p], link[p], rcvd[p], failed[q])
  BY <1>1 DEF Flows, Flow
<1>5. \A h : Numbers(Tail(link[p]), h) \subseteq Numbers(link[p], h)
  BY <1>2, <1>3, TailNumbers
<1>6. FlowOf(sent[q], ep[q], ep[p], Tail(link[p]), rcvd[p], failed[q])
  <2> DEFINE F == FramesOf(ChunksOf(sent[q]), Answerable(ep[q]))
  <2>1. link[p] \in Seq(F) BY <1>4 DEF FlowOf
  <2> HIDE DEF F
  <2>2. Tail(link[p]) \in Seq(F) BY <1>2, <2>1, HeadTailProperties
  <2>3. Numbers(Tail(link[p]), "SRP_COMMAND") \subseteq Numbers(link[p], "SRP_COMMAND") BY <1>5
  <2>4. QED BY <1>4, <2>2, <2>3 DEF FlowOf, F
<1>7. link'[p] = Tail(link[p]) /\ link'[q] = link[q] BY <1>1, <1>2, <1>3
<1>8. FlowOf(sent'[p], ep'[p], ep'[q], link'[q], rcvd'[q], failed'[p]) BY <1>2, <1>4, <1>7
<1>9. FlowOf(sent'[q], ep'[q], ep'[p], link'[p], rcvd'[p], failed'[q]) BY <1>2, <1>6, <1>7
<1>10. Flow(p)' BY <1>8 DEF Flow, q
<1>11. Flow(q)' BY <1>1, <1>9 DEF Flow
<1> HIDE DEF q
<1>12. \A r \in Peer : r = p \/ r = q BY OnlyOther DEF q
<1>13. \A r \in Peer : Flow(r)' BY <1>10, <1>11, <1>12
<1>14. DOMAIN rcvd' = Peer BY <1>2 DEF Flows
<1>15. QED BY <1>13, <1>14 DEF Flows

\* Nothing has been sent at the start.
LEMMA FlowInit ==
    ASSUME Init
    PROVE  Flows
<1>1. ASSUME NEW p \in Peer PROVE Flow(p)
  <2> DEFINE q == Other(p)
  <2> DEFINE s == SrpStart(p, call)
  <2> DEFINE r == SrpStart(q, call)
  <2>1. q \in Peer BY OtherPeer
  <2>2. /\ ep[p] = s /\ ep[q] = r /\ link[q] = <<>> /\ rcvd[q] = <<>> /\ sent[p] = <<>>
        /\ failed[p] = FALSE
    BY <2>1 DEF Init
  <2>3. /\ DOMAIN s = Fields /\ s.queue = <<>> /\ s.save = <<>> /\ s.active = <<>> /\ s.tx = <<>>
        /\ s.sendSeq = 0 /\ s.firstCmd
    BY DEF SrpStart, Fields
  <2>4. r.pending = <<>> /\ r.up = <<>> /\ r.buffer = <<>> /\ r.recvSeq = 0 /\ r.firstCmd
    BY DEF SrpStart
  <2> HIDE DEF s, r, q
  <2>5. Len(<<>>) = 0 /\ \A S : <<>> \in Seq(S) BY EmptySeq
  <2>6. Total(<<>>) = 0 /\ After(<<>>, 0) = 0 BY <2>5 DEF Total, After
  <2>7. Consecutive(<<>>)
    <3>1. \A i \in 0..0 : i = 0 OBVIOUS
    <3>2. \A i \in 1..0 : FALSE OBVIOUS
    <3>3. QED BY <2>5, <2>6, <3>1, <3>2 DEF Consecutive
  <2>8. Assembled(<<>>, <<>>, <<>>, 0)
    <3>1. Pdu(0, 0) = <<>> BY PduFacts
    <3>2. SubSeq(<<>>, 1, 0) = <<>> OBVIOUS
    <3>3. 0 \in 0..Len(<<>>) /\ 0 <= 0 /\ 0 - 0 = 0 /\ ~(0 < Len(<<>>)) BY <2>5
    <3>4. Pdu(After(<<>>, 0), 0 - After(<<>>, 0)) = <<>> BY <2>6, <3>1, <3>3
    <3>5. QED BY <2>6, <3>2, <3>3, <3>4 DEF Assembled
  <2>9. Carries(s, ChunksOf(<<>>), {}) BY <2>3, <2>5 DEF Carries
  <2>10. Numbers(<<>>, "SRP_COMMAND") \subseteq {0} /\ Starts(s) BY <2>3, NoNumbers DEF Starts
  <2>11. FlowOf(<<>>, s, r, <<>>, <<>>, FALSE)
    BY <2>3, <2>4, <2>5, <2>6, <2>7, <2>8, <2>9, <2>10 DEF FlowOf
  <2>12. QED BY <2>2, <2>11 DEF Flow, q
<1>2. DOMAIN rcvd = Peer BY DEF Init
<1>3. QED BY <1>1, <1>2 DEF Flows

-----------------------------------------------------------------------------
(* The steps that hand something to the two layers.                        *)

\* What the invariants say of a terminal that is not in failure.
LEMMA TerminalFacts ==
    ASSUME NEW K, SrpInv(K), RxInv(K), Flows, NEW p \in Peer
    PROVE  /\ Other(p) \in Peer /\ Other(p) # p /\ Other(Other(p)) = p
           /\ DOMAIN ep[p] = Fields /\ RecvInv(ep[p], Limit(p, K)) /\ link[p] \in Seq(FrameSet)
           /\ FlowOf(sent[p], ep[p], ep[Other(p)], link[Other(p)], rcvd[Other(p)], failed[p])
           /\ FlowOf(sent[Other(p)], ep[Other(p)], ep[p], link[p], rcvd[p], failed[Other(p)])
           /\ failed[p] \in BOOLEAN /\ Len(sent[p]) \in Nat
           /\ ~failed[p] => PeerInv(p, K)
<1>1. Other(p) \in Peer /\ Other(p) # p /\ Other(Other(p)) = p BY OtherPeer
<1>2. /\ FlowOf(sent[p], ep[p], ep[Other(p)], link[Other(p)], rcvd[Other(p)], failed[p])
      /\ FlowOf(sent[Other(p)], ep[Other(p)], ep[p], link[p], rcvd[p], failed[Other(p)])
  BY <1>1 DEF Flows, Flow
<1>3. sent[p] \in Seq(Seq(Nat) \ {<<>>}) BY DEF SrpInv
<1>4. QED BY <1>1, <1>2, <1>3, LenProperties DEF SrpInv, RxInv

\* A message from H.245.
LEMMA MessageStep ==
    ASSUME NEW K, NoWindowWrap(K), Window >= 2, SrpInv(K), RxInv(K), Flows,
           NEW p \in Peer, NEW k \in Chunks, UpperLayerRx(p, k)
    PROVE  LET q  == Other(p)
               s  == ep[p]
               t  == AfterMessage(p, k)
               ms == sent[p]
               m  == Append(ms, Pdu(Total(ms), k))
           IN  /\ ~failed[p] /\ Commit(p, t, link[p])
               /\ sent'[p] = m /\ sent'[q] = sent[q] /\ failed' = failed
               /\ k \in Nat \ {0} /\ Total(ms) \in Nat /\ Total(ms) <= K * Len(ms) /\ Len(ms) < MsgsOf[p]
               /\ GrownTo(m, ms) /\ SendsOut(m, t, FALSE, ep[q].firstCmd)
               /\ SameReceiver(t, s) /\ Carries(t, ChunksOf(m), {})
               /\ Joins(t, s)
<1> DEFINE q == Other(p)
<1> DEFINE s == ep[p]
<1> DEFINE ms == sent[p]
<1> DEFINE m == Append(ms, Pdu(Total(ms), k))
<1> DEFINE t == AfterMessage(p, k)
<1> DEFINE s1 == WithMessage(s, k, Total(ms))
<1>1. NoWrap(K) BY DEF NoWindowWrap
<1>2. /\ ~failed[p] /\ Len(ms) < MsgsOf[p]
      /\ sent' = [sent EXCEPT ![p] = Append(@, Pdu(ChunksSent(p), k))]
  BY DEF UpperLayerRx
<1>3. /\ Commit(p, t, link[p]) /\ UNCHANGED failed
      /\ TerminalInv(t, Numbered(p)) /\ Sends(t, {}) /\ sent'[q] = sent[q]
  BY <1>1, MessageFacts
<1>4. /\ FlowOf(ms, s, ep[q], link[q], rcvd[q], failed[p]) /\ DOMAIN s = Fields
      /\ PeerInv(p, K) /\ failed[p] = FALSE /\ Len(ms) \in Nat
  BY <1>2, TerminalFacts
<1>5. Consecutive(ms) /\ s.sendSeq = Total(ms) /\ s.queue \in Seq(ChunksOf(ms))
  BY <1>4 DEF FlowOf, Carries
<1>6. ChunksSent(p) = Total(ms)
  <2>1. ms \in Seq(Seq(Nat) \ {<<>>}) BY <1>5 DEF Consecutive
  <2>2. ms = <<>> <=> Len(ms) = 0 BY <1>4, <2>1, EmptySeq
  <2>3. QED BY <2>2 DEF ChunksSent, Total, After, Last
<1>7. s.sendSeq \in Nat /\ s.sendSeq <= K * Len(ms)
  BY <1>4 DEF PeerInv, TerminalInv, Terminal
<1>8. k \in Nat /\ k >= 1 /\ s.sendSeq + k < SeqSpace
  BY <1>1, <1>2, <1>4, <1>7, NumbersFit
<1>9. t = Srp_0_1(s1) \/ t = Srp_1_1(s1) BY <1>6 DEF AfterMessage, WithMessage
<1>10. sent'[p] = m
  <2>1. p \in DOMAIN sent BY DEF SrpInv
  <2>2. QED BY <1>2, <1>6, <2>1
<1>11. Fits(ms, k) /\ k \in Nat \ {0} BY <1>5, <1>8 DEF Fits
<1> HIDE DEF t, s1
<1>12. /\ GrownTo(m, ms) /\ SendsOut(m, t, FALSE, ep[q].firstCmd)
       /\ SameReceiver(t, s) /\ Joins(t, s) /\ Carries(t, ChunksOf(m), {})
  <2>1. FlowOf(ms, s, ep[q], link[q], rcvd[q], FALSE) BY <1>4
  <2>2. s1 = WithMessage(s, k, Total(ms)) BY DEF s1
  <2>3. TerminalInv(t, Numbered(p)) /\ Sends(t, {}) BY <1>3
  <2> HIDE DEF s, ms, q
  <2>4. QED BY ONLY <1>9, <1>11, <2>1, <2>2, <2>3, MessageFlows
<1> HIDE DEF s, ms, m, q
<1>13. Total(ms) \in Nat /\ Total(ms) <= K * Len(ms) BY <1>5, <1>7
<1>14. QED BY <1>2, <1>3, <1>10, <1>11, <1>12, <1>13 DEF s, ms, m, q, t

\* A frame.
LEMMA FrameStep ==
    ASSUME NEW K, NoWindowWrap(K), SrpInv(K), RxInv(K), Flows,
           NEW p \in Peer, LowerLayerRx(p)
    PROVE  LET q == Other(p)
               f == Head(link[p])
               s == ep[p]
               t == SrpFrame(SrpNoteFrame(s, f), f)
           IN  /\ ~failed[p] /\ link[p] # <<>> /\ Commit(p, t, Tail(link[p]))
               /\ SendsOut(sent[p], t, FALSE, ep[q].firstCmd) /\ PassesUp(sent[q], rcvd[p], t)
               /\ (t.firstCmd => s.firstCmd) /\ DOMAIN t = Fields /\ t.sendSeq = s.sendSeq
               /\ f \in FrameSet /\ (f.header \in CommandHeader => f.chunk.seq < Limit(p, K))
               /\ s.firstCmd => s.recvSeq = 0 /\ (f.header = "SRP_COMMAND" => f.chunk.seq = 0)
               /\ Tail(link[p]) \in Seq(FramesOf(ChunksOf(sent[q]), Answerable(ep[q])))
               /\ \A h : Numbers(Tail(link[p]), h) \subseteq Numbers(link[p], h)
<1> DEFINE q == Other(p)
<1> DEFINE f == Head(link[p])
<1> DEFINE s == ep[p]
<1> DEFINE t == SrpFrame(SrpNoteFrame(s, f), f)
<1> DEFINE F == FramesOf(ChunksOf(sent[q]), Answerable(ep[q]))
<1>1. ~failed[p] /\ link[p] # <<>> /\ Commit(p, t, Tail(link[p])) BY DEF LowerLayerRx
<1>2. /\ DOMAIN s = Fields /\ RecvInv(s, Limit(p, K)) /\ link[p] \in Seq(FrameSet)
      /\ FlowOf(sent[p], s, ep[q], link[q], rcvd[q], failed[p])
      /\ FlowOf(sent[q], ep[q], s, link[p], rcvd[p], failed[q])
      /\ PeerInv(p, K) /\ failed[p] = FALSE
  BY <1>1, TerminalFacts
<1>3. f \in FrameSet /\ f.chunk.seq \in Numbers(link[p], f.header) BY <1>1, <1>2, HeadNumber
<1>4. \A h : Numbers(Tail(link[p]), h) \subseteq Numbers(link[p], h) BY <1>1, <1>2, TailNumbers
<1>5. f.header = "NSRP_RESPONSE" => f.chunk.seq \in Numbered(p) BY <1>3 DEF Numbered
<1>6. f.header \in CommandHeader => f.chunk.seq < Limit(p, K) BY <1>3 DEF RxInv
<1>7. Limit(p, K) \in Nat /\ Limit(p, K) + Window < SeqSpace BY LimitFacts
<1>8. TerminalInv(s, Numbered(p)) /\ s.tx = <<>> BY <1>2 DEF PeerInv
<1>9. link[p] \in Seq(F) BY <1>2 DEF FlowOf
<1>10. s.firstCmd => s.recvSeq = 0 /\ Numbers(link[p], "SRP_COMMAND") \subseteq {0}
  BY <1>2 DEF FlowOf
<1>11. Tail(link[p]) \in Seq(F)
  <2> HIDE DEF F
  <2>1. QED BY <1>1, <1>9, HeadTailProperties
<1>12. s.firstCmd => s.recvSeq = 0 /\ (f.header = "SRP_COMMAND" => f.chunk.seq = 0)
  BY <1>3, <1>10
<1>13. t.sendSeq = s.sendSeq
  <2> HIDE DEF s, f
  <2>1. QED BY <1>3, <1>5, <1>8, FrameKeeps
<1>14. /\ SendsOut(sent[p], t, FALSE, ep[q].firstCmd) /\ PassesUp(sent[q], rcvd[p], t)
       /\ (t.firstCmd => s.firstCmd) /\ DOMAIN t = Fields
  <2> DEFINE in == link[p]
  <2> DEFINE B == Limit(p, K)
  <2> DEFINE N == Numbered(p)
  <2>1. /\ FlowOf(sent[p], s, ep[q], link[q], rcvd[q], FALSE)
        /\ FlowOf(sent[q], ep[q], s, in, rcvd[p], failed[q]) /\ in # <<>> /\ f = Head(in)
        /\ TerminalInv(s, N) /\ s.tx = <<>> /\ B \in Nat /\ B + Window < SeqSpace
        /\ RecvInv(s, B) /\ (f.header \in CommandHeader => f.chunk.seq < B)
        /\ f.header = "NSRP_RESPONSE" => f.chunk.seq \in N
    BY <1>1, <1>2, <1>5, <1>6, <1>7, <1>8
  <2> HIDE DEF s, q, in, B, N, f
  <2>2. QED BY ONLY <2>1, FrameFlows
<1>15. QED BY <1>1, <1>3, <1>4, <1>6, <1>11, <1>12, <1>13, <1>14

\* A timeout with retries left.
LEMMA ResendStep ==
    ASSUME NEW K, NoWindowWrap(K), SrpInv(K), RxInv(K), Flows, NEW p \in Peer, Retransmit(p)
    PROVE  \E t : /\ ~failed[p] /\ Commit(p, t, link[p])
                  /\ SendsOut(sent[p], t, FALSE, ep[Other(p)].firstCmd)
                  /\ SameReceiver(t, ep[p]) /\ SameQueue(t, ep[p])
                  /\ Carries(t, ChunksOf(sent[p]), {})
<1> DEFINE q == Other(p)
<1> DEFINE s == ep[p]
<1>1. PICK i \in Timers(s) : SrpN400Check(TimerOf(s, i)) /\ Commit(p, Resend(s, i), link[p])
  BY DEF Retransmit
<1>2. ~failed[p] BY DEF Retransmit
<1>3. /\ FlowOf(sent[p], s, ep[q], link[q], rcvd[q], failed[p]) /\ PeerInv(p, K)
      /\ failed[p] = FALSE
  BY <1>2, TerminalFacts
<1>4. TerminalInv(s, Numbered(p)) /\ s.tx = <<>> BY <1>3 DEF PeerInv
<1> HIDE DEF s, q
<1>5. TerminalInv(Resend(s, i), Numbered(p)) /\ Sends(Resend(s, i), {}) BY <1>1, <1>4, ResendKeeps
<1>6. FlowOf(sent[p], s, ep[q], link[q], rcvd[q], FALSE) BY <1>3
<1>7. /\ SendsOut(sent[p], Resend(s, i), FALSE, ep[q].firstCmd)
      /\ SameReceiver(Resend(s, i), s) /\ SameQueue(Resend(s, i), s)
      /\ Carries(Resend(s, i), ChunksOf(sent[p]), {})
  BY <1>5, <1>6, ResendFlows
<1>8. QED BY <1>1, <1>2, <1>7 DEF s, q

\* A timeout without.
LEMMA GiveUpStep ==
    ASSUME NEW K, NoWindowWrap(K), SrpInv(K), RxInv(K), Flows, NEW p \in Peer,
           TransmissionFailure(p)
    PROVE  \E t : /\ Commit(p, t, link[p]) /\ sent' = sent
                  /\ failed' = [failed EXCEPT ![p] = TRUE]
                  /\ SendsOut(sent[p], t, TRUE, ep[Other(p)].firstCmd) /\ SameReceiver(t, ep[p])
<1> DEFINE q == Other(p)
<1> DEFINE s == ep[p]
<1>1. PICK i \in Timers(s) : Commit(p, GiveUp(s, i), link[p]) BY DEF TransmissionFailure
<1>2. ~failed[p] /\ sent' = sent /\ failed' = [failed EXCEPT ![p] = TRUE]
  BY DEF TransmissionFailure
<1>3. /\ FlowOf(sent[p], s, ep[q], link[q], rcvd[q], failed[p]) /\ PeerInv(p, K)
      /\ failed[p] = FALSE
  BY <1>2, TerminalFacts
<1>4. s.tx = <<>> BY <1>3 DEF PeerInv
<1> HIDE DEF s, q
<1>5. FlowOf(sent[p], s, ep[q], link[q], rcvd[q], FALSE) BY <1>3
<1>6. SendsOut(sent[p], GiveUp(s, i), TRUE, ep[q].firstCmd) /\ SameReceiver(GiveUp(s, i), s)
  BY <1>4, <1>5, GiveUpFlows
<1>7. QED BY <1>1, <1>2, <1>6 DEF s, q

\* SrpStop, UseNSRP and DisableWNSRPSupport.
LEMMA ControlStep ==
    ASSUME NEW K, SrpInv(K), RxInv(K), Flows, NEW p \in Peer,
           SrpStop(p) \/ UseNSRP(p) \/ DisableWNSRPSupport(p)
    PROVE  \E u :
             /\ ep' = [ep EXCEPT ![p] = u] /\ UNCHANGED <<call, link, lost, sent, rcvd, failed>>
             /\ DOMAIN u = Fields /\ u.firstCmd = ep[p].firstCmd /\ u.recvSeq = ep[p].recvSeq
             /\ u.buffer = ep[p].buffer /\ u.up = ep[p].up
             /\ u.pending = ep[p].pending \/ u.pending = <<>>
             /\ \/ failed[p]
                \/ /\ SameReceiver(u, ep[p]) /\ Carries(u, ChunksOf(sent[p]), {})
                   /\ call.level0 \/ SameQueue(u, ep[p])
                   /\ u.queue = ep[p].queue /\ u.sendSeq = ep[p].sendSeq
<1> DEFINE s == ep[p]
<1> DEFINE C == ChunksOf(sent[p])
<1>1. DOMAIN s = Fields /\ (~failed[p] => Carries(s, C, {})) /\ DOMAIN ep = Peer
  BY TerminalFacts DEF FlowOf, SrpInv
<1> HIDE DEF C
<1>2. CASE SrpStop(p)
  <2> DEFINE u == [s EXCEPT !.save = <<>>, !.active = <<>>, !.wnsrp = "WNSRP_TX",
                            !.queue = <<>>, !.pending = <<>>, !.useNSRP = FALSE]
  <2>1. /\ ep' = [ep EXCEPT ![p] = u] /\ failed[p]
        /\ UNCHANGED <<call, link, lost, sent, rcvd, failed>>
    BY <1>2 DEF SrpStop
  <2> HIDE DEF s
  <2>2. /\ DOMAIN u = Fields /\ u.firstCmd = s.firstCmd /\ u.recvSeq = s.recvSeq
        /\ u.buffer = s.buffer /\ u.up = s.up /\ u.pending = <<>>
    BY <1>1 DEF Fields
  <2> HIDE DEF u
  <2>3. QED BY <2>1, <2>2 DEF s
<1>3. CASE UseNSRP(p)
  <2> DEFINE v == [s EXCEPT !.useNSRP = TRUE]
  <2> DEFINE u == [v EXCEPT !.firstNSRPResp = FALSE]
  <2>1. /\ ep' = [ep EXCEPT ![p] = u] /\ ~failed[p] /\ call.level0
        /\ UNCHANGED <<call, link, lost, sent, rcvd, failed>>
    BY <1>1, <1>3 DEF UseNSRP
  <2> HIDE DEF s
  <2>2. SameReceiver(v, s) /\ DOMAIN v = Fields /\ v.queue = s.queue /\ v.sendSeq = s.sendSeq
    BY <1>1, SenderSets DEF Fields
  <2>3. Carries(v, C, {}) BY <1>1, <2>1, CarriesSets
  <2> HIDE DEF v
  <2>4. SameReceiver(u, v) /\ DOMAIN u = Fields /\ u.queue = v.queue /\ u.sendSeq = v.sendSeq
    BY <2>2, SenderSets DEF Fields
  <2>5. Carries(u, C, {}) BY <2>3, CarriesSets
  <2> HIDE DEF u
  <2>6. SameReceiver(u, s) BY <2>2, <2>4, SameTwice
  <2>7. /\ u.firstCmd = s.firstCmd /\ u.recvSeq = s.recvSeq /\ u.buffer = s.buffer
        /\ u.up = s.up /\ u.pending = s.pending
    BY <2>6 DEF SameReceiver
  <2>8. QED BY <2>1, <2>2, <2>4, <2>5, <2>6, <2>7 DEF s, C
<1>4. CASE DisableWNSRPSupport(p)
  <2> DEFINE v == IF s.wnsrp = "WNSRP_TX" THEN WnsrpStatusSet(s, "NO_WNSRP") ELSE s
  <2> DEFINE u == [v EXCEPT !.handleWNSRP = FALSE]
  <2>1. /\ ep' = [ep EXCEPT ![p] = u] /\ ~failed[p]
        /\ UNCHANGED <<call, link, lost, sent, rcvd, failed>>
    BY <1>4 DEF DisableWNSRPSupport
  <2> HIDE DEF s
  <2>2. SameReceiver(v, s) BY <1>1, SenderSets DEF WnsrpStatusSet
  <2>3. SameQueue(v, s) BY <1>1, QueueSets DEF WnsrpStatusSet
  <2>4. Carries(v, C, {})
    <3>1. Carries(s, C, {}) BY <1>1, <2>1
    <3> DEFINE w == [s EXCEPT !.wnsrp = "NO_WNSRP", !.active = <<>>]
    <3>2. /\ DOMAIN w = Fields /\ w.queue = s.queue /\ w.save = s.save /\ w.active = <<>>
          /\ w.tx = s.tx
      BY <1>1 DEF Fields
    <3>3. v = s \/ v = w BY DEF WnsrpStatusSet
    <3> HIDE DEF w, v
    <3>4. <<>> \in Seq(TimersOf(C)) BY EmptySeq
    <3>5. Carries(w, C, {}) BY <3>1, <3>2, <3>4 DEF Carries
    <3>6. QED BY <3>1, <3>3, <3>5
  <2> HIDE DEF v
  <2>5. DOMAIN v = Fields BY <2>2 DEF SameReceiver
  <2>6. SameReceiver(u, v) /\ SameQueue(u, v) BY <2>5, SenderSets, QueueSets
  <2>7. Carries(u, C, {}) BY <2>4, CarriesSets
  <2> HIDE DEF u
  <2>8. SameReceiver(u, s) /\ SameQueue(u, s) BY <2>2, <2>3, <2>6, SameTwice, QueueTwice
  <2>9. /\ u.firstCmd = s.firstCmd /\ u.recvSeq = s.recvSeq /\ u.buffer = s.buffer
        /\ u.up = s.up /\ u.pending = s.pending /\ DOMAIN u = Fields
        /\ u.queue = s.queue /\ u.sendSeq = s.sendSeq
    BY <2>8 DEF SameReceiver, SameQueue
  <2>10. QED BY <2>1, <2>7, <2>8, <2>9 DEF s, C
<1>5. QED BY <1>2, <1>3, <1>4

-----------------------------------------------------------------------------
(* H.245 messages come out whole, in order and once.                       *)

\* What a step may do to the messages from p: H.245 sends one more, or its
\* peer receives some more.
Moves(p, K) ==
    LET q == Other(p) IN
    \/ sent'[p] = sent[p] /\ \E x \in Seq(Seq(Nat)) : rcvd'[q] = rcvd[q] \o x
    \/ /\ rcvd'[q] = rcvd[q] /\ Total(sent[p]) \in Nat /\ Total(sent[p]) <= K * Len(sent[p])
       /\ Len(sent[p]) < MsgsOf[p]
       /\ \E k \in Chunks : sent'[p] = Append(sent[p], Pdu(Total(sent[p]), k))

\* Nothing moves.
LEMMA MovesNot ==
    ASSUME NEW K, Flows, NEW p \in Peer, sent'[p] = sent[p], rcvd'[Other(p)] = rcvd[Other(p)]
    PROVE  Moves(p, K)
<1> DEFINE x == rcvd[Other(p)]
<1>1. Consecutive(sent[p]) /\ Assembled(sent[p], x, ep[Other(p)].buffer, ep[Other(p)].recvSeq)
  BY DEF Flows, Flow, FlowOf
<1> HIDE DEF x
<1>2. x \in Seq(Seq(Nat)) BY <1>1, AssembledType
<1>3. x = x \o <<>> /\ <<>> \in Seq(Seq(Nat)) BY <1>2, ConcatEmptySeq, EmptySeq
<1>4. QED BY <1>3 DEF Moves, x

\* A step of p that hands frames to the link and messages to H.245, and sends
\* no message.
LEMMA MovesCommit ==
    ASSUME NEW K, SrpInv(K), Flows, NEW p \in Peer, NEW t, NEW rest, NEW dead,
           Commit(p, t, rest), DOMAIN t = Fields, t.firstCmd => ep[p].firstCmd,
           sent' = sent, failed' = [failed EXCEPT ![p] = dead],
           SendsOut(sent[p], t, dead, ep[Other(p)].firstCmd),
           PassesUp(sent[Other(p)], rcvd[p], t),
           rest \in Seq(FramesOf(ChunksOf(sent[Other(p)]), Answerable(ep[Other(p)]))),
           \A h : Numbers(rest, h) \subseteq Numbers(link[p], h)
    PROVE  Flows' /\ \A r \in Peer : Moves(r, K)
<1> DEFINE q == Other(p)
<1>1. q \in Peer /\ q # p /\ Other(q) = p BY OtherPeer
<1>2. failed'[p] = dead /\ failed'[q] = failed[q]
  <2>1. DOMAIN failed = Peer BY DEF SrpInv
  <2>2. QED BY <1>1, <2>1
<1>3. GrownTo(sent[p], sent[p]) BY GrownSame DEF Flows, Flow, FlowOf
<1>4. sent'[p] = sent[p] /\ sent'[q] = sent[q] OBVIOUS
<1>5. Flows' /\ rcvd'[q] = rcvd[q] /\ rcvd'[p] = rcvd[p] \o Reassemble(t).pdus
  BY <1>2, <1>3, <1>4, FlowCommit
<1>6. Reassemble(t).pdus \in Seq(Seq(Nat)) BY DEF PassesUp
<1>7. Moves(p, K) BY <1>4, <1>5, MovesNot
<1>8. Moves(q, K) BY <1>1, <1>4, <1>5, <1>6 DEF Moves
<1> HIDE DEF q
<1>9. \A r \in Peer : r = p \/ r = q BY OnlyOther DEF q
<1>10. QED BY <1>5, <1>7, <1>8, <1>9

\* Every step keeps both directions.
LEMMA FlowNext ==
    ASSUME NEW K, NoWindowWrap(K), Window >= 2, SrpInv(K), RxInv(K), Flows, [Next]_vars
    PROVE  Flows' /\ \A r \in Peer : Moves(r, K)
<1>1. CASE UNCHANGED vars
  <2>1. UNCHANGED <<ep, link, sent, rcvd, failed>> BY <1>1 DEF vars
  <2>2. Flows' BY <2>1 DEF Flows, Flow
  <2>3. QED BY <2>1, <2>2, MovesNot
<1>2. ASSUME NEW p \in Peer
      PROVE  \A h : Numbers(link[p], h) \subseteq Numbers(link[p], h)
  OBVIOUS
<1>3. ASSUME NEW p \in Peer
      PROVE  /\ link[p] \in Seq(FramesOf(ChunksOf(sent[Other(p)]), Answerable(ep[Other(p)])))
             /\ \A t : SameReceiver(t, ep[p]) =>
                  /\ PassesUp(sent[Other(p)], rcvd[p], t) /\ DOMAIN t = Fields
                  /\ t.firstCmd = ep[p].firstCmd
  <2>1. FlowOf(sent[Other(p)], ep[Other(p)], ep[p], link[p], rcvd[p], failed[Other(p)])
    BY TerminalFacts
  <2>2. link[p] \in Seq(FramesOf(ChunksOf(sent[Other(p)]), Answerable(ep[Other(p)])))
    BY <2>1 DEF FlowOf
  <2>3. QED BY <2>1, <2>2, SamePassesUp DEF SameReceiver
<1>4. ASSUME NEW p \in Peer, NEW dead, failed[p] = dead, failed' = failed
      PROVE  failed' = [failed EXCEPT ![p] = dead]
  BY <1>4 DEF SrpInv
<1>5. ASSUME NEW p \in Peer, NEW k \in Chunks, UpperLayerRx(p, k)
      PROVE  Flows' /\ \A r \in Peer : Moves(r, K)
  <2> DEFINE q == Other(p)
  <2> DEFINE t == AfterMessage(p, k)
  <2> DEFINE ms == sent[p]
  <2> DEFINE m == Append(ms, Pdu(Total(ms), k))
  <2>1. /\ ~failed[p] /\ Commit(p, t, link[p])
        /\ sent'[p] = m /\ sent'[q] = sent[q] /\ failed' = failed
        /\ Total(ms) \in Nat /\ Total(ms) <= K * Len(ms) /\ Len(ms) < MsgsOf[p]
        /\ GrownTo(m, ms) /\ SendsOut(m, t, FALSE, ep[q].firstCmd)
        /\ SameReceiver(t, ep[p])
    BY <1>5, MessageStep
  <2>2. q \in Peer /\ q # p /\ Other(q) = p BY OtherPeer
  <2>3. failed'[p] = FALSE /\ failed'[q] = failed[q] BY <2>1, <2>2 DEF SrpInv
  <2> HIDE DEF t, m
  <2>4. /\ PassesUp(sent[q], rcvd[p], t) /\ DOMAIN t = Fields /\ (t.firstCmd => ep[p].firstCmd)
        /\ link[p] \in Seq(FramesOf(ChunksOf(sent[q]), Answerable(ep[q])))
    BY <1>3, <2>1
  <2>5. Flows' /\ rcvd'[q] = rcvd[q] /\ rcvd'[p] = rcvd[p] \o Reassemble(t).pdus
    BY <1>2, <2>1, <2>3, <2>4, FlowCommit
  <2>6. Reassemble(t).pdus \in Seq(Seq(Nat)) BY <2>4 DEF PassesUp
  <2>7. Moves(p, K) BY <2>1, <2>5 DEF Moves, m
  <2>8. Moves(q, K) BY <2>1, <2>2, <2>5, <2>6 DEF Moves
  <2> HIDE DEF q
  <2>9. \A r \in Peer : r = p \/ r = q BY OnlyOther DEF q
  <2>10. QED BY <2>5, <2>7, <2>8, <2>9
<1>6. ASSUME NEW p \in Peer, LowerLayerRx(p) PROVE Flows' /\ \A r \in Peer : Moves(r, K)
  <2> DEFINE q == Other(p)
  <2> DEFINE f == Head(link[p])
  <2> DEFINE t == SrpFrame(SrpNoteFrame(ep[p], f), f)
  <2>1. /\ ~failed[p] /\ Commit(p, t, Tail(link[p]))
        /\ SendsOut(sent[p], t, FALSE, ep[q].firstCmd) /\ PassesUp(sent[q], rcvd[p], t)
        /\ (t.firstCmd => ep[p].firstCmd) /\ DOMAIN t = Fields
        /\ Tail(link[p]) \in Seq(FramesOf(ChunksOf(sent[q]), Answerable(ep[q])))
        /\ \A h : Numbers(Tail(link[p]), h) \subseteq Numbers(link[p], h)
    BY <1>6, FrameStep
  <2> HIDE DEF t
  <2>2. sent' = sent /\ failed' = failed BY <1>6 DEF LowerLayerRx
  <2>3. failed[p] = FALSE BY <2>1 DEF SrpInv
  <2>4. failed' = [failed EXCEPT ![p] = FALSE] BY <1>4, <2>2, <2>3
  <2>5. QED BY <2>1, <2>2, <2>4, MovesCommit
<1>7. ASSUME NEW p \in Peer, LoseFrame(p) PROVE Flows' /\ \A r \in Peer : Moves(r, K)
  <2>1. sent' = sent /\ rcvd' = rcvd BY <1>7 DEF LoseFrame
  <2>2. QED BY <1>7, <2>1, FlowLose, MovesNot
<1>8. ASSUME NEW p \in Peer, Retransmit(p) PROVE Flows' /\ \A r \in Peer : Moves(r, K)
  <2>1. PICK t : /\ ~failed[p] /\ Commit(p, t, link[p])
                 /\ SendsOut(sent[p], t, FALSE, ep[Other(p)].firstCmd)
                 /\ SameReceiver(t, ep[p])
    BY <1>8, ResendStep
  <2>2. sent' = sent /\ failed' = failed BY <1>8 DEF Retransmit
  <2>3. failed[p] = FALSE BY <2>1 DEF SrpInv
  <2>4. failed' = [failed EXCEPT ![p] = FALSE] BY <1>4, <2>2, <2>3
  <2>5. QED BY <1>2, <1>3, <2>1, <2>2, <2>4, MovesCommit
<1>9. ASSUME NEW p \in Peer, TransmissionFailure(p) PROVE Flows' /\ \A r \in Peer : Moves(r, K)
  <2>1. PICK t : /\ Commit(p, t, link[p]) /\ sent' = sent
                 /\ failed' = [failed EXCEPT ![p] = TRUE]
                 /\ SendsOut(sent[p], t, TRUE, ep[Other(p)].firstCmd) /\ SameReceiver(t, ep[p])
    BY <1>9, GiveUpStep
  <2>2. QED BY <1>2, <1>3, <2>1, MovesCommit
<1>10. ASSUME NEW p \in Peer, SrpStop(p) \/ UseNSRP(p) \/ DisableWNSRPSupport(p)
       PROVE  Flows' /\ \A r \in Peer : Moves(r, K)
  <2>1. PICK u :
             /\ ep' = [ep EXCEPT ![p] = u] /\ UNCHANGED <<call, link, lost, sent, rcvd, failed>>
             /\ DOMAIN u = Fields /\ u.firstCmd = ep[p].firstCmd /\ u.recvSeq = ep[p].recvSeq
             /\ u.buffer = ep[p].buffer /\ u.up = ep[p].up
             /\ u.pending = ep[p].pending \/ u.pending = <<>>
             /\ \/ failed[p]
                \/ /\ Carries(u, ChunksOf(sent[p]), {})
                   /\ u.queue = ep[p].queue /\ u.sendSeq = ep[p].sendSeq
    BY <1>10, ControlStep
  <2>2. Flows' BY <2>1, FlowOwn
  <2>3. QED BY <2>1, <2>2, MovesNot
<1>11. QED BY <1>1, <1>5, <1>6, <1>7, <1>8, <1>9, <1>10 DEF Next

\* Something that gets longer keeps what it is a prefix of.
LEMMA LongerPrefix ==
    ASSUME NEW S, NEW ms \in Seq(S), NEW rc \in Seq(S), NEW x \in Seq(S), NEW i \in 0..Len(ms),
           NEW j \in 0..Len(ms), rc = SubSeq(ms, 1, i), rc \o x = SubSeq(ms, 1, j)
    PROVE  \/ rc \o x = rc
           \/ \E n \in Len(rc) + 1..Len(ms) : rc \o x = SubSeq(ms, 1, n)
<1>1. Len(ms) \in Nat /\ i \in Nat /\ j \in Nat /\ Len(x) \in Nat BY LenProperties
<1>2. ASSUME NEW n \in 0..Len(ms) PROVE Len(SubSeq(ms, 1, n)) = n
  <2>1. n \in Nat /\ \A l \in 1..n : ms[l] \in S BY <1>1, LenProperties
  <2>2. Len(SubSeq(ms, 1, n)) = IF 1 <= n THEN n - 1 + 1 ELSE 0 BY <2>1, SubSeqProperties
  <2>3. QED BY <2>1, <2>2
<1>3. Len(rc) = i /\ Len(rc \o x) = j BY <1>2
<1>4. Len(rc \o x) = Len(rc) + Len(x) BY ConcatProperties
<1>5. CASE x = <<>> BY <1>5, ConcatEmptySeq
<1>6. CASE x # <<>>
  <2>1. Len(x) > 0 BY <1>1, <1>6, EmptySeq
  <2>2. j \in Len(rc) + 1..Len(ms) BY <1>1, <1>3, <1>4, <2>1
  <2>3. QED BY <2>2
<1>7. QED BY <1>5, <1>6

\* A step, as the abstract transport sees it.
LEMMA MovesDeliver ==
    ASSUME NEW K, Flows, Flows', NEW p \in Peer, Moves(p, K), sent'[p] = sent[p]
    PROVE  LET rc == rcvd[Other(p)] IN
           \/ rcvd'[Other(p)] = rc
           \/ \E n \in Len(rc) + 1..Len(sent[p]) : rcvd'[Other(p)] = SubSeq(sent[p], 1, n)
<1> DEFINE q == Other(p)
<1> DEFINE ms == sent[p]
<1> DEFINE rc == rcvd[q]
<1>1. Consecutive(ms) /\ Assembled(ms, rc, ep[q].buffer, ep[q].recvSeq)
  BY DEF Flows, Flow, FlowOf
<1>2. Assembled(sent'[p], rcvd'[q], ep'[q].buffer, ep'[q].recvSeq)
  <2>1. Flow(p)' BY DEF Flows
  <2>2. QED BY <2>1 DEF Flow, FlowOf
<1>3. PICK i \in 0..Len(ms) : rc = SubSeq(ms, 1, i) BY <1>1 DEF Assembled
<1>4. PICK j \in 0..Len(ms) : rcvd'[q] = SubSeq(ms, 1, j) BY <1>2 DEF Assembled
<1>5. rc \in Seq(Seq(Nat)) /\ ms \in Seq(Seq(Nat))
  <2>1. ms \in Seq(Seq(Nat) \ {<<>>}) /\ Seq(Nat) \ {<<>>} \subseteq Seq(Nat)
    BY <1>1 DEF Consecutive
  <2> HIDE DEF ms, rc
  <2>2. ms \in Seq(Seq(Nat)) BY <2>1, MoreSeq
  <2>3. QED BY <1>1, <2>2, AssembledType
<1>6. CASE \E x \in Seq(Seq(Nat)) : rcvd'[q] = rc \o x
  <2>1. PICK x \in Seq(Seq(Nat)) : rcvd'[q] = rc \o x BY <1>6
  <2> HIDE DEF ms, rc, q
  <2>2. \/ rc \o x = rc
        \/ \E n \in Len(rc) + 1..Len(ms) : rc \o x = SubSeq(ms, 1, n)
    <3>1. rc \o x = SubSeq(ms, 1, j) BY <1>4, <2>1
    <3> DEFINE M == Seq(Nat)
    <3>2. /\ ms \in Seq(M) /\ rc \in Seq(M) /\ x \in Seq(M) /\ i \in 0..Len(ms)
          /\ j \in 0..Len(ms) /\ rc = SubSeq(ms, 1, i)
      BY <1>3, <1>5
    <3>3. Len(ms) \in Nat /\ Len(rc) \in Nat BY <1>5, LenProperties
    <3> HIDE DEF M
    <3>4. QED BY ONLY <3>1, <3>2, <3>3, LongerPrefix, SMTT(60)
  <2>3. QED BY <2>1, <2>2 DEF ms, rc, q
<1>7. CASE rcvd'[q] = rc BY <1>7
<1>8. QED BY <1>6, <1>7 DEF Moves

\* One direction, from p, as the abstract transport sees it.
LEMMA MovesTransport ==
    ASSUME Peer = {T1, T2}, NEW p \in Peer, NoWindowWrap(Max(Chunks)), Flows, Flows',
           Moves(p, Max(Chunks))
    PROVE  LET q == Other(p) IN
           \/ (\E m \in Messages : sent'[p] = Append(sent[p], m)) /\ rcvd'[q] = rcvd[q]
           \/ /\ \E n \in Len(rcvd[q]) + 1..Len(sent[p]) : rcvd'[q] = SubSeq(sent[p], 1, n)
              /\ sent'[p] = sent[p]
           \/ sent'[p] = sent[p] /\ rcvd'[q] = rcvd[q]
<1> DEFINE q == Other(p)
<1> DEFINE K == Max(Chunks)
<1> DEFINE ms == sent[p]
<1>1. CASE sent'[p] = sent[p] BY <1>1, MovesDeliver
<1>2. CASE sent'[p] # sent[p]
  <2>1. /\ rcvd'[q] = rcvd[q] /\ Total(ms) \in Nat /\ Total(ms) <= K * Len(ms)
        /\ Len(ms) < MsgsOf[p]
    BY <1>2 DEF Moves
  <2>2. PICK k \in Chunks : sent'[p] = Append(ms, Pdu(Total(ms), k)) BY <1>2 DEF Moves
  <2> DEFINE N == MsgsOf[T1] + MsgsOf[T2]
  <2>3. K \in Nat /\ MsgsOf[T1] \in Nat /\ MsgsOf[T2] \in Nat BY SrpAssumption DEF NoWindowWrap, NoWrap
  <2>4. Len(ms) \in Nat
    <3>1. Consecutive(ms) BY DEF Flows, Flow, FlowOf
    <3>2. QED BY <3>1, LenProperties DEF Consecutive
  <2>5. N \in Nat /\ Len(ms) <= N
    <3>1. p = T1 \/ p = T2 OBVIOUS
    <3>2. QED BY <2>1, <2>3, <2>4, <3>1
  <2> DEFINE t == Total(ms)
  <2> DEFINE l == Len(ms)
  <2> HIDE DEF K, N, t, l
  <2>6. K * l <= K * N BY <2>3, <2>4, <2>5, ProductGrows DEF l
  <2>7. t \in 0..K * N
    <3>1. K * l \in Nat /\ K * N \in Nat BY <2>3, <2>4, <2>5 DEF l
    <3>2. t \in Nat /\ t <= K * l BY <2>1 DEF t, l, K
    <3>3. QED BY <2>6, <3>1, <3>2
  <2>8. Pdu(t, k) \in Messages BY <2>7 DEF Messages, K, N
  <2>9. QED BY <2>1, <2>2, <2>8 DEF t
<1>3. QED BY <1>1, <1>2

\* H.245 messages come out whole, in order and each once at the other end
\* (ImplementsTransport), whatever frames the link loses, whichever modes the
\* terminals settle on and however late their responses are: as long as
\* neither the sequence numbers nor the window on top of them wrap.
THEOREM SrpTransportCorrect ==
    ASSUME Peer = {T1, T2}, T1 # T2, NoWindowWrap(Max(Chunks)), Window >= 2
    PROVE  Spec => ImplementsTransport
<1> DEFINE K == Max(Chunks)
<1>1. NoWrap(K) /\ K \in Nat BY DEF NoWindowWrap, NoWrap
<1>2. T1 \in Peer /\ T2 \in Peer /\ Other(T1) = T2 /\ Other(T2) = T1
  <2>1. T1 \in Peer /\ T2 \in Peer OBVIOUS
  <2>2. Other(T1) \in Peer /\ Other(T1) # T1 /\ Other(T2) \in Peer /\ Other(T2) # T2
    BY <2>1, OtherPeer
  <2>3. QED BY <2>1, <2>2
<1>3. Init => SrpInv(K) /\ RxInv(K) /\ Flows BY <1>1, InitKeeps, RxInit, FlowInit
<1>4. SrpInv(K) /\ RxInv(K) /\ Flows /\ [Next]_vars
        => SrpInv(K)' /\ RxInv(K)' /\ Flows' /\ \A r \in Peer : Moves(r, K)
  BY <1>1, NextKeeps, RxNext, FlowNext
<1>5. Init => There!Init /\ Back!Init BY <1>2 DEF Init, There!Init, Back!Init
<1>6. SrpInv(K) /\ RxInv(K) /\ Flows /\ [Next]_vars
        => [There!Submit \/ There!Deliver]_<<sent[T1], rcvd[T2]>>
  <2> SUFFICES ASSUME Flows, Flows', Moves(T1, K)
               PROVE  [There!Submit \/ There!Deliver]_<<sent[T1], rcvd[T2]>>
    BY <1>2, <1>4
  <2>1. \/ (\E m \in Messages : sent'[T1] = Append(sent[T1], m)) /\ rcvd'[T2] = rcvd[T2]
        \/ /\ \E n \in Len(rcvd[T2]) + 1..Len(sent[T1]) : rcvd'[T2] = SubSeq(sent[T1], 1, n)
           /\ sent'[T1] = sent[T1]
        \/ sent'[T1] = sent[T1] /\ rcvd'[T2] = rcvd[T2]
    BY <1>2, MovesTransport
  <2>2. QED BY <2>1 DEF There!Submit, There!Deliver
<1>7. SrpInv(K) /\ RxInv(K) /\ Flows /\ [Next]_vars
        => [Back!Submit \/ Back!Deliver]_<<sent[T2], rcvd[T1]>>
  <2> SUFFICES ASSUME Flows, Flows', Moves(T2, K)
               PROVE  [Back!Submit \/ Back!Deliver]_<<sent[T2], rcvd[T1]>>
    BY <1>2, <1>4
  <2>1. \/ (\E m \in Messages : sent'[T2] = Append(sent[T2], m)) /\ rcvd'[T1] = rcvd[T1]
        \/ /\ \E n \in Len(rcvd[T1]) + 1..Len(sent[T2]) : rcvd'[T1] = SubSeq(sent[T2], 1, n)
           /\ sent'[T2] = sent[T2]
        \/ sent'[T2] = sent[T2] /\ rcvd'[T1] = rcvd[T1]
    BY <1>2, MovesTransport
  <2>2. QED BY <2>1 DEF Back!Submit, Back!Deliver
<1>8. QED
  BY <1>3, <1>4, <1>5, <1>6, <1>7, PTL DEF Spec, ImplementsTransport, There!Spec, Back!Spec

-----------------------------------------------------------------------------
(* A chunk that has left the wait queue has been received.                 *)

\* A chunk with this number waits.
Waits(s, n) == \E j \in 1..Len(s.queue) : s.queue[j].seq = n

\* Frames whose responses answer chunks that r has.
AckFrames(r) ==
    {f \in FrameSet : f.header \in ResponseHeader =>
                        f.header # "SRP_RESPONSE" /\ Got(r, f.chunk.seq)}

\* What s sends waits or is at its peer r, and the responses under way from r
\* are true.
AckOf(s, r, frames) ==
    /\ r.useNSRP /\ Old(r)
    /\ frames \in Seq(AckFrames(r))
    /\ \A n \in Nat : n < s.sendSeq => Waits(s, n) \/ Got(r, n)

Ack(p) ==
    ~call.level0 /\ ~failed[p] /\ ~failed[Other(p)] => AckOf(ep[p], ep[Other(p)], link[p])

Acks == \A p \in Peer : Ack(p)

\* The chunks of a call are fewer than the numbers that are not old.
HalfRange(K) == NoWindowWrap(K) /\ \A p \in Peer : K * MsgsOf[p] <= SeqSpace - Behind

\* A number from the round before.
LEMMA ModBefore ==
    ASSUME NEW a \in Nat, NEW b \in Nat, 0 < a, a < b
    PROVE  (0 - a) % b = b - a
OBVIOUS

\* What the receiver of r has, t has too.
Keeps(t, r) ==
    /\ t.useNSRP = r.useNSRP /\ (Old(r) => Old(t))
    /\ \A n \in Nat : Got(r, n) => Got(t, n)

\* A receiver that is left alone.
LEMMA SameHas ==
    ASSUME NEW t, NEW r, SameReceiver(t, r), t.useNSRP = r.useNSRP
    PROVE  Keeps(t, r)
BY DEF Keeps, SameReceiver, Old, Got

\* So responses that were true are true.
LEMMA AckFramesMore ==
    ASSUME NEW t, NEW r, Keeps(t, r)
    PROVE  AckFrames(r) \subseteq AckFrames(t)
<1>1. \A f \in FrameSet : f.chunk.seq \in Nat
  BY SrpAssumption DEF FrameSet, ChunkSet
<1>2. QED BY <1>1 DEF AckFrames, Keeps

\* Commands answer nothing.
LEMMA CommandsAck ==
    ASSUME NEW r, NEW C, C \subseteq ChunkSet, NEW tx \in Seq(FramesOf(C, {}))
    PROVE  tx \in Seq(AckFrames(r))
<1>1. FramesOf(C, {}) \subseteq AckFrames(r)
  BY DEF FramesOf, AckFrames, FrameSet, CommandHeader, ResponseHeader
<1>2. QED BY <1>1, MoreSeq

\* What t, which is r with more, answers.
LEMMA AnswersAck ==
    ASSUME NEW t, NEW r, NEW c \in ChunkSet, NEW B, Answers(t, r, c, B), r.tx = <<>>,
           r.useNSRP, Old(r), B <= SeqSpace - Behind
    PROVE  t.tx \in Seq(AckFrames(t))
<1>1. CASE t.tx = r.tx BY <1>1, EmptySeq
<1>2. CASE \E h \in ResponseHeader :
             /\ t.tx = r.tx \o <<SrpResponseCreate(c.seq, h)>>
             /\ h # "SRP_RESPONSE" /\ Got(t, c.seq)
  <2>1. PICK h \in ResponseHeader :
             /\ t.tx = r.tx \o <<SrpResponseCreate(c.seq, h)>>
             /\ h # "SRP_RESPONSE" /\ Got(t, c.seq)
    BY <1>2
  <2> DEFINE g == SrpResponseCreate(c.seq, h)
  <2>2. /\ g \in [header : ResponseHeader, chunk : ChunkSet] /\ g.header = h
        /\ g.chunk.seq = c.seq
    BY <2>1, ResponseType
  <2> HIDE DEF g
  <2>3. g \in FrameSet BY <2>2 DEF FrameSet
  <2>4. g \in AckFrames(t) BY <2>1, <2>2, <2>3 DEF AckFrames
  <2>5. <<g>> \in Seq(AckFrames(t)) BY <2>4, OneFrame
  <2>6. t.tx = <<g>> BY <2>1, <2>5 DEF g
  <2>7. QED BY <2>5, <2>6
<1>3. QED BY <1>1, <1>2 DEF Answers

\* A step of p that hands frames to the link.
LEMMA AckCommit ==
    ASSUME NEW s, NEW r, NEW in, NEW out, AckOf(s, r, in), AckOf(r, s, out),
           NEW t, DOMAIN t = Fields, NEW rest \in Seq(AckFrames(r)),
           \A n \in Nat : n < t.sendSeq => Waits(t, n) \/ Got(r, n),
           Keeps(t, s), t.tx \in Seq(AckFrames(t))
    PROVE  LET all == out \o t.tx
               cut == SubSeq(all, 1, Min({LinkCap, Len(all)}))
           IN  AckOf(Committed(t), r, rest) /\ AckOf(r, Committed(t), cut)
<1> DEFINE all == out \o t.tx
<1> DEFINE cut == SubSeq(all, 1, Min({LinkCap, Len(all)}))
<1> DEFINE u == Committed(t)
<1>1. /\ u.queue = t.queue /\ u.sendSeq = t.sendSeq /\ u.recvSeq = t.recvSeq
      /\ u.pending = t.pending /\ u.useNSRP = t.useNSRP /\ u.oldest = t.oldest
  BY CommittedFields
<1> HIDE DEF u
<1>2. Keeps(u, t) BY <1>1 DEF Keeps, Old, Got
<1>3. Keeps(u, s) BY <1>2 DEF Keeps
<1>4. AckFrames(s) \subseteq AckFrames(u) /\ AckFrames(t) \subseteq AckFrames(u)
  BY <1>2, <1>3, AckFramesMore
<1>5. out \in Seq(AckFrames(u)) /\ t.tx \in Seq(AckFrames(u)) BY <1>4, MoreSeq DEF AckOf
<1>6. cut \in Seq(AckFrames(u)) BY <1>5, CutIn
<1> HIDE DEF cut
<1>7. AckOf(u, r, rest) BY <1>1 DEF AckOf, Waits
<1>8. AckOf(r, u, cut) BY <1>3, <1>6 DEF AckOf, Keeps
<1>9. QED BY <1>7, <1>8 DEF u, cut

\* The same in the whole state.
LEMMA AckStep ==
    ASSUME NEW K, SrpInv(K), Acks, ~call.level0, NEW p \in Peer, NEW t, NEW rest,
           Commit(p, t, rest), DOMAIN t = Fields, failed' = failed,
           LET r == ep[Other(p)] IN
           AckOf(ep[p], r, link[p]) /\ AckOf(r, ep[p], link[Other(p)]) =>
             /\ rest \in Seq(AckFrames(r))
             /\ \A n \in Nat : n < t.sendSeq => Waits(t, n) \/ Got(r, n)
             /\ Keeps(t, ep[p]) /\ t.tx \in Seq(AckFrames(t))
    PROVE  Acks'
<1> DEFINE q == Other(p)
<1> DEFINE all == link[q] \o t.tx
<1> DEFINE cut == SubSeq(all, 1, Min({LinkCap, Len(all)}))
<1>1. q \in Peer /\ q # p /\ Other(q) = p BY OtherPeer
<1>2. DOMAIN ep = Peer /\ DOMAIN link = Peer BY DEF SrpInv
<1>3. /\ ep' = [ep EXCEPT ![p] = Committed(t)]
      /\ link' = [link EXCEPT ![p] = rest, ![q] = cut] /\ call' = call
  BY DEF Commit, Committed
<1>4. ASSUME ~failed[p], ~failed[q]
      PROVE  AckOf(Committed(t), ep[q], rest) /\ AckOf(ep[q], Committed(t), cut)
  <2>1. AckOf(ep[p], ep[q], link[p]) /\ AckOf(ep[q], ep[p], link[q])
    BY <1>1, <1>4 DEF Acks, Ack
  <2>2. /\ rest \in Seq(AckFrames(ep[q]))
        /\ \A n \in Nat : n < t.sendSeq => Waits(t, n) \/ Got(ep[q], n)
        /\ Keeps(t, ep[p]) /\ t.tx \in Seq(AckFrames(t))
    BY <2>1
  <2>3. QED BY <2>1, <2>2, AckCommit
<1> HIDE DEF cut
<1>5. ep'[p] = Committed(t) /\ ep'[q] = ep[q] /\ link'[p] = rest /\ link'[q] = cut
  BY <1>1, <1>2, <1>3
<1>6. Ack(p)' BY <1>4, <1>5 DEF Ack, q
<1>7. Ack(q)' BY <1>1, <1>4, <1>5 DEF Ack
<1> HIDE DEF q
<1>8. \A r \in Peer : r = p \/ r = q BY OnlyOther DEF q
<1>9. QED BY <1>6, <1>7, <1>8 DEF Acks

\* At the start.
LEMMA AckInit ==
    ASSUME Init
    PROVE  Acks
<1> SUFFICES ASSUME NEW p \in Peer, ~call.level0
             PROVE  AckOf(ep[p], ep[Other(p)], link[p])
  BY DEF Acks, Ack
<1> DEFINE q == Other(p)
<1> DEFINE r == SrpStart(q, call)
<1>1. q \in Peer BY OtherPeer
<1>2. ep[p] = SrpStart(p, call) /\ ep[q] = r /\ link[p] = <<>> BY <1>1 DEF Init
<1>3. ep[p].sendSeq = 0 BY <1>2 DEF SrpStart
<1>4. r.useNSRP /\ r.recvSeq = 0 /\ r.oldest = (0 - Behind) % SeqSpace BY DEF SrpStart, Behind
<1> HIDE DEF r, q
<1>5. Old(r)
  <2> DEFINE D == Behind
  <2>1. D \in Nat /\ D < SeqSpace /\ SeqSpace \in Nat BY BehindType
  <2>2. r.oldest = (0 - D) % SeqSpace BY <1>4
  <2> HIDE DEF D
  <2>3. CASE D = 0
    <3>1. (0 - D) % SeqSpace = 0 BY <2>1, <2>3
    <3>2. QED BY <1>4, <2>1, <2>2, <2>3, <3>1 DEF Old, D
  <2>4. CASE D # 0
    <3>0. D \in Nat /\ SeqSpace \in Nat /\ 0 < D /\ D < SeqSpace BY <2>1, <2>4
    <3>1. (0 - D) % SeqSpace = SeqSpace - D
      <4> DEFINE S == SeqSpace
      <4>1. S \in Nat /\ D \in Nat /\ 0 < D /\ D < S BY <3>0
      <4> HIDE DEF S
      <4>2. (0 - D) % S = S - D BY ONLY <4>1, ModBefore
      <4>3. QED BY <4>2 DEF S
    <3>2. r.oldest = 0 + SeqSpace - D /\ 0 < D BY <2>1, <2>2, <2>4, <3>1
    <3>3. QED BY <1>4, <3>2 DEF Old, D
  <2>5. QED BY <2>3, <2>4
<1>6. \A n \in Nat : ~(n < ep[p].sendSeq) BY <1>3
<1>7. <<>> \in Seq(AckFrames(r)) BY EmptySeq
<1>8. AckOf(ep[p], r, <<>>) BY <1>4, <1>5, <1>6, <1>7 DEF AckOf
<1>9. QED BY <1>2, <1>8 DEF q

-----------------------------------------------------------------------------
(* Every step keeps that.                                                  *)

\* A terminal that is not in failure.
LEMMA AckFacts ==
    ASSUME NEW K, NoWindowWrap(K), SrpInv(K), RxInv(K), Flows, NEW p \in Peer, ~failed[p]
    PROVE  /\ DOMAIN ep[p] = Fields /\ ep[p].sendSeq \in Nat /\ ep[p].tx = <<>> /\ ep[p].up = <<>>
           /\ Carries(ep[p], ChunksOf(sent[p]), {}) /\ ChunksOf(sent[p]) \subseteq ChunkSet
           /\ RecvInv(ep[p], Limit(p, K))
<1>1. PeerInv(p, K) /\ DOMAIN ep[p] = Fields /\ RecvInv(ep[p], Limit(p, K))
      /\ FlowOf(sent[p], ep[p], ep[Other(p)], link[Other(p)], rcvd[Other(p)], failed[p])
      /\ FlowOf(sent[Other(p)], ep[Other(p)], ep[p], link[p], rcvd[p], failed[Other(p)])
  BY TerminalFacts
<1>2. ep[p].sendSeq \in Nat /\ ep[p].tx = <<>>
  BY <1>1 DEF PeerInv, TerminalInv, Terminal
<1>3. ep[p].up = <<>> BY <1>1 DEF FlowOf
<1>4. Carries(ep[p], ChunksOf(sent[p]), {}) BY <1>1 DEF FlowOf
<1>5. ChunksOf(sent[p]) \subseteq ChunkSet BY DEF ChunksOf
<1>6. QED BY <1>1, <1>2, <1>3, <1>4, <1>5

\* A message.
LEMMA AckMessage ==
    ASSUME NEW K, NoWindowWrap(K), Window >= 2, SrpInv(K), RxInv(K), Flows, Acks,
           ~call.level0, NEW p \in Peer, NEW k \in Chunks, UpperLayerRx(p, k)
    PROVE  Acks'
<1> DEFINE s == ep[p]
<1> DEFINE t == AfterMessage(p, k)
<1> DEFINE r == ep[Other(p)]
<1> DEFINE C == ChunksOf(Append(sent[p], Pdu(Total(sent[p]), k)))
<1>1. /\ ~failed[p] /\ Commit(p, t, link[p]) /\ failed' = failed
      /\ SameReceiver(t, s) /\ Carries(t, C, {}) /\ Joins(t, s)
  BY MessageStep
<1>2. s.sendSeq \in Nat /\ C \subseteq ChunkSet BY <1>1, AckFacts DEF ChunksOf
<1> HIDE DEF t, C
<1>3. DOMAIN t = Fields BY <1>1 DEF SameReceiver
<1>4. Keeps(t, s) BY <1>1, SameHas DEF Joins
<1>5. t.tx \in Seq(AckFrames(t))
  <2>1. t.tx \in Seq(FramesOf(C, {})) BY <1>1 DEF Carries
  <2>2. QED BY <1>2, <2>1, CommandsAck
<1>6. ASSUME AckOf(s, r, link[p])
      PROVE  /\ link[p] \in Seq(AckFrames(r))
             /\ \A n \in Nat : n < t.sendSeq => Waits(t, n) \/ Got(r, n)
  <2> HIDE DEF s, r
  <2>1. link[p] \in Seq(AckFrames(r)) BY <1>6 DEF AckOf
  <2>2. ASSUME NEW n \in Nat, n < t.sendSeq, ~Got(r, n) PROVE Waits(t, n)
    <3>1. CASE n < s.sendSeq
      <4>1. PICK i \in 1..Len(s.queue) : s.queue[i].seq = n
        BY <1>6, <2>2, <3>1 DEF AckOf, Waits
      <4>2. PICK j \in 1..Len(t.queue) : t.queue[j] = s.queue[i] BY <1>1 DEF Joins
      <4>3. QED BY <4>1, <4>2 DEF Waits
    <3>2. CASE ~(n < s.sendSeq)
      <4>1. s.sendSeq <= n BY <1>2, <3>2
      <4>2. QED BY <1>1, <2>2, <4>1 DEF Joins, Waits
    <3>3. QED BY <3>1, <3>2
  <2>3. QED BY <2>1, <2>2
<1>7. QED BY <1>1, <1>3, <1>4, <1>5, <1>6, AckStep

\* A timeout with retries left.
LEMMA AckResend ==
    ASSUME NEW K, NoWindowWrap(K), SrpInv(K), RxInv(K), Flows, Acks,
           ~call.level0, NEW p \in Peer, Retransmit(p)
    PROVE  Acks'
<1> DEFINE s == ep[p]
<1> DEFINE r == ep[Other(p)]
<1> DEFINE C == ChunksOf(sent[p])
<1>1. PICK t : /\ ~failed[p] /\ Commit(p, t, link[p])
               /\ SameReceiver(t, s) /\ SameQueue(t, s) /\ Carries(t, C, {})
  BY ResendStep
<1>2. C \subseteq ChunkSet BY DEF ChunksOf
<1>3. failed' = failed BY DEF Retransmit
<1> HIDE DEF C
<1>4. DOMAIN t = Fields /\ t.queue = s.queue /\ t.sendSeq = s.sendSeq BY <1>1 DEF SameQueue
<1>5. Keeps(t, s) BY <1>1, SameHas DEF SameQueue
<1>6. t.tx \in Seq(AckFrames(t))
  <2>1. t.tx \in Seq(FramesOf(C, {})) BY <1>1 DEF Carries
  <2>2. QED BY <1>2, <2>1, CommandsAck
<1>7. ASSUME AckOf(s, r, link[p])
      PROVE  /\ link[p] \in Seq(AckFrames(r))
             /\ \A n \in Nat : n < t.sendSeq => Waits(t, n) \/ Got(r, n)
  BY <1>4, <1>7 DEF AckOf, Waits
<1>8. QED BY <1>1, <1>3, <1>4, <1>5, <1>6, <1>7, AckStep

\* A frame.
LEMMA AckFrame ==
    ASSUME NEW K, HalfRange(K), SrpInv(K), RxInv(K), Flows, Acks,
           ~call.level0, NEW p \in Peer, LowerLayerRx(p)
    PROVE  Acks'
<1> DEFINE q == Other(p)
<1> DEFINE s == ep[p]
<1> DEFINE r == ep[q]
<1> DEFINE f == Head(link[p])
<1> DEFINE s1 == SrpNoteFrame(s, f)
<1> DEFINE t == SrpFrame(s1, f)
<1> DEFINE C == ChunksOf(sent[p])
<1> DEFINE B == Limit(p, K)
<1>1. NoWindowWrap(K) /\ B \in Nat /\ B + Window < SeqSpace /\ B <= SeqSpace - Behind
  BY LimitFacts, OtherPeer DEF HalfRange, Limit
<1>2. /\ ~failed[p] /\ link[p] # <<>> /\ Commit(p, t, Tail(link[p]))
      /\ DOMAIN t = Fields /\ t.sendSeq = s.sendSeq /\ f \in FrameSet
      /\ (f.header \in CommandHeader => f.chunk.seq < B)
      /\ s.firstCmd => s.recvSeq = 0 /\ (f.header = "SRP_COMMAND" => f.chunk.seq = 0)
  BY <1>1, FrameStep
<1>3. failed' = failed BY DEF LowerLayerRx
<1>4. /\ DOMAIN s = Fields /\ s.sendSeq \in Nat /\ s.tx = <<>> /\ s.up = <<>>
      /\ Carries(s, C, {}) /\ C \subseteq ChunkSet /\ RecvInv(s, B)
  BY <1>1, <1>2, AckFacts
<1> HIDE DEF C, B, s, f
<1>5. /\ SameReceiver(s1, s) /\ SameQueue(s1, s) /\ Carries(s1, C, {}) /\ s1.tx = <<>>
      /\ \/ /\ f.header \in CommandHeader
            /\ Took(t, s1, f.chunk) /\ Answers(t, s1, f.chunk, B)
         \/ /\ f.header \in ResponseHeader /\ SameReceiver(t, s) /\ Carries(t, C, {})
            /\ f.header # "SRP_RESPONSE" /\ s.useNSRP => Drops(t, s1, f.chunk.seq)
         \/ t = s1
  BY <1>1, <1>2, <1>4, FrameOutcome
<1> HIDE DEF s1, t
<1>6. s1.queue = s.queue /\ s1.useNSRP = s.useNSRP /\ s1.sendSeq = s.sendSeq
  BY <1>5 DEF SameQueue
<1>7. Keeps(s1, s) BY <1>5, <1>6, SameHas
<1>8. ASSUME AckOf(s, r, link[p]), AckOf(r, s, link[q])
      PROVE  /\ Tail(link[p]) \in Seq(AckFrames(r))
             /\ \A n \in Nat : n < t.sendSeq => Waits(t, n) \/ Got(r, n)
             /\ Keeps(t, s) /\ t.tx \in Seq(AckFrames(t))
  <2> HIDE DEF r
  <2> DEFINE F == AckFrames(r)
  <2>1. link[p] \in Seq(F) /\ s.useNSRP /\ Old(s) BY <1>8 DEF AckOf
  <2>2. Tail(link[p]) \in Seq(F) /\ f \in F
    <3> DEFINE l == link[p]
    <3>1. l \in Seq(F) /\ l # <<>> BY <1>2, <2>1
    <3> HIDE DEF l, F
    <3>2. Tail(l) \in Seq(F) /\ Head(l) \in F BY <3>1, HeadTailProperties
    <3>3. QED BY <3>2 DEF l, f
  <2>3. \A n \in Nat : n < s.sendSeq => Waits(s, n) \/ Got(r, n) BY <1>8 DEF AckOf
  <2>4. s1.useNSRP /\ Old(s1) BY <1>6, <1>7, <2>1 DEF Keeps
  <2>5. CASE f.header \in CommandHeader /\ Took(t, s1, f.chunk) /\ Answers(t, s1, f.chunk, B)
    <3>1. t.queue = s.queue BY <1>6, <2>5 DEF Took
    <3>2. \A n \in Nat : n < t.sendSeq => Waits(t, n) \/ Got(r, n)
      BY <1>2, <2>3, <3>1 DEF Waits
    <3>3. Keeps(t, s1) BY <2>5 DEF Keeps, Took
    <3>4. Keeps(t, s) BY <1>7, <3>3 DEF Keeps
    <3>5. f.chunk \in ChunkSet BY <1>2 DEF FrameSet
    <3>6. t.tx \in Seq(AckFrames(t)) BY <1>1, <1>5, <2>4, <2>5, <3>5, AnswersAck
    <3>7. QED BY <2>2, <3>2, <3>4, <3>6
  <2>6. ASSUME SameReceiver(t, s), Carries(t, C, {}), t.useNSRP = s.useNSRP,
               \A n \in Nat : n < s.sendSeq /\ Waits(s, n) => Waits(t, n) \/ Got(r, n)
        PROVE  /\ \A n \in Nat : n < t.sendSeq => Waits(t, n) \/ Got(r, n)
               /\ Keeps(t, s) /\ t.tx \in Seq(AckFrames(t))
    <3>1. Keeps(t, s) BY <2>6, SameHas
    <3>2. t.tx \in Seq(FramesOf(C, {})) BY <2>6 DEF Carries
    <3>3. t.tx \in Seq(AckFrames(t)) BY <1>4, <3>2, CommandsAck
    <3>4. QED BY <1>2, <2>3, <2>6, <3>1, <3>3
  <2>7. CASE /\ f.header \in ResponseHeader /\ SameReceiver(t, s) /\ Carries(t, C, {})
             /\ f.header # "SRP_RESPONSE" /\ s.useNSRP => Drops(t, s1, f.chunk.seq)
    <3> DEFINE m == f.chunk.seq
    <3>1. f.header # "SRP_RESPONSE" /\ Got(r, m) BY <2>2, <2>7 DEF AckFrames
    <3>2. Drops(t, s1, m) BY <2>1, <2>7, <3>1
    <3>3. t.useNSRP = s.useNSRP BY <1>6, <3>2 DEF Drops
    <3> HIDE DEF m
    <3>4. ASSUME NEW n \in Nat, Waits(s, n) PROVE Waits(t, n) \/ Got(r, n)
      <4>1. CASE n = m BY <3>1, <4>1
      <4>2. CASE n # m
        <5>1. PICK i \in 1..Len(s1.queue) : s1.queue[i].seq = n BY <1>6, <3>4 DEF Waits
        <5>2. PICK j \in 1..Len(t.queue) : t.queue[j] = s1.queue[i]
          BY <3>2, <4>2, <5>1 DEF Drops
        <5>3. QED BY <5>1, <5>2 DEF Waits
      <4>3. QED BY <4>1, <4>2
    <3>5. QED BY <2>2, <2>6, <2>7, <3>3, <3>4
  <2>8. CASE t = s1
    <3>1. \A n \in Nat : Waits(s, n) => Waits(t, n) BY <1>6, <2>8 DEF Waits
    <3>2. QED BY <1>5, <1>6, <2>2, <2>6, <2>8, <3>1
  <2>9. QED BY <1>5, <2>5, <2>7, <2>8
<1>9. QED BY <1>2, <1>3, <1>8, AckStep DEF s, q

\* Every step.
LEMMA AckNext ==
    ASSUME NEW K, HalfRange(K), Window >= 2, SrpInv(K), RxInv(K), Flows, Acks, [Next]_vars
    PROVE  Acks'
<1>1. NoWindowWrap(K) BY DEF HalfRange
<1>2. CASE call.level0
  <2>1. call' = call
    <3>1. ASSUME NEW p \in Peer, NEW t, NEW rest, Commit(p, t, rest) PROVE call' = call
      BY <3>1 DEF Commit
    <3>2. ASSUME NEW p \in Peer, NEW k \in Chunks, UpperLayerRx(p, k) PROVE call' = call
      BY <1>1, <3>1, <3>2, MessageStep
    <3>3. ASSUME NEW p \in Peer, LowerLayerRx(p) PROVE call' = call
      BY <1>1, <3>1, <3>3, FrameStep
    <3>4. ASSUME NEW p \in Peer, LoseFrame(p) PROVE call' = call BY <3>4 DEF LoseFrame
    <3>5. ASSUME NEW p \in Peer, Retransmit(p) PROVE call' = call
      BY <1>1, <3>1, <3>5, ResendStep
    <3>6. ASSUME NEW p \in Peer, TransmissionFailure(p) PROVE call' = call
      BY <1>1, <3>1, <3>6, GiveUpStep
    <3>7. ASSUME NEW p \in Peer, SrpStop(p) \/ UseNSRP(p) \/ DisableWNSRPSupport(p)
          PROVE  call' = call
      BY <3>7, ControlStep
    <3>8. UNCHANGED vars => call' = call BY DEF vars
    <3>9. QED BY <3>2, <3>3, <3>4, <3>5, <3>6, <3>7, <3>8 DEF Next
  <2>2. QED BY <1>2, <2>1 DEF Acks, Ack
<1>3. CASE ~call.level0
  <2>1. CASE UNCHANGED vars BY <2>1 DEF vars, Acks, Ack
  <2>2. ASSUME NEW p \in Peer, NEW k \in Chunks, UpperLayerRx(p, k) PROVE Acks'
    BY <1>1, <1>3, <2>2, AckMessage
  <2>3. ASSUME NEW p \in Peer, LowerLayerRx(p) PROVE Acks'
    BY <1>3, <2>3, AckFrame
  <2>4. ASSUME NEW p \in Peer, LoseFrame(p) PROVE Acks'
    <3>1. /\ link[p] # <<>> /\ link' = [link EXCEPT ![p] = Tail(@)]
          /\ UNCHANGED <<ep, call, failed>>
      BY <2>4 DEF LoseFrame
    <3>2. DOMAIN link = Peer BY DEF SrpInv
    <3>3. ASSUME NEW x \in Peer, AckOf(ep[x], ep[Other(x)], link[x])
          PROVE  AckOf(ep[x], ep[Other(x)], link'[x])
      <4> DEFINE F == AckFrames(ep[Other(x)])
      <4> DEFINE l == link[x]
      <4>1. l \in Seq(F) BY <3>3 DEF AckOf
      <4>2. link'[x] \in Seq(F)
        <5>1. CASE x # p
          <6>1. link'[x] = l BY <3>1, <3>2, <5>1
          <6>2. QED BY <4>1, <6>1
        <5>2. CASE x = p
          <6>1. link'[x] = Tail(l) /\ l # <<>> BY <3>1, <3>2, <5>2
          <6> HIDE DEF l, F
          <6>2. Tail(l) \in Seq(F) BY <4>1, <6>1, HeadTailProperties
          <6>3. QED BY <6>1, <6>2
        <5>3. QED BY <5>1, <5>2
      <4>3. QED BY <3>3, <4>2 DEF AckOf
    <3>4. QED BY <3>1, <3>3 DEF Acks, Ack
  <2>5. ASSUME NEW p \in Peer, Retransmit(p) PROVE Acks'
    BY <1>1, <1>3, <2>5, AckResend
  <2>6. ASSUME NEW p \in Peer, TransmissionFailure(p) PROVE Acks'
    <3>1. failed' = [failed EXCEPT ![p] = TRUE] BY <2>6 DEF TransmissionFailure
    <3>2. failed'[p] BY <3>1 DEF SrpInv
    <3>3. \A x \in Peer : x = p \/ x = Other(p) BY OnlyOther
    <3>4. Other(Other(p)) = p BY OtherPeer
    <3>5. QED BY <3>2, <3>3, <3>4 DEF Acks, Ack
  <2>7. ASSUME NEW p \in Peer, SrpStop(p) \/ UseNSRP(p) \/ DisableWNSRPSupport(p) PROVE Acks'
    <3>1. PICK u : /\ ep' = [ep EXCEPT ![p] = u] /\ UNCHANGED <<call, link, failed>>
                   /\ \/ failed[p]
                      \/ /\ SameReceiver(u, ep[p])
                         /\ call.level0 \/ SameQueue(u, ep[p])
      BY <2>7, ControlStep
    <3>2. DOMAIN ep = Peer /\ Other(p) \in Peer /\ Other(p) # p /\ Other(Other(p)) = p
      BY OtherPeer DEF SrpInv
    <3>3. \A x \in Peer : x = p \/ x = Other(p) BY OnlyOther
    <3>4. CASE failed[p] BY <3>1, <3>2, <3>3, <3>4 DEF Acks, Ack
    <3>5. CASE ~failed[p]
      <4> DEFINE q == Other(p)
      <4> DEFINE s == ep[p]
      <4> DEFINE r == ep[q]
      <4>1. SameReceiver(u, s) /\ SameQueue(u, s) BY <1>3, <3>1, <3>5
      <4>2. ep'[p] = u /\ ep'[q] = r BY <3>1, <3>2
      <4>3. Ack(p) /\ Ack(q) BY <3>2 DEF Acks
      <4> HIDE DEF s, r
      <4>4. Keeps(u, s) /\ u.queue = s.queue /\ u.sendSeq = s.sendSeq
        BY <4>1, SameHas DEF SameQueue
      <4>5. AckOf(s, r, link[p]) => AckOf(u, r, link[p]) BY <4>4 DEF AckOf, Waits
      <4>6. AckOf(r, s, link[q]) => AckOf(r, u, link[q])
        <5>1. AckFrames(s) \subseteq AckFrames(u) BY <4>4, AckFramesMore
        <5>2. link[q] \in Seq(AckFrames(s)) => link[q] \in Seq(AckFrames(u)) BY <5>1, MoreSeq
        <5>3. QED BY <4>4, <5>2 DEF AckOf, Keeps
      <4>7. Ack(p)' BY <3>1, <4>2, <4>3, <4>5 DEF Ack, s, r
      <4>8. Ack(q)' BY <3>1, <3>2, <4>2, <4>3, <4>6 DEF Ack, s, r
      <4> HIDE DEF q
      <4>9. \A x \in Peer : x = p \/ x = q BY <3>3 DEF q
      <4>10. QED BY <4>7, <4>8, <4>9 DEF Acks
    <3>6. QED BY <3>4, <3>5
  <2>8. QED BY <2>1, <2>2, <2>3, <2>4, <2>5, <2>6, <2>7 DEF Next
<1>4. QED BY <1>2, <1>3

-----------------------------------------------------------------------------
(* What that says of the chunks.                                           *)

\* The chunks of messages are numbered from 1 to their total.
LEMMA ChunkOfMessage ==
    ASSUME NEW ms, Consecutive(ms), NEW x, x \in Range(FlattenSeq(ms))
    PROVE  x \in 1..Total(ms) /\ Total(ms) \in Nat
<1>1. ms \in Seq(Seq(Nat)) BY DEF Consecutive
<1>2. PICK i \in 1..Len(ms) : x \in Range(ms[i]) BY <1>1, FlattenRange
<1> DEFINE a == After(ms, i - 1)
<1> DEFINE b == After(ms, i)
<1> DEFINE l == Len(ms)
<1>3. l \in Nat /\ i \in 1..l /\ i - 1 \in 0..l /\ i \in 0..l /\ l \in 0..l BY <1>1, <1>2, LenProperties
<1>4. a \in Nat /\ b \in Nat /\ a < b /\ ms[i] = Pdu(a, b - a) /\ After(ms, l) \in Nat
  BY <1>2, <1>3 DEF Consecutive
<1>5. b <= After(ms, l)
  <2>1. CASE i = l BY <1>4, <2>1
  <2>2. CASE i # l
    <3>1. i < l BY <1>3, <2>2
    <3>2. b < After(ms, l) BY <1>3, <3>1, AfterRises
    <3>3. QED BY <1>4, <3>2
  <2>3. QED BY <2>1, <2>2
<1>6. Total(ms) = After(ms, l) BY DEF Total
<1> HIDE DEF a, b, l
<1>7. b - a \in Nat /\ Len(Pdu(a, b - a)) = b - a /\ \A j \in 1..b - a : Pdu(a, b - a)[j] = a + j
  <2>1. b - a \in Nat BY <1>4
  <2>2. QED BY <1>4, <2>1, PduFacts
<1>8. PICK j \in 1..b - a : x = a + j
  <2>1. Pdu(a, b - a) \in Seq(Nat) BY <1>4, <1>7, PduFacts
  <2>2. DOMAIN ms[i] = 1..b - a BY <1>4, <1>7, <2>1, LenProperties
  <2>3. QED BY <1>2, <1>4, <1>7, <2>2 DEF Range
<1>9. QED BY <1>4, <1>5, <1>6, <1>7, <1>8

\* A chunk of the first n has come out or is in the buffer.
LEMMA AssembledHas ==
    ASSUME NEW ms, Consecutive(ms), NEW rs, NEW buffer, NEW n, Assembled(ms, rs, buffer, n),
           NEW x \in Nat, 0 < x, x <= n
    PROVE  x \in Range(FlattenSeq(rs)) \cup Range(buffer)
<1>1. PICK k \in 0..Len(ms) : /\ rs = SubSeq(ms, 1, k) /\ After(ms, k) <= n
                              /\ buffer = Pdu(After(ms, k), n - After(ms, k))
  BY DEF Assembled
<1> DEFINE l == Len(ms)
<1>2. ms \in Seq(Seq(Nat)) /\ l \in Nat /\ After(ms, k) \in Nat /\ n \in Nat
  BY <1>1, LenProperties DEF Consecutive, Assembled
<1>3. CASE After(ms, k) < x
  <2> DEFINE a == After(ms, k)
  <2> DEFINE j == x - a
  <2>1. n - a \in Nat /\ j \in 1..n - a /\ a + j = x BY <1>1, <1>2, <1>3
  <2>2. a \in Nat BY <1>2
  <2> HIDE DEF a, j
  <2>3. /\ Pdu(a, n - a) \in Seq(Nat) /\ Len(Pdu(a, n - a)) = n - a
        /\ \A i \in 1..n - a : Pdu(a, n - a)[i] = a + i
    BY <2>1, <2>2, PduFacts
  <2>4. j \in DOMAIN Pdu(a, n - a) /\ Pdu(a, n - a)[j] = x BY <2>1, <2>3, LenProperties
  <2>5. QED BY <1>1, <2>4 DEF Range, a
<1>4. CASE x <= After(ms, k)
  <2> DEFINE far == {i \in Nat : i <= k /\ x <= After(ms, i)}
  <2> DEFINE i == Min(far)
  <2>1. k \in far BY <1>1, <1>2, <1>4
  <2>2. i \in far /\ \A y \in far : i <= y BY <2>1, LeastNat
  <2>3. i \in Nat /\ i <= k /\ x <= After(ms, i) BY <2>2
  <2>4. i # 0 BY <2>3 DEF After
  <2>5. ~(x <= After(ms, i - 1))
    <3>1. ASSUME x <= After(ms, i - 1) PROVE FALSE
      <4>1. i - 1 \in Nat /\ i - 1 <= k BY <1>1, <1>2, <2>3, <2>4
      <4>2. i - 1 \in far BY <3>1, <4>1
      <4>3. i <= i - 1 BY <2>2, <4>2
      <4>4. QED BY <2>3, <4>3
    <3>2. QED BY <3>1
  <2> HIDE DEF i, far
  <2>6. i \in 1..l /\ i - 1 \in 0..l /\ i \in 0..l /\ i \in 1..k /\ k \in Nat BY <1>1, <1>2, <2>3, <2>4
  <2> DEFINE a == After(ms, i - 1)
  <2> DEFINE b == After(ms, i)
  <2>7. a \in Nat /\ b \in Nat /\ a < b /\ ms[i] = Pdu(a, b - a) BY <2>6 DEF Consecutive
  <2>8. a < x /\ x <= b BY <2>3, <2>5, <2>7
  <2> HIDE DEF a, b
  <2> DEFINE j == x - a
  <2>9. b - a \in Nat /\ j \in 1..b - a /\ a + j = x BY <2>7, <2>8
  <2> HIDE DEF j
  <2>10. /\ Pdu(a, b - a) \in Seq(Nat) /\ Len(Pdu(a, b - a)) = b - a
         /\ \A y \in 1..b - a : Pdu(a, b - a)[y] = a + y
    BY <2>7, <2>9, PduFacts
  <2>11. j \in DOMAIN ms[i] /\ ms[i][j] = x BY <2>7, <2>9, <2>10, LenProperties
  <2>12. x \in Range(ms[i]) BY <2>11 DEF Range
  <2>13. rs \in Seq(Seq(Nat)) /\ Len(rs) = k /\ rs[i] = ms[i]
    <3> DEFINE S == Seq(Nat)
    <3>1. k <= l /\ k \in Nat /\ l \in Nat /\ ms \in Seq(S) BY <1>1, <1>2
    <3>2. \A y \in 1..l : ms[y] \in S BY <3>1, LenProperties
    <3> HIDE DEF S
    <3>3. \A y \in 1..k : y \in 1..l BY <3>1
    <3>4. /\ SubSeq(ms, 1, k) \in Seq(S)
          /\ Len(SubSeq(ms, 1, k)) = IF 1 <= k THEN k - 1 + 1 ELSE 0
          /\ \A y \in 1..k - 1 + 1 : SubSeq(ms, 1, k)[y] = ms[1 + y - 1]
      BY <3>1, <3>2, <3>3, SubSeqProperties
    <3>5. 1 <= k /\ k - 1 + 1 = k /\ 1 + i - 1 = i BY <2>6
    <3>6. i \in 1..k - 1 + 1 BY <2>6, <3>5
    <3>7. QED BY <1>1, <3>4, <3>5, <3>6 DEF S
  <2>14. x \in Range(FlattenSeq(rs)) BY <2>6, <2>12, <2>13, FlattenRange
  <2>15. QED BY <2>14
<1>5. QED BY <1>2, <1>3, <1>4

\* A chunk that has left the queue is at the other terminal.
LEMMA AcksReceived ==
    ASSUME NEW K, SrpInv(K), RxInv(K), Flows, Acks
    PROVE  AckedWasReceived
<1> SUFFICES ASSUME NEW p \in Peer, ~call.level0, ~failed[p], ~failed[Other(p)],
                    NEW x \in Range(FlattenSeq(sent[p]))
             PROVE  x \in Received(p) \cup {c.data : c \in Range(ep[p].queue)}
  BY DEF AckedWasReceived
<1> DEFINE q == Other(p)
<1> DEFINE s == ep[p]
<1> DEFINE r == ep[q]
<1> DEFINE ms == sent[p]
<1> DEFINE n == x - 1
<1>1. FlowOf(ms, s, r, link[q], rcvd[q], failed[p]) /\ AckOf(s, r, link[p])
  BY TerminalFacts DEF Acks, Ack
<1>2. /\ Consecutive(ms) /\ s.sendSeq = Total(ms) /\ s.queue \in Seq(ChunksOf(ms))
      /\ r.pending \in Seq(ChunksOf(ms)) /\ Assembled(ms, rcvd[q], r.buffer, r.recvSeq)
  BY <1>1 DEF FlowOf, Carries
<1>3. x \in 1..Total(ms) /\ Total(ms) \in Nat BY <1>2, ChunkOfMessage
<1>4. n \in Nat /\ n < s.sendSeq /\ n + 1 = x BY <1>2, <1>3
<1>5. Waits(s, n) \/ Got(r, n) BY <1>1, <1>4 DEF AckOf
<1>6. \A c \in ChunksOf(ms) : c.seq = n => c.data = x BY <1>4 DEF ChunksOf
<1>7. Received(p) = Range(FlattenSeq(rcvd[q])) \cup Range(r.buffer)
                       \cup {c.data : c \in Range(r.pending)}
  BY DEF Received
<1> HIDE DEF q, s, r, ms, n
<1>8. CASE Waits(s, n)
  <2>1. PICK j \in 1..Len(s.queue) : s.queue[j].seq = n BY <1>8 DEF Waits
  <2>2. s.queue[j] \in ChunksOf(ms) /\ j \in DOMAIN s.queue BY <1>2, LenProperties
  <2>3. s.queue[j].data = x BY <1>6, <2>1, <2>2
  <2>4. QED BY <2>2, <2>3 DEF Range, s
<1>9. CASE \E j \in 1..Len(r.pending) : r.pending[j].seq = n
  <2>1. PICK j \in 1..Len(r.pending) : r.pending[j].seq = n BY <1>9
  <2>2. r.pending[j] \in ChunksOf(ms) /\ j \in DOMAIN r.pending BY <1>2, LenProperties
  <2>3. r.pending[j].data = x BY <1>6, <2>1, <2>2
  <2>4. QED BY <1>7, <2>2, <2>3 DEF Range
<1>10. CASE n < r.recvSeq
  <2>1. r.recvSeq \in Nat BY <1>2 DEF Assembled
  <2>2. x \in Nat /\ 0 < x /\ x <= r.recvSeq BY <1>3, <1>4, <1>10, <2>1
  <2>3. x \in Range(FlattenSeq(rcvd[q])) \cup Range(r.buffer) BY <1>2, <2>2, AssembledHas
  <2>4. QED BY <1>7, <2>3
<1>11. QED BY <1>5, <1>8, <1>9, <1>10 DEF Got

\* A response answers the chunk it was made for (AckedWasReceived): what has
\* left a wait queue has been received, whatever the link loses and however
\* late the responses are, as long as the chunks of a call are fewer than the
\* numbers that a receiver does not take for old ones.
THEOREM SrpAckedCorrect ==
    ASSUME NEW CONSTANT K, HalfRange(K), Window >= 2
    PROVE  Spec => []AckedWasReceived
<1>1. NoWindowWrap(K) /\ NoWrap(K) /\ K \in Nat BY DEF HalfRange, NoWindowWrap, NoWrap
<1>2. Init => SrpInv(K) /\ RxInv(K) /\ Flows /\ Acks
  <2>1. Init => SrpInv(K) BY <1>1, InitKeeps
  <2>2. Init => RxInv(K) BY <1>1, RxInit
  <2>3. QED BY <2>1, <2>2, FlowInit, AckInit
<1>3. SrpInv(K) /\ RxInv(K) /\ Flows /\ Acks /\ [Next]_vars
        => SrpInv(K)' /\ RxInv(K)' /\ Flows' /\ Acks'
  BY <1>1, NextKeeps, RxNext, FlowNext, AckNext
<1>4. SrpInv(K) /\ RxInv(K) /\ Flows /\ Acks => AckedWasReceived BY AcksReceived
<1>5. QED BY <1>2, <1>3, <1>4, PTL DEF Spec
=============================================================================
