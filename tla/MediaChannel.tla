---------------------------- MODULE MediaChannel ----------------------------
(***************************************************************************)
(* What a connection between two media ports promises to the sending and   *)
(* the receiving node, whatever queues it passes through: a first-in,      *)
(* first-out channel.  A reliable channel loses nothing; in a lossy one a  *)
(* contiguous part of the contents may be discarded, but nothing is ever   *)
(* duplicated, invented or reordered.                                      *)
(***************************************************************************)
EXTENDS Integers, Sequences

CONSTANT Msg

VARIABLE chan  \* the messages under way, the oldest first

Init == chan = <<>>

Put == \E m \in Msg : chan' = Append(chan, m)

Get == chan # <<>> /\ chan' = Tail(chan)

Discard ==
    \E i \in 1..Len(chan), j \in 1..Len(chan) :
        /\ i <= j
        /\ chan' = SubSeq(chan, 1, i - 1) \o SubSeq(chan, j + 1, Len(chan))

Reliable == Init /\ [][Put \/ Get]_chan

Lossy == Init /\ [][Put \/ Get \/ Discard]_chan
=============================================================================
