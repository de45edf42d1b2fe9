---------------------------- MODULE PduTransport ----------------------------
(***************************************************************************)
(* What the retransmission layer promises to H.245 in one direction: the   *)
(* messages that come out at one end are those that went in at the other,  *)
(* whole, in order and each once.  Several may come out in one step.       *)
(***************************************************************************)
EXTENDS Integers, Sequences

CONSTANT Message

VARIABLES sent, rcvd

Init == sent = <<>> /\ rcvd = <<>>

Submit == (\E m \in Message : sent' = Append(sent, m)) /\ UNCHANGED rcvd

Deliver ==
    /\ \E n \in Len(rcvd) + 1 .. Len(sent) : rcvd' = SubSeq(sent, 1, n)
    /\ UNCHANGED sent

Spec == Init /\ [][Submit \/ Deliver]_<<sent, rcvd>>
=============================================================================
