------------------------------- MODULE MCSrp -------------------------------
(***************************************************************************)
(* Instances of Srp with two terminals by name, T1 and T2, for model       *)
(* checking, and each direction of the call as the abstract transport      *)
(* sees it.                                                                *)
(***************************************************************************)
EXTENDS Srp, TLC

CONSTANTS T1, T2, From1, From2

\* How many messages each terminal sends.
MCMsgs == T1 :> From1 @@ T2 :> From2

\* Kinds of call: WNSRP on both terminals, on one or on none, and level 0.
WnsrpCalls == {[level0 |-> FALSE, wnsrp |-> Peer]}
AllCalls == [level0 : BOOLEAN, wnsrp : {{}, {T1}, Peer}]

\* The messages H.245 may send.
Messages == {Pdu(n, k) : n \in 0..Max(Chunks) * (MsgsOf[T1] + MsgsOf[T2]), k \in Chunks}

\* Each direction as the abstract transport sees it.
There == INSTANCE PduTransport WITH
            Message <- Messages, sent <- sent[T1], rcvd <- rcvd[T2]
Back  == INSTANCE PduTransport WITH
            Message <- Messages, sent <- sent[T2], rcvd <- rcvd[T1]

\* H.245 messages come out whole, in order and once in each direction,
\* whatever the link loses and whichever modes the terminals settle on.
ImplementsTransport == There!Spec /\ Back!Spec
=============================================================================
