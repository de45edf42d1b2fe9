--------------------------- MODULE MCLoopbackNode ---------------------------
(***************************************************************************)
(* Model-checking instances of LoopbackNode.                               *)
(***************************************************************************)
EXTENDS LoopbackNode

Use(cs, ls, n, m) == [commands |-> cs, links |-> ls, issued |-> n, fed |-> m]

MCUses ==
    {Use(1..9, {"connect", "disconnect"}, 6, 5),
     Use({REQUESTPORT, INIT, PREPARE, START, PAUSE}, {"connect"}, 6, 9)}

\* A node that is started, paused and flushed, on a connection that stays.
FlushUses ==
    {Use({REQUESTPORT, INIT, PREPARE, START, PAUSE, FLUSH}, {"connect"}, 6, 3)}

Echo == INSTANCE MediaChannel WITH chan <- underway

\* What is fed comes back once and in order; only where the node is stopped,
\* flushed, reset or disconnected is anything lost, and then in one piece.
EchoInOrder ==
    Echo!Init /\ [][\/ Echo!Put \/ Echo!Get
                    \/ ~Undisturbed /\ Echo!Discard]_underway
=============================================================================
