------------------------ MODULE MCThreadSafeCallbackAO ------------------------
(***************************************************************************)
(* Model-checking instance of ThreadSafeCallbackAO.                        *)
(***************************************************************************)
EXTENDS ThreadSafeCallbackAO, TLC

CONSTANTS t1, t2, t3
=============================================================================
