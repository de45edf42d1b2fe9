---------------------------- MODULE MCPlayerEngine ----------------------------
(***************************************************************************)
(* Model-checking instances of PlayerEngine: an audio track with a decoder *)
(* and a track without one.  Failures and synchronous calls are not mixed  *)
(* in the passing run (ErrorHandlingOnTop says why).                       *)
(***************************************************************************)
EXTENDS PlayerEngine, TLC

CONSTANTS audio, text

Budget(n, f, e, s, in) ==
    [cmds |-> n, failures |-> f, errors |-> e, syncs |-> s, inThread |-> in]

MCBudgets ==
    {Budget(3, 1, 1, 0, TRUE), Budget(2, 1, 0, 0, FALSE), Budget(2, 0, 0, 2, FALSE)}

MCBudgetsMixed == {Budget(1, 1, 0, 1, TRUE)}
=============================================================================
