-------------------------- MODULE MCOsclScheduler --------------------------
(***************************************************************************)
(* Model-checking instances of OsclScheduler.                              *)
(***************************************************************************)
EXTENDS OsclScheduler, TLC

CONSTANTS a1, a2, t1, t2, Levels

\* The stopper has the highest priority; with two levels a2 and t2 have more
\* priority than a1 and t1, with one they are all equal.
MCPriority ==
    [o \in Obj |-> IF o = Stopper THEN 3
                   ELSE IF Levels = 2 /\ o \in {a2, t2} THEN 2 ELSE 1]
=============================================================================
