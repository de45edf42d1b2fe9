-------------------------- MODULE MCSchedulerUses --------------------------
(***************************************************************************)
(* A run of OsclScheduler asks questions that together are too large for   *)
(* one state space; which of them is asked is chosen initially:            *)
(*   "threads": what other threads can do to the scheduler; the timers are *)
(*     added and never set;                                                *)
(*   "timers": what time can do to it; no thread stops or suspends it;     *)
(*   "serve": whether everything is served, with one thread that stops,    *)
(*     suspends and resumes;                                               *)
(*   "control": what several such threads do to each other; the objects    *)
(*     are idle.                                                           *)
(***************************************************************************)
EXTENDS MCOsclScheduler

CONSTANTS c1, Questions

VARIABLE asked

\* The objects that the code of the active objects uses.
Used == CASE asked = "threads" -> AO
          [] asked = "timers"  -> {a1} \cup Timer
          [] asked = "serve"   -> AO \cup Timer
          [] asked = "control" -> {}

Controlling == CASE asked \in {"threads", "control"} -> Control
                 [] asked = "serve"  -> {c1}
                 [] asked = "timers" -> {}

\* "timers" has no object added again, and a thread that only blocks.
ThreadsStep ==
    \/ RunSchedulerNonBlocking \/ CountReached \/ RunLeave \/ RegisterForCallback
    \/ \E a \in Used : AddToScheduler(a)

MCNext ==
    /\ \/ LoopStep \/ CancelStep
       \/ StartScheduler \/ RunReturn \/ UninstallScheduler
       \/ \E a \in Used \cap AO : PendForExec(a)
       \/ \E a \in Used : RunIfNotReady(a) \/ Cancel(a) \/ RemoveFromScheduler(a)
       \/ \E t \in Used \cap Timer, d \in Delays : After(t, d)
       \/ \E a \in AO : RemoteComplete(a)
       \/ asked = "threads" /\ ThreadsStep
       \/ \E t \in Controlling : ControlStep(t)
       \/ Tick
    /\ UNCHANGED asked

MCInit == Init /\ asked \in Questions

MCSpec == MCInit /\ [][MCNext]_<<asked, vars>>

MCSpecFair == MCSpec /\ Fairness
=============================================================================
