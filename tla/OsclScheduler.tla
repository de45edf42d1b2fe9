--------------------------- MODULE OsclScheduler ---------------------------
(***************************************************************************)
(* The OSCL active-object scheduler: OsclExecScheduler with its ready      *)
(* queue and timer queue, and the request life cycle of active objects     *)
(* (oscl_scheduler.cpp, oscl_scheduler_readyq.cpp, oscl_scheduler_ao.cpp,  *)
(* oscl_scheduler_threadcontext.cpp).                                      *)
(*                                                                         *)
(* One scheduling thread runs the loop and all the code of the active      *)
(* objects.  Other threads complete requests (PendComplete) and call       *)
(* StopScheduler, SuspendScheduler and ResumeScheduler.  A step is a piece *)
(* of a thread between two accesses to what the threads share: the ready   *)
(* queue under its mutex iCrit, the semaphores iSem and iResumeSem, and    *)
(* the unprotected flags iBusy, iStatus, iDoSuspend and iSuspended.  The   *)
(* locals of a function are cleared when they go out of scope.             *)
(***************************************************************************)
EXTENDS Integers, Sequences, FiniteSets

CONSTANTS
    AO,           \* active objects whose requests any thread may complete
    Timer,        \* timer objects
    Stopper,      \* the scheduler's own active object, iStopper
    None,         \* NULL
    OwnDoCancel,  \* the members of AO whose DoCancel leaves the completion
                  \* of the cancelled request to another thread
    Priority,     \* iAOPriority of every object
    Control,      \* threads that stop, suspend and resume the scheduler
    ControlOps,   \* what they call: a subset of {"stop", "suspend", "resume"}
    UserOps,      \* what the code of active objects calls
    Modes,        \* how the thread runs the scheduler: "blocking", "nonblocking"
    Wrap,         \* number of tick values, 2^32 in the code
    Delays,       \* timer delays, in ticks
    MaxLate,      \* by how many ticks the scheduler may be late for a timer
    MaxResume     \* bound of the model on iResumeSem

Obj == AO \cup Timer \cup {Stopper}

ASSUME ObjAssumption ==
    /\ Stopper \notin AO \cup Timer
    /\ AO \cap Timer = {}
    /\ None \notin Obj
    /\ OwnDoCancel \subseteq AO
    /\ IsFiniteSet(Obj)

ASSUME PriorityAssumption ==
    /\ Priority \in [Obj -> Int]
    /\ \A a \in AO \cup Timer : Priority[a] <= Priority[Stopper]

\* iTimeCompareThreshold: a difference of ticks up to it is "not before".
Threshold == Wrap \div 2 - 1

ASSUME TimeAssumption ==
    /\ Wrap \in Nat \ {0}
    /\ Wrap % 2 = 0
    /\ MaxLate \in Nat
    /\ Delays \subseteq 1..(Threshold - MaxLate)

ASSUME BoundAssumption == MaxResume \in Nat

VARIABLES
    \* the active objects
    busy,      \* iBusy: a request is active
    status,    \* iStatus: "pending", or how the request completed
    isIn,      \* iPVReadyQLink.iIsIn: "none", "ready" or "timer"
    added,     \* iThreadContext.iOpen: objects added to the scheduler
    \* the queues
    readyQ,    \* contents of iReadyQ in the order of their iSeqNum
    timerQ,    \* contents of iExecTimerQ in the order of their iSeqNum
    sem,       \* OsclReadyQ::iSem
    crit,      \* TRUE while the scheduling thread waits for iSem under iCrit
    callback,  \* iCallback # NULL
    \* time
    now,       \* OsclTickCount::TickCount()
    due,       \* iTimeToRunTicks
    timenow,   \* the tick count UpdateTimers read on entry
    \* the scheduler's flags
    blocking,  \* iBlockingMode
    doStop, doSuspend, suspended,
    resumeSem, \* iResumeSem
    \* the scheduling thread
    pc,
    cur,       \* pvactive or pvtimer of the loop
    canc,      \* the object being cancelled
    nwait,     \* nwait of WaitForRequestComplete
    ret,       \* where Cancel and EndScheduling return to
    removing,  \* Cancel was called by RemoveFromScheduler
    \* the other threads
    cpc,       \* where each controlling thread is
    owed       \* objects whose request another thread will complete

aoVars   == <<busy, status, isIn, added>>
qVars    == <<readyQ, timerQ, sem, crit, callback>>
timeVars == <<now, due, timenow>>
flagVars == <<blocking, doStop, doSuspend, suspended, resumeSem>>
cancVars == <<canc, nwait, ret, removing>>
thrVars  == <<pc, cur, cancVars>>
envVars  == <<cpc, owed>>
vars     == <<aoVars, qVars, timeVars, flagVars, thrVars, envVars>>

-----------------------------------------------------------------------------
(***************************************************************************)
(* The queues.  Both are OsclPriorityQueues, taken for what such a heap is *)
(* while it holds at most five elements (OsclPriorityQueue, KeepsHeap): a  *)
(* queue whose top no other element beats.  The objects are kept in the    *)
(* order of iSeqNum, in which both queues hand out equals.                 *)
(***************************************************************************)

\* Mutant of ReadyLT: last in, first out among equal priorities.
ReadyLTNewestFirst(q, i, j) ==
    IF Priority[q[i]] # Priority[q[j]]
    THEN Priority[q[i]] < Priority[q[j]]
    ELSE i < j

\* OsclReadyCompare: less priority, or the same and queued later.
ReadyLT(q, i, j) ==
    IF Priority[q[i]] # Priority[q[j]]
    THEN Priority[q[i]] < Priority[q[j]]
    ELSE i >= j

\* Mutant of TimerLT: no regard to the rollover of the tick count.
TimerLTNoRollover(q, i, j) ==
    IF due[q[i]] # due[q[j]]
    THEN due[q[i]] > due[q[j]]
    ELSE ReadyLT(q, i, j)

\* OsclTimerCompare: due later, compared modulo the width of the tick count.
TimerLT(q, i, j) ==
    IF due[q[i]] # due[q[j]]
    THEN (due[q[j]] - due[q[i]]) % Wrap > Threshold
    ELSE ReadyLT(q, i, j)

\* Position of top(): the element that has no less priority than any other.
ReadyTop == CHOOSE i \in 1..Len(readyQ) :
               \A j \in 1..Len(readyQ) \ {i} : ~ReadyLT(readyQ, i, j)
TimerTop == CHOOSE i \in 1..Len(timerQ) :
               \A j \in 1..Len(timerQ) \ {i} : ~TimerLT(timerQ, i, j)

\* The queue q without its i-th element.
Without(q, i) == [j \in 1..(Len(q) - 1) |-> IF j < i THEN q[j] ELSE q[j + 1]]

IsQueued(q, a) == \E i \in 1..Len(q) : q[i] = a
PosOf(q, a) == CHOOSE i \in 1..Len(q) : q[i] = a

\* UpdateTimers: time to run <= timenow, taking rollover into account.
Due(a) == (timenow - due[a]) % Wrap <= Threshold
TopDue == timerQ # <<>> /\ Due(timerQ[TimerTop])

\* Mutant of CanComplete: neither the queue link nor iStatus is checked.
CanCompleteTwice(a) == busy[a]

(***************************************************************************)
(* OsclReadyQ::PendComplete, under iCrit.  It refuses an object that is in *)
(* a queue or has no pending request; otherwise it queues the object,      *)
(* signals iSem, sets iStatus and makes the callback, which clears it.     *)
(***************************************************************************)
CanComplete(a) == isIn[a] = "none" /\ busy[a] /\ status[a] = "pending"

Complete(a, reason) ==
    /\ isIn' = [isIn EXCEPT ![a] = "ready"]
    /\ readyQ' = Append(readyQ, a)
    /\ sem' = sem + 1
    /\ status' = [status EXCEPT ![a] = reason]
    /\ callback' = FALSE

Started == Stopper \in added

\* iStopperCrit, which EndScheduling holds while it removes the stopper, and
\* for ever if that leaves.
StopperCritFree == canc # Stopper /\ pc # "dead"

\* Where an unhandled leave of the scheduling thread ends up.
AfterLeave == IF blocking THEN "exit" ELSE "idle"

-----------------------------------------------------------------------------
Init ==
    /\ busy = [a \in Obj |-> FALSE]
    /\ status = [a \in Obj |-> "none"]
    /\ isIn = [a \in Obj |-> "none"]
    /\ added = AO \cup Timer
    /\ readyQ = <<>> /\ timerQ = <<>>
    /\ sem = 0 /\ crit = FALSE /\ callback = FALSE
    /\ now = 0 /\ timenow = 0
    /\ due = [t \in Timer |-> 0]
    /\ blocking = FALSE
    /\ doStop = FALSE /\ doSuspend = FALSE /\ suspended = FALSE
    /\ resumeSem = 0
    /\ pc = "idle" /\ cur = None
    /\ canc = None /\ nwait = 0 /\ ret = "idle" /\ removing = FALSE
    /\ cpc = [t \in Control |-> "idle"]
    /\ owed = {}

(***************************************************************************)
(* Starting: BeginScheduling adds the stopper and makes its request        *)
(* pending.  RunSchedulerNonBlocking does it on its first call only.       *)
(***************************************************************************)
BeginScheduling(isBlocking) ==
    /\ blocking' = isBlocking
    /\ added' = added \cup {Stopper}
    /\ busy' = [busy EXCEPT ![Stopper] = TRUE]
    /\ status' = [status EXCEPT ![Stopper] = "pending"]

StartScheduler ==
    /\ pc = "idle" /\ "blocking" \in Modes
    /\ ~Started
    /\ BeginScheduling(TRUE)
    /\ pc' = "loop"
    /\ UNCHANGED <<isIn, qVars, timeVars, doStop, doSuspend, suspended,
                   resumeSem, cur, cancVars, envVars>>

RunSchedulerNonBlocking ==
    /\ pc = "idle" /\ "nonblocking" \in Modes
    /\ IF Started
       THEN ~blocking /\ UNCHANGED <<blocking, added, busy, status>>
       ELSE BeginScheduling(FALSE)
    /\ pc' = "timers" /\ timenow' = now
    /\ UNCHANGED <<isIn, qVars, now, due, doStop, doSuspend, suspended,
                   resumeSem, cur, cancVars, envVars>>

-----------------------------------------------------------------------------
\* Mutant of LoopTest: the timers are left for when nothing is ready.
LoopTestNoTimers ==
    /\ pc = "loop"
    /\ IF doStop
       THEN doStop' = FALSE /\ pc' = "exit"
       ELSE pc' = "pop" /\ UNCHANGED doStop
    /\ UNCHANGED <<aoVars, qVars, timeVars, blocking, doSuspend, suspended,
                   resumeSem, cur, cancVars, envVars>>

(***************************************************************************)
(* BlockingLoopL and WaitForReadyAO.                                       *)
(***************************************************************************)
LoopTest ==
    /\ pc = "loop"
    /\ IF doStop
       THEN /\ doStop' = FALSE
            /\ pc' = "exit"
            /\ UNCHANGED timenow
       ELSE /\ pc' = "timers" /\ timenow' = now
            /\ UNCHANGED doStop
    /\ UNCHANGED <<aoVars, qVars, now, due, blocking, doSuspend, suspended,
                   resumeSem, cur, cancVars, envVars>>

\* UpdateTimers pops a timer that is due, and completes its request.
TimerDue ==
    /\ pc = "timers"
    /\ TopDue
    /\ cur' = timerQ[TimerTop]
    /\ isIn' = [isIn EXCEPT ![timerQ[TimerTop]] = "none"]
    /\ timerQ' = Without(timerQ, TimerTop)
    /\ pc' = "timer_complete"
    /\ UNCHANGED <<busy, status, added, readyQ, sem, crit, callback, timeVars,
                   flagVars, cancVars, envVars>>

TimerComplete ==
    /\ pc = "timer_complete"
    /\ ~crit
    /\ IF CanComplete(cur)
       THEN Complete(cur, "none") /\ pc' = "timers"
       ELSE /\ pc' = AfterLeave
            /\ UNCHANGED <<isIn, readyQ, sem, status, callback>>
    /\ cur' = None
    /\ UNCHANGED <<busy, added, timerQ, crit, timeVars, flagVars, cancVars,
                   envVars>>

\* UpdateTimers returns the first timer that is not due, if there is one.
TimersDone ==
    /\ pc = "timers"
    /\ ~TopDue
    /\ cur' = IF timerQ = <<>> THEN None ELSE timerQ[TimerTop]
    /\ timenow' = 0
    /\ pc' = "pop"
    /\ UNCHANGED <<aoVars, qVars, now, due, flagVars, cancVars, envVars>>

\* OsclReadyQ::PopTop takes the top and then decrements iSem under iCrit.
PopTop ==
    /\ pc = "pop"
    /\ ~crit
    /\ readyQ # <<>>
    /\ cur' = readyQ[ReadyTop]
    /\ isIn' = [isIn EXCEPT ![readyQ[ReadyTop]] = "none"]
    /\ readyQ' = Without(readyQ, ReadyTop)
    /\ crit' = TRUE
    /\ pc' = "pop_sem"
    /\ UNCHANGED <<busy, status, added, timerQ, sem, callback, timeVars,
                   flagVars, cancVars, envVars>>

PopSem ==
    /\ pc = "pop_sem"
    /\ sem > 0
    /\ sem' = sem - 1
    /\ crit' = FALSE
    /\ pc' = "run"
    /\ UNCHANGED <<aoVars, readyQ, timerQ, callback, timeVars, flagVars, cur,
                   cancVars, envVars>>

\* Nothing is ready: wait for a request, at most until the first timer is
\* due; in non-blocking mode, return.
PopNothing ==
    /\ pc = "pop"
    /\ ~crit
    /\ readyQ = <<>>
    /\ pc' = IF ~blocking THEN "idle"
             ELSE IF cur = None THEN "wait" ELSE "timed_wait"
    /\ cur' = IF blocking THEN cur ELSE None
    /\ UNCHANGED <<aoVars, qVars, timeVars, flagVars, cancVars, envVars>>

\* RunSchedulerNonBlocking also returns once it has run aCount objects.
CountReached ==
    /\ pc = "pop"
    /\ ~blocking
    /\ pc' = "idle" /\ cur' = None
    /\ UNCHANGED <<aoVars, qVars, timeVars, flagVars, cancVars, envVars>>

\* OsclReadyQ::WaitAndPopTop, without and with a timeout.
WaitSem ==
    /\ pc \in {"wait", "timed_wait"}
    /\ sem > 0
    /\ sem' = sem - 1
    /\ pc' = "pop_after_wait"
    /\ UNCHANGED <<aoVars, readyQ, timerQ, crit, callback, timeVars, flagVars,
                   cur, cancVars, envVars>>

\* Mutant of PopTopAfterWait: PopTop is called, which decrements iSem again.
PopTopAfterWaitTwice ==
    /\ pc = "pop_after_wait"
    /\ ~crit
    /\ readyQ # <<>>
    /\ cur' = readyQ[ReadyTop]
    /\ isIn' = [isIn EXCEPT ![readyQ[ReadyTop]] = "none"]
    /\ readyQ' = Without(readyQ, ReadyTop)
    /\ crit' = TRUE
    /\ pc' = "pop_sem"
    /\ UNCHANGED <<busy, status, added, timerQ, sem, callback, timeVars,
                   flagVars, cancVars, envVars>>

PopTopAfterWait ==
    /\ pc = "pop_after_wait"
    /\ ~crit
    /\ IF readyQ # <<>>
       THEN /\ cur' = readyQ[ReadyTop]
            /\ isIn' = [isIn EXCEPT ![readyQ[ReadyTop]] = "none"]
            /\ readyQ' = Without(readyQ, ReadyTop)
            /\ pc' = "run"
       ELSE /\ pc' = "dead"  \* OSCL_ASSERT(0)
            /\ UNCHANGED <<cur, isIn, readyQ>>
    /\ UNCHANGED <<busy, status, added, timerQ, sem, crit, callback, timeVars,
                   flagVars, cancVars, envVars>>

WaitTimeout ==
    /\ pc = "timed_wait"
    /\ sem = 0
    /\ (now - due[cur]) % Wrap <= Threshold
    /\ pc' = "timer_expired"
    /\ UNCHANGED <<aoVars, qVars, timeVars, flagVars, cur, cancVars, envVars>>

\* The timer is run without going through the ready queue; pop() removes
\* whatever the top of the timer queue is.
TimerExpired ==
    /\ pc = "timer_expired"
    /\ status' = [status EXCEPT ![cur] = "none"]
    /\ isIn' = [isIn EXCEPT ![cur] = "none"]
    /\ timerQ' = Without(timerQ, TimerTop)
    /\ pc' = "run"
    /\ UNCHANGED <<busy, added, readyQ, sem, crit, callback, timeVars, flagVars,
                   cur, cancVars, envVars>>

-----------------------------------------------------------------------------
(***************************************************************************)
(* CallRunExec: iBusy is cleared without a lock, then Run is called.  The  *)
(* stopper's Run sets the flag its status asks for, and after a suspend    *)
(* request makes itself pending again.                                     *)
(***************************************************************************)
RunStopper ==
    /\ pc = "run" /\ cur = Stopper
    /\ doStop' = (doStop \/ status[Stopper] = "stop")
    /\ doSuspend' = (doSuspend \/ status[Stopper] = "suspend")
    /\ IF status[Stopper] = "suspend"
       THEN /\ status' = [status EXCEPT ![Stopper] = "pending"]
            /\ UNCHANGED busy
       ELSE /\ busy' = [busy EXCEPT ![Stopper] = FALSE]
            /\ UNCHANGED status
    /\ pc' = "ran" /\ cur' = None
    /\ UNCHANGED <<isIn, added, qVars, timeVars, blocking, suspended, resumeSem,
                   cancVars, envVars>>

CallRun ==
    /\ pc = "run" /\ cur # Stopper
    /\ busy' = [busy EXCEPT ![cur] = FALSE]
    /\ pc' = "running"
    /\ UNCHANGED <<status, isIn, added, qVars, timeVars, flagVars, cur,
                   cancVars, envVars>>

\* Run returns, or leaves with an error that RunError handles.
RunReturn ==
    /\ pc = "running"
    /\ pc' = "ran" /\ cur' = None
    /\ UNCHANGED <<aoVars, qVars, timeVars, flagVars, cancVars, envVars>>

\* Run leaves and RunError does not handle the error: the leave ends the
\* blocking loop, or the call of RunSchedulerNonBlocking.
RunLeave ==
    /\ pc = "running" /\ "leave" \in UserOps
    /\ pc' = AfterLeave /\ cur' = None
    /\ UNCHANGED <<aoVars, qVars, timeVars, flagVars, cancVars, envVars>>

\* Mutant of AfterRun: iSuspended is not set before iDoSuspend is cleared.
AfterRunNotMarked ==
    /\ pc = "ran"
    /\ IF ~blocking
       THEN pc' = "timers" /\ timenow' = now
       ELSE /\ pc' = IF doSuspend THEN "suspending" ELSE "loop"
            /\ UNCHANGED timenow
    /\ UNCHANGED <<aoVars, qVars, now, due, flagVars, cur, cancVars, envVars>>

\* After a Run: the non-blocking scheduler updates the timers, the blocking
\* loop checks for a suspend request.
AfterRun ==
    /\ pc = "ran"
    /\ IF ~blocking
       THEN pc' = "timers" /\ timenow' = now /\ UNCHANGED suspended
       ELSE /\ pc' = IF doSuspend THEN "suspending" ELSE "loop"
            /\ suspended' = (suspended \/ doSuspend)
            /\ UNCHANGED timenow
    /\ UNCHANGED <<aoVars, qVars, now, due, blocking, doStop, doSuspend,
                   resumeSem, cur, cancVars, envVars>>

SuspendClear ==
    /\ pc = "suspending"
    /\ doSuspend' = FALSE
    /\ pc' = "suspended"
    /\ UNCHANGED <<aoVars, qVars, timeVars, blocking, doStop, suspended,
                   resumeSem, cur, cancVars, envVars>>

SuspendWait ==
    /\ pc = "suspended"
    /\ resumeSem > 0
    /\ resumeSem' = resumeSem - 1
    /\ pc' = "resumed"
    /\ UNCHANGED <<aoVars, qVars, timeVars, blocking, doStop, doSuspend,
                   suspended, cur, cancVars, envVars>>

SuspendEnd ==
    /\ pc = "resumed"
    /\ suspended' = FALSE
    /\ pc' = "loop"
    /\ UNCHANGED <<aoVars, qVars, timeVars, blocking, doStop, doSuspend,
                   resumeSem, cur, cancVars, envVars>>

-----------------------------------------------------------------------------
(***************************************************************************)
(* Cancel, always in the scheduling thread: DoCancel, then RequestCanceled *)
(* waits until the request is in the ready queue and takes it out.         *)
(***************************************************************************)
EnterCancel(a, returnTo, isRemoving) ==
    /\ canc' = a
    /\ ret' = returnTo
    /\ removing' = isRemoving
    /\ pc' = "cancel"

CancelReturn ==
    /\ pc' = ret
    /\ added' = IF removing THEN added \ {canc} ELSE added
    /\ canc' = None /\ ret' = "idle" /\ removing' = FALSE

\* A leave out of Cancel: out of the Run that called it, or of the thread's
\* own code, EndScheduling or CleanupExecQ.
CancelLeave ==
    /\ pc' = IF ret = "running" THEN AfterLeave
             ELSE IF ret = "idle" /\ canc # Stopper THEN "idle" ELSE "dead"
    /\ canc' = None /\ ret' = "idle" /\ removing' = FALSE

\* DoCancel tests iStatus without a lock.
DoCancel ==
    /\ pc = "cancel"
    /\ pc' = IF canc \notin OwnDoCancel /\ status[canc] = "pending"
             THEN "cancel_complete" ELSE "cancel_is_in"
    /\ UNCHANGED <<aoVars, qVars, timeVars, flagVars, cur, cancVars, envVars>>

\* The default DoCancel completes the request; PendComplete removes a timer
\* from the timer queue first, because the call is in-thread.
CancelComplete ==
    /\ pc = "cancel_complete"
    /\ ~crit
    /\ IF isIn[canc] # "ready" /\ busy[canc] /\ status[canc] = "pending"
       THEN /\ timerQ' = IF isIn[canc] = "timer"
                         THEN Without(timerQ, PosOf(timerQ, canc)) ELSE timerQ
            /\ Complete(canc, "cancel")
            /\ pc' = "cancel_is_in"
            /\ UNCHANGED <<canc, ret, removing>>
       ELSE /\ CancelLeave
            /\ UNCHANGED <<isIn, readyQ, timerQ, sem, status, callback>>
    /\ UNCHANGED <<busy, added, crit, timeVars, flagVars, cur, nwait, envVars>>

CancelIsIn ==
    /\ pc = "cancel_is_in"
    /\ ~crit
    /\ pc' = IF isIn[canc] = "ready" THEN "cancel_idle" ELSE "cancel_wait"
    /\ UNCHANGED <<aoVars, qVars, timeVars, flagVars, cur, cancVars, envVars>>

\* WaitForRequestComplete: wait for any completion, until it is the right one.
CancelWait ==
    /\ pc = "cancel_wait"
    /\ sem > 0
    /\ sem' = sem - 1
    /\ nwait' = nwait + 1
    /\ pc' = "cancel_check"
    /\ UNCHANGED <<aoVars, readyQ, timerQ, crit, callback, timeVars, flagVars,
                   cur, canc, ret, removing, envVars>>

\* Mutant of CancelCheck: any completion will do.
CancelCheckAny ==
    /\ pc = "cancel_check"
    /\ ~crit
    /\ pc' = "cancel_restore"
    /\ UNCHANGED <<aoVars, qVars, timeVars, flagVars, cur, cancVars, envVars>>

CancelCheck ==
    /\ pc = "cancel_check"
    /\ ~crit
    /\ pc' = IF isIn[canc] = "ready" THEN "cancel_restore" ELSE "cancel_wait"
    /\ UNCHANGED <<aoVars, qVars, timeVars, flagVars, cur, cancVars, envVars>>

\* The nwait signals commute with everything other threads do to iSem.
CancelRestore ==
    /\ pc = "cancel_restore"
    /\ sem' = sem + nwait
    /\ nwait' = 0
    /\ pc' = "cancel_idle"
    /\ UNCHANGED <<aoVars, readyQ, timerQ, crit, callback, timeVars, flagVars,
                   cur, canc, ret, removing, envVars>>

CancelIdle ==
    /\ pc = "cancel_idle"
    /\ busy' = [busy EXCEPT ![canc] = FALSE]
    /\ pc' = "cancel_remove"
    /\ UNCHANGED <<status, isIn, added, qVars, timeVars, flagVars, cur,
                   cancVars, envVars>>

\* OsclReadyQ::Remove decrements iSem under iCrit if it found the object.
CancelRemove ==
    /\ pc = "cancel_remove"
    /\ ~crit
    /\ isIn' = [isIn EXCEPT ![canc] = "none"]
    /\ IF IsQueued(readyQ, canc)
       THEN /\ readyQ' = Without(readyQ, PosOf(readyQ, canc))
            /\ crit' = TRUE
            /\ pc' = "cancel_sem"
            /\ UNCHANGED <<added, canc, ret, removing>>
       ELSE /\ CancelReturn
            /\ UNCHANGED <<readyQ, crit>>
    /\ UNCHANGED <<busy, status, timerQ, sem, callback, timeVars, flagVars, cur,
                   nwait, envVars>>

CancelSem ==
    /\ pc = "cancel_sem"
    /\ sem > 0
    /\ sem' = sem - 1
    /\ crit' = FALSE
    /\ CancelReturn
    /\ UNCHANGED <<busy, status, isIn, readyQ, timerQ, callback, timeVars,
                   flagVars, cur, nwait, envVars>>

CancelPCs == {"cancel", "cancel_complete", "cancel_is_in", "cancel_wait",
              "cancel_check", "cancel_restore", "cancel_idle", "cancel_remove",
              "cancel_sem"}

-----------------------------------------------------------------------------
\* EndScheduling removes the stopper; a stop request left it idle, an
\* unhandled leave finds its request pending.
EndScheduling(returnTo) ==
    IF Started /\ busy[Stopper]
    THEN /\ EnterCancel(Stopper, returnTo, TRUE)
         /\ UNCHANGED added
    ELSE /\ added' = added \ {Stopper}
         /\ pc' = returnTo
         /\ UNCHANGED <<canc, ret, removing>>

ExitLoop ==
    /\ pc = "exit"
    /\ EndScheduling("idle")
    /\ UNCHANGED <<busy, status, isIn, qVars, timeVars, flagVars, cur, nwait,
                   envVars>>

\* UninstallScheduler leaves if the blocking scheduler is not stopped.
UninstallScheduler ==
    /\ pc = "idle" /\ "uninstall" \in UserOps
    /\ ~(blocking /\ Started)
    /\ EndScheduling("cleanup")
    /\ UNCHANGED <<busy, status, isIn, qVars, timeVars, flagVars, cur, nwait,
                   envVars>>

\* CleanupExecQ removes every queued object from the scheduler.
CleanupTimer ==
    /\ pc = "cleanup"
    /\ timerQ # <<>>
    /\ isIn' = [isIn EXCEPT ![timerQ[TimerTop]] = "none"]
    /\ timerQ' = Without(timerQ, TimerTop)
    /\ EnterCancel(timerQ[TimerTop], "cleanup", TRUE)
    /\ UNCHANGED <<busy, status, added, readyQ, sem, crit, callback, timeVars,
                   flagVars, cur, nwait, envVars>>

CleanupReady ==
    /\ pc = "cleanup"
    /\ timerQ = <<>> /\ readyQ # <<>>
    /\ ~crit
    /\ EnterCancel(readyQ[ReadyTop], "cleanup", TRUE)
    /\ UNCHANGED <<aoVars, qVars, timeVars, flagVars, cur, nwait, envVars>>

CleanupDone ==
    /\ pc = "cleanup"
    /\ timerQ = <<>> /\ readyQ = <<>>
    /\ pc' = "uninstalled"
    /\ UNCHANGED <<aoVars, qVars, timeVars, flagVars, cur, cancVars, envVars>>

-----------------------------------------------------------------------------
(***************************************************************************)
(* What the code of active objects does in the scheduling thread: in a     *)
(* Run, and outside the scheduler's calls.                                 *)
(***************************************************************************)
UserCode(o) == pc \in {"running", "idle"} /\ o \in UserOps

\* Mutant of Activate: the request may already be active.
ActivateBusy(a) ==
    /\ a \in added
    /\ busy' = [busy EXCEPT ![a] = TRUE]

Activate(a) ==
    /\ a \in added
    /\ ~busy[a]
    /\ busy' = [busy EXCEPT ![a] = TRUE]

\* PendForExec, and the request is handed to another thread.
PendForExec(a) ==
    /\ UserCode("pend")
    /\ Activate(a)
    /\ status' = [status EXCEPT ![a] = "pending"]
    /\ owed' = owed \cup {a}
    /\ UNCHANGED <<isIn, added, qVars, timeVars, flagVars, thrVars, cpc>>

\* RunIfNotReady (with a zero delay for timers): activate and complete.
RunIfNotReady(a) ==
    /\ UserCode("run")
    /\ ~crit
    /\ Activate(a)
    /\ isIn[a] = "none"
    /\ Complete(a, "none")
    /\ UNCHANGED <<added, timerQ, crit, timeVars, flagVars, thrVars, envVars>>

\* OsclTimerObject::After and AddToExecTimerQ.  A new front of the timer
\* queue makes the timer callback, which clears it.
After(t, d) ==
    /\ UserCode("after")
    /\ Activate(t)
    /\ isIn[t] = "none"
    /\ status' = [status EXCEPT ![t] = "pending"]
    /\ due' = [due EXCEPT ![t] = (now + d) % Wrap]
    /\ isIn' = [isIn EXCEPT ![t] = "timer"]
    /\ timerQ' = Append(timerQ, t)
    /\ callback' = (callback /\ timerQ'[TimerTop'] # t)
    /\ UNCHANGED <<added, readyQ, sem, crit, now, timenow, flagVars, thrVars,
                   envVars>>

Cancel(a) ==
    /\ UserCode("cancel")
    /\ busy[a]
    /\ EnterCancel(a, pc, FALSE)
    /\ UNCHANGED <<aoVars, qVars, timeVars, flagVars, cur, nwait, envVars>>

RemoveFromScheduler(a) ==
    /\ UserCode("remove")
    /\ a \in added
    /\ IF busy[a]
       THEN EnterCancel(a, pc, TRUE) /\ UNCHANGED added
       ELSE added' = added \ {a} /\ UNCHANGED <<pc, canc, ret, removing>>
    /\ UNCHANGED <<busy, status, isIn, qVars, timeVars, flagVars, cur, nwait,
                   envVars>>

\* The code relies on its callers to add an object only once.
AddToScheduler(a) ==
    /\ UserCode("add")
    /\ a \notin added
    /\ added' = added \cup {a}
    /\ due' = [t \in Timer |-> IF t = a THEN 0 ELSE due[t]]
    /\ UNCHANGED <<busy, status, isIn, qVars, now, timenow, flagVars, thrVars,
                   envVars>>

\* Mutant of RegisterForCallback: a ready queue that is not empty is missed.
RegisterForCallbackUnchecked ==
    /\ UserCode("register")
    /\ ~crit
    /\ callback' = TRUE
    /\ UNCHANGED <<aoVars, readyQ, timerQ, sem, crit, timeVars, flagVars,
                   thrVars, envVars>>

\* OsclReadyQ::RegisterForCallback: the callback is made at once if the ready
\* queue is not empty; a NULL callback unregisters.
RegisterForCallback ==
    /\ UserCode("register")
    /\ ~crit
    /\ callback' \in {FALSE, readyQ = <<>>}
    /\ UNCHANGED <<aoVars, readyQ, timerQ, sem, crit, timeVars, flagVars,
                   thrVars, envVars>>

-----------------------------------------------------------------------------
(***************************************************************************)
(* Other threads complete the requests they were handed.  A request that   *)
(* is no longer pending, or whose object was removed, makes PendComplete   *)
(* leave without any effect.                                               *)
(***************************************************************************)
RemoteComplete(a) ==
    /\ a \in owed
    /\ ~crit
    /\ owed' = owed \ {a}
    /\ IF a \in added /\ CanComplete(a)
       THEN Complete(a, "none")
       ELSE UNCHANGED <<isIn, readyQ, sem, status, callback>>
    /\ UNCHANGED <<busy, added, timerQ, crit, timeVars, flagVars, thrVars, cpc>>

(***************************************************************************)
(* StopScheduler, SuspendScheduler and ResumeScheduler, from any thread.   *)
(* The checks, the signal of iResumeSem and the completion of the          *)
(* stopper's request are separate steps: no lock covers them.              *)
(***************************************************************************)
Installed == pc \notin {"cleanup", "uninstalled"} /\ ~(removing /\ ret = "cleanup")

\* IsInstalled, blocking mode, IsStarted, and the stopper's request pending.
StopperReady ==
    /\ Installed
    /\ blocking
    /\ StopperCritFree
    /\ Started
    /\ status[Stopper] = "pending"

Goto(t, step) ==
    /\ cpc' = [cpc EXCEPT ![t] = step]
    /\ UNCHANGED <<aoVars, qVars, timeVars, flagVars, thrVars, owed>>

StopCheck(t) ==
    /\ cpc[t] = "idle" /\ "stop" \in ControlOps
    /\ StopperReady
    /\ Goto(t, "stop")

StopTestSuspend(t) ==
    /\ cpc[t] = "stop"
    /\ Goto(t, IF doSuspend \/ suspended THEN "stop_signal" ELSE "stop_complete")

SuspendCheck(t) ==
    /\ cpc[t] = "idle" /\ "suspend" \in ControlOps
    /\ StopperReady
    /\ Goto(t, "suspend_complete")

ResumeCheck(t) ==
    /\ cpc[t] = "idle" /\ "resume" \in ControlOps
    /\ Installed
    /\ doSuspend \/ suspended
    /\ Goto(t, "resume_signal")

SignalResume(t) ==
    /\ cpc[t] \in {"stop_signal", "resume_signal"}
    /\ resumeSem < MaxResume
    /\ resumeSem' = resumeSem + 1
    /\ cpc' = [cpc EXCEPT ![t] = IF @ = "stop_signal" THEN "stop_complete" ELSE "idle"]
    /\ UNCHANGED <<aoVars, qVars, timeVars, blocking, doStop, doSuspend,
                   suspended, thrVars, owed>>

CompleteStopper(t) ==
    /\ cpc[t] \in {"stop_complete", "suspend_complete"}
    /\ ~crit
    /\ IF Started /\ CanComplete(Stopper)
       THEN Complete(Stopper, IF cpc[t] = "stop_complete" THEN "stop" ELSE "suspend")
       ELSE UNCHANGED <<isIn, readyQ, sem, status, callback>>
    /\ cpc' = [cpc EXCEPT ![t] = "idle"]
    /\ UNCHANGED <<busy, added, timerQ, crit, timeVars, flagVars, thrVars, owed>>

(***************************************************************************)
(* Time passes.  The comparisons modulo Wrap order the timers correctly as *)
(* long as a timer is served before it is MaxLate ticks overdue: delays    *)
(* and lateness together stay below 2^31 ticks in the code.  Time is       *)
(* stopped while no timer is pending, because nothing looks at it.         *)
(***************************************************************************)
Tick ==
    /\ \A t \in Timer : isIn[t] = "timer" => (now - due[t]) % Wrap # MaxLate
    /\ timerQ # <<>>
    /\ now' = (now + 1) % Wrap
    /\ UNCHANGED <<aoVars, qVars, due, timenow, flagVars, thrVars, envVars>>

-----------------------------------------------------------------------------
LoopStep ==
    \/ LoopTest \/ TimerDue \/ TimerComplete \/ TimersDone
    \/ PopTop \/ PopSem \/ PopNothing \/ WaitSem \/ PopTopAfterWait
    \/ WaitTimeout \/ TimerExpired
    \/ RunStopper \/ CallRun \/ AfterRun
    \/ SuspendClear \/ SuspendWait \/ SuspendEnd
    \/ ExitLoop

CancelStep ==
    \/ DoCancel \/ CancelComplete \/ CancelIsIn \/ CancelWait \/ CancelCheck
    \/ CancelRestore \/ CancelIdle \/ CancelRemove \/ CancelSem
    \/ CleanupTimer \/ CleanupReady \/ CleanupDone

UserStep ==
    \/ StartScheduler \/ RunSchedulerNonBlocking \/ CountReached
    \/ RunReturn \/ RunLeave \/ UninstallScheduler \/ RegisterForCallback
    \/ \E a \in AO : PendForExec(a)
    \/ \E a \in AO \cup Timer :
          \/ RunIfNotReady(a) \/ Cancel(a)
          \/ RemoveFromScheduler(a) \/ AddToScheduler(a)
    \/ \E t \in Timer, d \in Delays : After(t, d)

ControlStep(t) ==
    \/ StopCheck(t) \/ StopTestSuspend(t)
    \/ SuspendCheck(t) \/ ResumeCheck(t)
    \/ SignalResume(t) \/ CompleteStopper(t)

Next ==
    \/ LoopStep \/ CancelStep \/ UserStep
    \/ \E a \in AO : RemoteComplete(a)
    \/ \E t \in Control : ControlStep(t)
    \/ Tick

Spec == Init /\ [][Next]_vars

(***************************************************************************)
(* The scheduling thread keeps executing, a Run returns (the contract of   *)
(* cooperative active objects), the threads that were handed a request     *)
(* complete it, a call of StopScheduler, SuspendScheduler or               *)
(* ResumeScheduler comes to its end, and time passes.  Strong fairness     *)
(* stands for a mutex that is not withheld from a thread for ever.         *)
(***************************************************************************)
Fairness ==
    /\ WF_vars(LoopStep) /\ WF_vars(CancelStep)
    /\ SF_vars(RunReturn)
    /\ \A a \in AO : SF_vars(RemoteComplete(a))
    /\ \A t \in Control :
          SF_vars(StopTestSuspend(t) \/ SignalResume(t) \/ CompleteStopper(t))
    /\ WF_vars(Tick)

SpecFair == Spec /\ Fairness

-----------------------------------------------------------------------------
PCs == {"idle", "loop", "timers", "timer_complete", "pop", "pop_sem", "wait",
        "timed_wait", "pop_after_wait", "timer_expired", "run", "running",
        "ran", "suspending", "suspended", "resumed", "exit", "cleanup",
        "uninstalled", "dead"} \cup CancelPCs

\* Types of the scheduler's state.
TypeOK ==
    /\ busy \in [Obj -> BOOLEAN]
    /\ status \in [Obj -> {"none", "pending", "cancel", "stop", "suspend"}]
    /\ isIn \in [Obj -> {"none", "ready", "timer"}]
    /\ added \subseteq Obj
    /\ readyQ \in Seq(Obj) /\ timerQ \in Seq(Timer)
    /\ sem \in Nat /\ crit \in BOOLEAN /\ callback \in BOOLEAN
    /\ now \in 0..(Wrap - 1) /\ timenow \in 0..(Wrap - 1)
    /\ due \in [Timer -> 0..(Wrap - 1)]
    /\ blocking \in BOOLEAN /\ doStop \in BOOLEAN
    /\ doSuspend \in BOOLEAN /\ suspended \in BOOLEAN
    /\ resumeSem \in 0..MaxResume
    /\ pc \in PCs /\ cur \in Obj \cup {None}
    /\ canc \in Obj \cup {None} /\ nwait \in Nat
    /\ ret \in {"idle", "running", "cleanup"} /\ removing \in BOOLEAN
    /\ cpc \in [Control -> {"idle", "stop", "stop_signal", "stop_complete",
                            "suspend_complete", "resume_signal"}]
    /\ owed \subseteq AO

(***************************************************************************)
(* An object's iIsIn link says which queue it is in, each queue holds an   *)
(* object once, and only a busy object is queued: with a completed request *)
(* in the ready queue, with a pending one in the timer queue.  The ready   *)
(* queue is also changed by PendComplete calls of other threads.           *)
(***************************************************************************)
QueuesConsistent ==
    /\ \A a \in Obj : isIn[a] = "ready" <=> IsQueued(readyQ, a)
    /\ \A a \in Obj : isIn[a] = "timer" <=> IsQueued(timerQ, a)
    /\ \A i, j \in 1..Len(readyQ) : readyQ[i] = readyQ[j] => i = j
    /\ \A i, j \in 1..Len(timerQ) : timerQ[i] = timerQ[j] => i = j
    /\ \A a \in Obj : isIn[a] = "ready" =>
          status[a] # "pending" /\ (busy[a] \/ (canc = a /\ pc = "cancel_remove"))
    /\ \A a \in Obj : isIn[a] = "timer" => status[a] = "pending" /\ busy[a]

(***************************************************************************)
(* iSem counts the ready queue, up to the decrements the scheduling thread *)
(* has made ahead of a dequeue (WaitAndPopTop, WaitForRequestComplete) or  *)
(* still has to make after one (PopTop, Remove).  A drift would make the   *)
(* scheduler spin or hang.                                                 *)
(***************************************************************************)
SemCountsReadyQ ==
    sem + nwait + (IF pc = "pop_after_wait" THEN 1 ELSE 0)
        = Len(readyQ) + (IF crit THEN 1 ELSE 0)

(***************************************************************************)
(* An object is run for a completed request that has not been run yet, and *)
(* the timer that UpdateTimers completes or WaitForReadyAO runs directly   *)
(* is still pending: its request has not been completed behind its back.   *)
(***************************************************************************)
RunsCompletedRequest ==
    /\ pc = "run" => busy[cur] /\ status[cur] # "pending" /\ isIn[cur] = "none"
    /\ pc = "timer_complete" => CanComplete(cur)
    /\ pc = "timer_expired" => timerQ # <<>> /\ timerQ[TimerTop] = cur

(***************************************************************************)
(* A registered observer misses no wake-up: while the callback is set the  *)
(* ready queue is empty.                                                   *)
(***************************************************************************)
CallbackNotLost == callback => readyQ = <<>>

(***************************************************************************)
(* Cancel: "wait for the request to cancel, then set the request idle. The *)
(* AO will not run."  When Cancel returns, the request is idle, the object *)
(* is in no queue, and if the request was to be completed by another       *)
(* thread, that thread has done it and will not touch the object again.    *)
(* A Cancel that does not return is none of these: it leaves from          *)
(* PendComplete, when the request was completed after DoCancel had seen it *)
(* pending (CancelLeave).                                                  *)
(***************************************************************************)
CancelReturns == pc \in CancelPCs \ {"cancel_complete"} /\ pc' \notin CancelPCs

CancelEndsRequest ==
    [][CancelReturns =>
          /\ ~busy'[canc] /\ isIn'[canc] = "none"
          /\ canc \in OwnDoCancel => canc \notin owed']_vars

(***************************************************************************)
(* A timer leaves the timer queue when it is cancelled or due, never with  *)
(* an earlier one left behind, across the rollover of the tick count.      *)
(***************************************************************************)
TimersFireInOrder ==
    [][\A t \in Timer : isIn[t] = "timer" /\ isIn'[t] # "timer" =>
          \/ canc' = t
          \/ /\ (now - due[t]) % Wrap <= Threshold
             /\ \A u \in Timer : isIn[u] = "timer" =>
                   (due[u] - due[t]) % Wrap <= Threshold]_vars

(***************************************************************************)
(* "any thread can use this to stop the blocking scheduler": once the      *)
(* stopper has been completed with a stop request, the loop ends.  With    *)
(* two threads it need not: one suspends the scheduler after the other     *)
(* tested for a suspended scheduler and before its stop is run.            *)
(***************************************************************************)
StopAccepted == isIn[Stopper] = "ready" /\ status[Stopper] = "stop"

StopTerminates == StopAccepted ~> ~Started

(***************************************************************************)
(* What does hold of several threads, if one of them calls ResumeScheduler *)
(* again and again: no suspension lasts, and no accepted stop is lost.     *)
(* ResumeScheduler acts only if one of the two flags that it reads without *)
(* a lock is set, so from the stopper's Run until the loop goes on one of  *)
(* them has to be.                                                         *)
(***************************************************************************)
Resuming == \E t \in Control : WF_vars(ResumeCheck(t))

SuspensionEnds == Resuming => (pc = "suspended" ~> pc # "suspended")

StopEndsResumed == Resuming => (StopAccepted ~> ~Started)

(***************************************************************************)
(* Objects of one priority are scheduled fairly: a ready object does not   *)
(* stay in the ready queue for ever while the loop runs, that is, unless   *)
(* the scheduler is suspended or stopped.                                  *)
(***************************************************************************)
Interrupted == pc = "suspended" \/ ~Started

ReadyRuns ==
    \A a \in Obj : (pc = "loop" /\ isIn[a] = "ready")
                      ~> (isIn[a] # "ready" \/ Interrupted)

(***************************************************************************)
(* A pending timer expires or is cancelled, whatever else is ready, unless *)
(* the scheduler is suspended or stopped.                                  *)
(***************************************************************************)
TimerExpires ==
    \A t \in Timer : (pc = "loop" /\ isIn[t] = "timer")
                        ~> (isIn[t] # "timer" \/ Interrupted)

=============================================================================
