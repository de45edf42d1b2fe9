# OpenCORE: TLA+ models of its execution core and command machinery

OpenCORE is a multimedia framework.  Everything in it that plays, records or
streams is a graph of *nodes* that pass *media messages* through *ports*, driven
by *active objects* that a cooperative *scheduler* runs, one at a time, in one
thread.  Engines drive the nodes with asynchronous commands; other threads get in
through thread-safe queues and callbacks.  The state of that machinery, not the
codecs, is what goes wrong in ways a test hardly reaches, and it is what this
project models: the heap behind every prioritised queue, the scheduler, the media
port, a complete node on top of them, the callbacks of foreign threads, the
command machinery of the player engine, and SRP, the one retransmission protocol
of the repository.

Contents: [inventory](#1-inventory), [modules](#2-modules-and-their-correspondence-to-the-code),
[runs](#3-runs), [fairness](#4-fairness), [proofs](#5-proofs),
[findings and limits of the code](#6-findings-and-limits-of-the-code),
[assumptions](#7-assumptions-and-abstractions), [not modelled](#8-not-modelled),
[plan](#9-plan).

`PROJECT.json` holds the same in a form for tools: the lines each definition
stands for (`map`), the hazards with the properties that cover them, the
mutants that show each property can fail.

## 1. Inventory

| Component (source) | State | Operations | Interacts with | What is hard | What makes it correct |
|---|---|---|---|---|---|
| Priority queue (`oscl/oscl/osclutil/src/oscl_priqueue.*`) | a vector used as a binary heap | push, top, pop, remove | owned by the ready queue, the timer queue and the command queues of the engines | index arithmetic at the edges; remove from the middle | it is a bag with a maximal top; nothing is lost or doubled |
| Scheduler (`oscl/oscl/osclproc/src/oscl_scheduler*.cpp`) | ready queue and timer queue, the semaphores `iSem` and `iResumeSem`, the mutex `iCrit`, flags; per object `iBusy`, `iStatus`, queue link | StartScheduler, RunSchedulerNonBlocking, Stop/Suspend/ResumeScheduler, UninstallScheduler; per object Activate, PendForExec, RunIfNotReady, After, Cancel, Add/RemoveFromScheduler | runs every active object; other threads complete requests and control the loop | completions race with the loop, with Cancel and with the end of the loop; flags read without a lock; 32-bit tick rollover; semaphore and queue are changed separately | a completed request is run exactly once; no wait blocks under the lock; a Cancel really ends the request; timers fire in order; ready objects, timers and stop requests are served |
| Media port (`pvmi/pvmf/src/pvmf_port_base_impl.cpp`) | connection, two bounded queues with busy flags, a copy of the peer's busy flag, capacities and thresholds | Connect, Disconnect, QueueOutgoingMsg, Send, Receive, DequeueIncomingMsg, ClearMsgQueues, Suspend/ResumeInput, SetCapacity, SetThreshold | calls the connected port directly; reports PortActivity to the node | state of one port cached in another; flow control that must restart; resizing under traffic | first-in first-out, lossless unless told otherwise; busy means backlog; a sender waits only for a busy port |
| Loopback node (`nodes/pvloopbacknode/src`) | interface state, command queue, current command, port, `iWaiting` | the node commands; Run of the node; Run of the port; HandlePortActivity | commands from a client, messages from another node, both active objects under the scheduler | the port is woken on the first message only and must re-schedule itself; waiting for an event that another operation can take away; all queues of the loop full | no wake-up is lost, everything fed comes back once and in order, commands are answered, a stop leaves nothing behind |
| Thread-safe callbacks (`baselibs/threadsafe_callback_ao`, `nodes/pvomxbasedecnode/src/pvmf_omx_basedec_callbacks.cpp`) | a ring, a semaphore of free places, a pool of chunks, an active object's request | ReceiveEvent in foreign threads; Run, DeQueue, ProcessEvent in the node's | scheduler, OMX components, the node | callers race with the Run that empties the ring; a pool no larger than the ring; a full ring blocks the caller | nothing lost, repeated or overwritten; whoever is let in finds a place; nobody blocked for ever |
| Thread-safe queue (`baselibs/threadsafe_callback_ao/src/threadsafe_queue.cpp`) | an unbounded queue, a semaphore, a request | AddToQueue, DeQueue, Run | the player engine and its callers | only the first element is signalled, after the mutex is released | a queue that is not empty is or will be served |
| Thread messaging (`baselibs/thread_messaging`) | command and notification queues of proxies | register, send, notify, cancel | two schedulers | messages outlive proxies | every command answered once |
| Node base, media clock, memory pools (`pvmi/pvmf`) | command vectors, clock state and callbacks | commands; start, pause, stop, callbacks | nodes, engines | callbacks at state changes | clock is monotone while running, every callback is called once |
| Player engine (`engines/player/src`) | engine state, pending and current commands, contexts of what the nodes owe, counters of datapath commands and cancels | Pause, Stop, Reset, CancelCommand, CancelAllCommands, ...; answers and errors of nodes and datapaths | all nodes, the thread-safe queue | failures, cancels and errors in the middle of a command over many nodes; late answers; who wakes the engine up | every command is answered exactly once, the counters match what is owed, quiet states are settled |
| Author and 2-way engines (`engines`) | as the player's | as the player's | nodes | as the player's | as the player's |
| SRP (`protocols/systems/3g-324m_pvterminal/h324/srp`) | wait queue, timers, sequence numbers, mode, list of early chunks, reassembly buffer | message from above, frame from below, timeout, mode changes, stop | the H.245 layer, the multiplex, the terminal controller | lost frames, late and repeated responses, two terminals that settle on a mode independently, retries | messages arrive whole, in order and once, or a failure is reported |
| Streaming nodes and jitter buffer (`nodes/streaming`) | buffering and delay states | data, clock, underflow | sockets, clock, ports | late and reordered packets | delay is made up, end of stream is reported |
| Other nodes, file formats, protocols, codecs, Android glue | - | - | - | data, not control | - |

A command travels: client -> node's command queue -> node's active object, run by
the scheduler -> completion reported to the client.  A message travels: outgoing
queue of one port -> incoming queue of the connected port (a direct call) ->
PortActivity -> the receiving port's active object is made ready -> its Run moves
the message on.  An engine command travels: application (or the thread-safe queue,
from another thread) -> pending queue -> current command -> commands to the
datapaths and the source node -> their answers, counted down -> the answer to the
application.

## 2. Modules and their correspondence to the code

* **OsclPriorityQueue** - the vector is `c` (a function on `0..size-1`).  `Push`,
  `Pop`, `RemoveLast` and `Remove` begin the public operations; `PushHeapStep`
  and `PopHeapStep` are one turn of the `while` loops of `push_heap` and
  `pop_heap`, `first`, `index` and `last` their locals.  `remove` passes the
  position it found as `first`, exactly as the code does.  `removes` and `room` say
  how an owner uses its queue (whether it calls `remove`, and how many elements it
  keeps at most); they are chosen initially and never change.  `KeepsHeap` are the uses
  in which the heap keeps its order: without `remove`, or with at most `RemoveLimit`, 5,
  elements (section 6).
* **PriorityBag** - what a priority queue promises: a bag whose pop takes a
  maximal element if its queue is kept in order (`ordered`).  `MCOsclPriorityQueue` maps
  the vector to it (unchanged while a heap loop runs), `ordered` to `KeepsHeap`.
* **OsclScheduler** - the scheduling thread's position is `pc`; `cur` is the
  object being served, `canc`, `nwait`, `ret` and `removing` are the locals of a
  Cancel or RemoveFromScheduler; `cpc` is the position of each controlling
  thread, `owed` the requests other threads have still to complete.  A step ends
  where another thread can see or change something: at `iCrit`, at a semaphore,
  at an unprotected flag.  `LoopTest ... SuspendEnd` are `BlockingLoopL`,
  `UpdateTimers`, `WaitForReadyAO` and `OsclReadyQ`; `DoCancel ... CancelSem`
  are `Cancel`, `WaitForRequestComplete`, `RequestCanceled` and
  `OsclReadyQ::Remove`; `Cleanup*` is `CleanupExecQ`; `RemoteComplete` is
  `PVThreadContext::PendComplete` of another thread; `Stop*`, `Suspend*`,
  `Resume*`, `SignalResume` and `CompleteStopper` are the three control calls
  with their unlocked gaps.  An unhandled leave out of `PendComplete` is the
  position `dead`.
* **PvmfPort** - one action per public operation.  An operation with the calls it
  makes on the connected port is one step (everything happens in one thread).
  `acts` holds the PortActivity it reports.  `EvaluateIncomingBusy` includes the
  connected port's `ReadyToReceive`.  `DataStep` is what moves messages, `ControlStep`
  everything else (`PortOps`).  `MCPvmfPort` adds the variable `use`: which ports are
  sent on and which control operations are called.
* **MediaChannel** - what a connection promises: a first-in first-out channel,
  `Reliable` or `Lossy`.  `MCPvmfPort` maps `inQ[snk] \o outQ[src]` to it, and
  `MCLoopbackNode` the whole way there and back.
* **LoopbackNode** - EXTENDS PvmfPort and composes the port `lb`, its active
  object, the node's active object and command queue, the port `peer` of the node
  at the other end, and the client.  `PortRun ... NothingToSend` are the port's
  Run, step by step; `CommandWaits`, `Do*`, `InvalidState` and `CheckFlush` the
  node's; `HandlePortActivity` is conjoined with every port operation and decides
  whether the port's active object is made ready.  Between two steps of a Run
  nothing else happens (`pc`), since Runs are not interleaved.
* **Srp** - two terminals, each a record `ep[p]` whose fields are the members of
  `SRP`; each method is an operator from record to record, and what it sends down
  or up is gathered in the fields `tx` and `up`, which `Commit` empties.  A frame
  is its header and a chunk; a chunk carries its position in what was sent.
  `LowerLayerRx` is the arrival of a frame: `SrpNoteFrame` and `SrpGetEvent` are
  `SrpGetEventNoFromAL1`, `SrpFrame` the state table, `Srp_0_1 ... Srp_1_3`,
  `Resend` and `GiveUp` its entries.  `LoseFrame` is a checksum error or a frame
  that does not come.  `Reassemble` is `TscSrpBufferLLPortIn::Receive`.
* **PduTransport** - what SRP promises to H.245: what comes out is a prefix of what
  went in.  `MCSrp` maps each direction to it.
* **ThreadSafeCallbackAO** - `ReceiveEvent`, `SemaWait`, `Allocate` and `Queue` are
  the steps of a foreign thread, `StartRun ... SemaSignal` those of a Run.  `kind`
  says which of the two variants the object is; their difference is `RunOrder`,
  `StepAfter` and `Rearm`.  Its abstract specification is MediaChannel's reliable
  channel.
* **PlayerEngine** - the fields of `eng` are the engine's members; `ctx` is
  `iCurrentContextList`, `toCancel` is `iCmdToCancel`, `numCancel` and `numDp` the
  two counters, `src` and `dp` what is left of the source node and the datapaths.
  `Run` is one Run of the engine, and every function it calls an operator of the
  same name; `DatapathDone`, `SourceDone`, `NodeDone`, `CancelDone` and
  `SourceError` are the calls nodes make into the engine, with the handlers below
  them.  `AddToQueue`, `SignalQueue`, `QueueRun` and `DeQueue` are the thread-safe
  queue, `SyncCall` and `SyncReturn` the blocking call of another thread.
* **OsclPriorityQueueProofs**, **OsclSchedulerProofs**, **PvmfPortProofs**,
  **PvmfChannelProofs**, **LoopbackNodeProofs**, **ThreadSafeCallbackAOProofs**,
  **PlayerEngineProofs**, **SrpProofs** - the theorems, each in a module that extends
  what it is about.
* **MC\*** - constants, uses and refinement mappings for TLC.  `MCSchedulerUses` runs
  the scheduler with one of four questions, chosen initially, each with the users and
  the controlling threads it needs: `threads`, `timers`, `serve` and `control`.

Definitions marked as mutants model a plausible mistake in the definition that
follows them; no specification uses them.

## 3. Runs

| Run | Question | Bounds, and why they are enough |
|---|---|---|
| `pq` | Is the vector a heap between operations, does pop take a maximal element, is it a bag? (push, pop, remove) | Lengths up to 7 of 4 priorities, repetitions included, every use: a heap that is only pushed and popped is in order at every length, one that is removed from at lengths up to 5; one of 6 or 7 that is removed from is checked to stay a bag.  With a `RemoveLimit` of 6 this very run finds the heap out of order (section 6): the limit of 5 is sharp. |
| `sched` | Do queue, semaphore, links and callback stay consistent under other threads? Do timers fire in order across the rollover? Does a Cancel that returns end the request? | `threads`: two objects of different priority, one with the default DoCancel and one whose DoCancel leaves the completion to another thread; two controlling threads; both modes; every operation of user code, leaves and uninstall included.  Two objects are what a Cancel needs to take the signal of another object; two controlling threads are what races between control calls need.  `timers`: two timers of different priority, delays 1 and 2, tick counts modulo 8 (for 2^32, so the rollover is met often), one object completed by another thread. |
| `sched_live` | Is everybody served, does every suspension end, is no stop lost? | `serve`: an object and a timer of equal priority that make themselves ready again for ever, one controlling thread that stops, suspends and resumes at will; tick counts modulo 6.  `control`: two controlling threads that interleave at every unlocked gap of their calls, one credit of `iResumeSem` to spare, idle objects. |
| `sched_stop` (violation) | Does a stop end the loop, whatever other threads call? | `control` of `sched_live`, without anybody who keeps resuming. |
| `ports` | Connections, busy flags, order, loss, stuck senders | Two uses, chosen initially.  Both ways, connected, cleared, suspended and disconnected at will: capacity 2 and the default threshold of 60 per cent (one message), so that full, above, at and below the threshold all occur; two different messages, so that a reordering or repetition shows.  And one way on a connection that stays, with capacities 2 and 3 and thresholds of 60, 100 and the refused 101 per cent, changed at any moment. |
| `loop` | Wake-ups, stop, order, drain, answers | Two uses, chosen in the initial state: all nine commands, connecting and disconnecting, six commands in all (a start after a stop takes six) and 5 messages, what it takes to make the loopback port wait; and an undisturbed node, started and paused at will, with 9 messages, one more than the four queues of capacity 2 hold.  `CommandsAnswered` counts every command of both: what is not answered is a flush the node has accepted, and what waits behind it. |
| `loop_flush` (violation) | Is an accepted flush answered? | Start, pause and flush on a connection that stays, three messages. |
| `srp_modes` | Timers and acknowledgements while the modes are being settled | WNSRP on both terminals; two messages one way and one the other, so that commands and responses cross; window 2, so that a chunk can overtake a lost one; one loss, one retry. The sequence space exceeds the traffic: see the wrap in section 6. |
| `srp_arrives` | Whole, in order, once, and does everything arrive? | Three messages of one or two chunks one way, sequence numbers modulo 4, so that they wrap; window 1; two losses against one retry, so that giving up is reached; all kinds of call. |
| `tscb` | Request, semaphore, pool and ring; order; blocked callers | Ring of 2, three threads with two callbacks each: one more caller than places, and every index of the ring is reused. |
| `engine` | Answers, wake-ups, counters, settled states | A datapath with and one without a decoder. Three budgets, chosen in the initial state: three commands in the engine's thread with a failing node and an error of the source; two commands of another thread with a failing node; two commands of another thread and two synchronous calls. `MaxErrors` bounds failures and errors together. Three commands are what a cancel of one command while another waits takes. |
| `engine_masked` (violation) | Is error handling on top of the pending queue? | One command, one failing node, one synchronous call. |

Deadlock is not checked in runs whose system may stop by itself: a scheduler that
has been stopped or uninstalled, nodes with nothing to do, a call that has failed,
and the bounds on messages and commands.  The priority queue can always go on, and
is checked.  The type invariants of the larger modules (`TypeOK`) hold in these
instances too; they are kept for the proofs and are not part of the runs.

The properties, by hazard:

* *Semaphore and queue.* `iSem` is signalled and waited for apart from the changes
  of the ready queue.  `SemCountsReadyQ` accounts for every decrement made ahead
  of a dequeue or still owed after one, which is what the comments "this call won't
  block" and "there should always be an element available after a sem wait" rely
  on; `QueuesConsistent` and `RunsCompletedRequest` say that a link, a queue and a
  request never disagree, and nothing is run twice.
* *Cancel.* `CancelEndsRequest`.  *Time.* `TimersFireInOrder` across the rollover,
  `TimerExpires`.
* *Control.* `SuspensionEnds` and `StopEndsResumed`: whichever of the unlocked gaps
  another thread's call meets, a thread that keeps resuming ends every suspension and
  loses no stop.  Without one a stop may be lost: `StopTerminates` fails.
* *Fair service.* `ReadyRuns`.  *Non-blocking mode.* `CallbackNotLost`.
* *Flow control.* `BusyHasBacklog`, `SenderWaitsForBusyPort`.  *Both ends agree.*
  `ConnectionClean`.
* *Messages.* `ImplementsReliableChannel`, `ImplementsLossyChannel`, `EchoInOrder`,
  `EchoDrains`, `CarriesEvents`, `ImplementsTransport`, `SentArrives`.
* *Wake-ups.* `NoLostWakeup`, `RequestFollowsRing`, `SomeoneWillWakeIt`,
  `QueueIsSignalled`.  *Commands.* `CommandsAnswered` (node and engine),
  `AnsweredOnce`, `StoppedIsClean`; `FlushCompletes` fails.
* *Retransmission.* `TimersCoverQueue`, `AckedWasReceived`.
* *Resources.* `PlaceForWhoeverIsIn`, `EveryEventProcessed`.
* *Several nodes, one command.* `CountersMatch`, `QuietStatesAreSettled`.

## 4. Fairness

Scheduler (`SpecFair`):

* weak fairness of the loop and of Cancel: the scheduling thread executes whenever
  it is not blocked;
* strong fairness of `RunReturn`: a Run returns, which is the contract of
  cooperative active objects (the code has no preemption to fall back on); strong,
  because user code may also go on making calls;
* strong fairness of `RemoteComplete`: a thread that was handed a request completes
  it.  `Cancel` blocks the scheduling thread on this very assumption.  Strong,
  because the mutex `iCrit` is now free and now taken, and is not withheld from one
  thread for ever;
* strong fairness of the remaining steps of a control call, for the same reason; no
  fairness of *beginning* one;
* weak fairness of time.

Nothing is assumed of user code making requests, cancelling, or of anyone
resuming a suspended scheduler: `ReadyRuns` and `TimerExpires` speak of a loop that
is not suspended or stopped, and `SuspensionEnds` and `StopEndsResumed` state as their
hypothesis that one thread calls ResumeScheduler again and again (`Resuming`, weak
fairness of its test).

Loopback node (`FairLoopSpec`): weak fairness of the Runs of the node and of the
port, which `ReadyRuns` grants to objects of equal priority, and of the other node
serving its own port, an active object of the same thread.  Nothing is assumed of
the client.  `loop_flush` does not depend on the choice: the counterexample ends in a
state in which the node has nothing more to do, and with the right command number the
property holds under the fairness the scheduler grants.

SRP (`FairSpec`): a frame under way arrives in the end unless it is lost, and a
timer that runs expires.  Losses are bounded, as the retry counter supposes.

Callbacks (`FairSpec`): the node's thread and every foreign thread run while they
can.  Weak fairness is enough, as the calls of the model are finitely many and the
semaphore cannot be given to others for ever.

Engine (`FairSpec`): the engine's thread runs an active object while one is ready
(`ReadyRuns`), nodes answer what they are asked and the cancels of it, threads
inside AddToQueue go on.  Nothing is assumed of the application, of failures or of
errors.  Two of these conditions, and one of SRP's, are weak fairness with the
enabling condition written out, which TLC evaluates much faster.

## 5. Proofs

All are machine-checked by TLAPS for every value of the constants.

**Priority queue.**  Assumptions: the comparator is a strict weak order
(`LTAssumption`), nothing on size or elements.

* `TypeCorrect` (`Spec => []TypeOK`): no operation, in any use, indexes outside the
  vector.  It needs to know which operation a heap loop belongs to and that a `remove`
  that enters `pop_heap` has at least one position behind it (`TypeInv`).
* `HeapCorrect`: in the uses that keep the heap (`KeepsHeap`: any length with push and
  pop, at most five elements with `remove`), `HeapOrdered` holds between operations and
  the top is maximal.  The heap order is broken inside an operation, so the
  inductive invariant `HeapInv` says where: during `push_heap` every parent is no
  less than its child but possibly at `index`, during `pop_heap` but possibly below
  `index`, and in both the parent of `index` is no less than the children of
  `index` (`SkipsIndex`), so that the next swap cannot break the order elsewhere.
  A `remove` from the middle of five or fewer elements has only the few positions of
  `EnterMiddleKeepsHeap` and `MiddleStepKeepsHeap` to consider.
  That the root of a heap is maximal is the one inductive fact about data
  (`RootMaximal`), obtained from the least counterexample instead of induction.
* `PopCorrect`: pop hands out what top showed, which, in these uses, nothing left beats.
* `BagCorrect` (`Spec => ImplementsPriorityBag`): every queue, also one in which `remove`
  has spoiled the order, implements the priority bag, which counts how often each element
  is queued, and takes a maximal element where the heap is kept.  One position more or
  less adds or takes away one occurrence (`BackOfVector`), a swap none (`SwapKeepsBag`);
  these lemmas are about every function on `0..n-1`.  The capacity `MaxSize` bounds the
  model's queue only, so the bag has none.

**Ports.**  Assumptions: `PortAssumption` (NoPort is no port, initial threshold at
most 100 per cent).  Any number of ports, any capacities and thresholds.

* `PortTypeCorrect`, whatever nodes and engine call.
* `ConnectionCorrect`: connections are symmetric, and a port without one has no
  message and no busy queue.  Inductive together with the types: symmetry is what
  makes Disconnect clear the right peer.
* `BacklogCorrect`: a busy queue is not empty and holds at least a threshold of
  messages.  Hypothesis `PositiveThresholds`, what the `OSCL_ASSERT`s of
  `isOutgoingFull` and `isIncomingFull` demand: no capacity and percentage in use
  round down to a threshold of 0.  Inductive once it is known that every queue has
  sizes of these sets (`SizesGiven`) and that a threshold is at most the capacity.

`OperationType` and `OperationConnection` state what is common to all callers of a
port (`Operation`); the loopback node's proofs use them too.

**Channels** (`PvmfChannelProofs`).  Any set `Uses` of uses (`UsesAssumption`).
`WaitCorrect`: in the uses that do not break connections, a refused sender waits for a
port that is busy.  Inductive with `ConnectionClean`: a queue that becomes ready informs
the one port connected to it, and only by symmetry is that every port that may be waiting
for it.  That disconnections are excepted is needed: see section 6.
`LossyChannelCorrect` and
`ReliableChannelCorrect`: two ports (`TwoPorts`) implement MediaChannel, the lossy
one whatever is called, the reliable one in the uses in which nothing is cleared,
suspended or disconnected (`Lossless`).  Each operation is shown to be a stutter, a `Put`, a `Get`
or a `Discard` of `inQ[snk] \o outQ[src]`; symmetry of connections (`ConnectionClean`)
is what makes the connected port the right one.

**Scheduler** (`OsclSchedulerProofs`).  Any number of objects, timers and threads,
any range of the tick count for which delays and lateness stay below half of it
(`TimeAssumption`).  The inductive invariant `IInv` is `TypeOK`, `QueuesConsistent`
and `SemCountsReadyQ` with

  * `CtlInv` - what holds at each position of the loop, of Cancel and of the control
    calls: who has `iCrit`, which flags and locals mean something there;
  * `ObjInv` - link, request and queues of each object, and which object the position
    is about; without it a Remove or a completion at a later step could meet an object
    that another thread has moved meanwhile;
  * `TopInv` - the object read from the top of a queue in one step is the one that is
    taken in a later step;
  * `TimeInv` - no timer in the queue is more than `MaxLate` late or further away than
    a delay, so that the modular comparison of ticks orders them.

  All queue changes of the steps are instances of one move (`QueueMove`: append to or
  remove from one of the queues), for which the facts about queues and counters are
  proved once.

  * `SchedulerTypeCorrect`, `QueuesCorrect`, `SemCorrect` and `RunCorrect` are parts
    of `IInv` or follow from it.
  * `CallbackCorrect` takes `IInv` and the steps that fill the ready queue, which call
    the observer under the same lock.
  * `TimersCorrect` (`FireInv`): the timer read by the loop is still due when it is
    removed, and every other is later in the modular order.  The timer queue of the model
    is ordered ideally; that of the code is an `OsclPriorityQueue` from which cancelled
    timers are removed, so the theorem is stated for `FewTimers`, at most five, for which
    `HeapCorrect` shows the two to be the same.
  * `CancelCorrect`: every Cancel that returns has ended the request, whatever other
    threads complete, stop or suspend, with the default `DoCancel` and with one that
    leaves the completion to another thread.  `OwnInv` says that a request of an object of
    the latter kind that is left to another thread is still pending there.  A Cancel
    that leaves instead of returning is excepted: see the race of the default `DoCancel`
    in section 6, `CancelLeave` in the model.

**Callbacks** (`ThreadSafeCallbackAOProofs`).  Any finite number of threads
(`ThreadsAssumption`), any depth, both variants.  `IInv` adds to the types what the
request is at each step of a Run (`RequestInv`), the sum of free places, elements and
callers that are inside (`PlaceInv`, with cardinalities), where the read and write
pointers are (`PointerInv`) and that no chunk is both free and in use (`DistinctInv`).

* `CallbackTypeCorrect`; `RequestCorrect`; `PlaceCorrect`.
* `CarriesCorrect`: the ring implements MediaChannel's reliable channel.  The contents
  are read off the ring with modular indices, and `DistinctInv` is what keeps a caller
  from overwriting an event that waits.

**Loopback node** (`LoopbackNodeProofs`).  Any client in `Uses`, any sizes, any number
of messages.  The inductive invariant `Inv` adds to the ports' `TypeOK` and
`ConnectionClean`: a port's Run past its first test belongs to a started node and has a
message in hand exactly between dequeuing and queueing (`RunInv`); a port that is gone
is not connected and waits for nothing (`PortInv`); a port is requested only when there
is none, also once the commands before it have been served (`RequestInv`); what the Run
has seen to when it reaches Send (`WakeInv`); who may suspend the input (`FeedInv`).

* `WakeupCorrect`; `StoppedCorrect`.
* `EchoCorrect`: the way there and back, five queues with the message in hand, is a
  first-in first-out channel, and a reliable one for a client that does not stop,
  flush, reset, release or disconnect.

**Player engine** (`PlayerEngineProofs`).  Any number of datapaths, commands, failures,
errors and synchronous calls.  Assumptions: the datapaths are finitely many and the
source node is none of them (`DatapathsAssumption`, `DecodedAssumption`), the commands
are those of the API (`ApiTypesAssumption`) and the budgets are numbers
(`MaxAssumption`, `BudgetsAssumption`).

* `QueueCorrect`: the semaphore of the thread-safe queue is up exactly while the request
  is pending (`SemGuardsRequest`), so whoever gets past it may complete the request, and
  a queue that is not empty has a completed request or a caller on the way to complete
  it.
* `CountersCorrect` and `QuietCorrect`, from one invariant (`EngineInv`) that says for
  each state of the engine what is owed by whom (`Phases`): nothing in the states the
  application sees (`QuietPhase`), the one kind of answer the command in progress waits
  for while pausing and stopping (`WorkingPhase`), answers of datapaths of any kind in
  an error (`ErrorPhase`), cancels that were not answered yet (`CancelPhase`), resets
  (`ResetPhase`).  A counter alone is not inductive: a late answer decrements it, and
  only the phase says that the answer is one of those it counts.
* `AnsweredCorrect`, from the ledger of the ids (`Accounted`): ids are drawn in order,
  an id is in at most one of the caller's hand, the thread-safe queue, the pending queue
  and the engine's hands, and one that was drawn and is in none of them has been
  answered once.  `Ledger` says the same of one step: what the engine no longer holds
  is what it answered.  `StepKinds` reduces every step of the model to a few kinds for
  which it is proved.  Hypothesis `HasDatapaths`: without datapaths each Stop ends as
  an error and draws one more id, so that the ids outgrow the counters of the model.
* `WakeOnTop`: an engine that waits for nobody is scheduled or has nothing to do
  (`Fresh`), as long as an error handling command is on top when there is one.  This is
  the assumption a comment of the code makes, and a synchronous call can break it
  (section 6, run `engine_masked`); `WakeOnTop` shows that this is the only way for the
  engine to fall asleep.  `OnTopSeparately`: it is not broken in a player in which
  synchronous calls do not meet failures or errors (`Separately`).

**SRP** (`SrpProofs`).  `SrpTimersCorrect` (`TimersCoverQueue`): any number of
messages and chunks, any kinds of call, any loss and any number of retries, under two
hypotheses.

* `NoWrap(K)`: with at most K chunks in a message, no terminal sends as many chunks as
  there are sequence numbers.  Beyond that a late number may name a later chunk, and
  the order of the wait queue is not that of the numbers.
* `Window >= 2`; the code has `DEFAULT_WNSRP_WINDOW`, 5, and never sets another.  With
  a window of 1 the property is false (section 6).

  The property itself is not inductive.  `SrpInv` says how the modes share the wait
  queue: the numbers in it rise (`Ordered`), the SRP timer is that of its head
  (`SaveIsHead`), the window's timers are those of its first chunks (`WindowIsPrefix`).
  The hard case is the NSRP response that comes after the terminal has settled on WNSRP:
  it takes a chunk and its timer away and sends nothing.  `Late` says that the numbers
  of NSRP responses under way, and of SRP commands that will be answered by one, lie
  behind no other chunk than the head, and name the head only if two chunks are under
  way or nothing else waits (`TwoUnderWay`), so that a timer is left.  Each method is
  one lemma about a terminal (`TerminalInv` is kept, `Sends` says what goes down);
  `CommitStep` lifts it to the two terminals and the links.

* `SrpTransportCorrect` (`ImplementsTransport`), with `Peer` the two terminals of
  `MCSrp`, under `NoWindowWrap` for the longest message of `Chunks`: the window on top of
  the numbers given out does not wrap either.  Beyond that a late repetition of a small
  number is taken for an early chunk, and the order of early chunks is not that of
  their numbers (section 6).  The receiver's
  invariant is `RecvInv`: the list of early chunks rises strictly, all of it is later
  than the number expected and below what the peer has given out, and it is empty before
  the first command.  `RxInv` adds that the commands under way have numbers given out.
  `AddPendingRxFrag` inserts before the first later number and `DeliverPending` takes the
  longest run of consecutive numbers; both are reasoned about by the least
  counterexample (`LeastNat`), as the library's induction is out of reach.  For each direction
  `Flows` says that everything on its way belongs to one list of messages: a chunk in the
  wait queue, behind a timer, on the link or in the list of early chunks is the chunk
  that its number names (`ChunksOf`), and the messages that came out, the chunks in the
  reassembly buffer and the number expected next stand at one place in what was sent
  (`Assembled`).  The delicate part is the beginning: the first command that a terminal
  receives may be an SRP command, which sets the number it expects, and is right only
  because nothing has left the sender's queue yet (`Starts`), so that every SRP command
  under way has the number 0.  Of a terminal in failure only what is on the link still
  counts.  `Commit` is looked at from both sides: `SendsOut` and `SenderMoves` for
  the direction from the terminal, `PassesUp` and `ReceiverMoves` for the direction to it.
  Each step of Srp then sends one message, delivers some, or is a stutter (`Moves`).
  What the folds over chunks and messages compute (`FoldLeft`, `FlattenSeq`) is again
  reasoned about by the least counterexample.
* `SrpAckedCorrect` (`AckedWasReceived`), with `Flows` and `Acks`: a number given out
  waits or the peer has its chunk (`AckOf`), and a response under way that bears a number
  bears one that its sender has (`AckFrames`).  A receiver answers a number it does not
  wait for as one of long ago, and answers only if it is not older than `Behind`; the
  hypothesis `HalfRange(K)`, that the chunks of a call are no more than the remaining
  numbers (131 of the code's 256), is what makes every number so answered one it has
  received (`AnsweredIsGot`).

Neither hypothesis is about the mode or the loss: what they exclude is a call with more
chunks than numbers, for which the late repetitions of section 6 exist.  The run
`srp_modes` satisfies them, while `srp_arrives` checks the transport also where numbers
wrap (6 chunks, 4 numbers) and the window is 1.

**Only model-checked.**  Liveness: fairness is out of the prover's reach.  Not proved,
because false, are the three properties of the violation runs.

## 6. Findings and limits of the code

Three runs show the code to differ from what it says of itself.

* `engine_masked`: `CheckForPendingErrorHandlingCmd` looks at the top of the pending
  queue only, since "error handling cmds have the highest priority"; the synchronous
  commands of other threads have none in `GetPriority` and get the default 0, ahead of
  it.  If one is queued while a command whose node has failed is current, the engine sees
  neither: the error is not handled, the command is never answered and the caller blocks.
  `engine` therefore does not mix failures with synchronous calls.
* `sched_stop`: StopScheduler, "any thread can use this", tests for a suspended scheduler
  and completes the stopper in two steps.  A suspend of another thread in between sends
  the loop to sleep with the stop accepted.  `StopEndsResumed` shows that the stop is then
  delayed and not lost: the next ResumeScheduler brings it out.
* `loop_flush`: the loopback node looks for a command number of another enumeration (8
  for 7), so an accepted flush is never answered, and what the client sends after it
  waits behind it (`CommandsAnswered`).

The models show more limits, each of them the reason for a restriction of a run, a
property or a theorem:

* `OsclPriorityQueue::remove` sifts down relative to the removed position, where the
  children are not at `2i+1` and `2i+2` of that origin.  With 6 or more elements the
  vector may then be no heap, and a later `top()` an element of lower priority: removing
  9 from `10 9 4 5 8 3` leaves `10 5 4 3 8`.  Hence `KeepsHeap` in the properties of the
  queue, and `FewTimers` in the theorem about timers: a scheduler with six timers, one of
  which is cancelled, may fire the others late and out of order.
* A second ResumeScheduler before the loop has left its wait puts a credit
  into `iResumeSem` that the next suspend consumes at once.
* A Cancel with the default `DoCancel` tests `iStatus` and completes the request in
  two steps.  A completion by another thread in between makes its own completion
  leave, with the object still queued (`CancelLeave`).  `CancelEndsRequest` therefore
  speaks of a Cancel that returns; objects with the default `DoCancel` and this race are
  in the run.
* An object whose request is pending at UninstallScheduler is in neither queue and is
  not removed; a delay above 2^31 microseconds overflows; the sequence numbers of the
  ready queue wrap after 2^32 completions.
* `iConnectedPortBusy` survives a disconnection; on the next connection the port
  refuses to send to a port that is free (`SenderWaitsForBusyPort` and `WaitCorrect`
  except the uses with disconnections; `ConnectionClean` does not speak of the flag).
* `isOutgoingFull` tests for equality: with a capacity set below the present length
  the queue grows without limit.  A threshold rounded down to 0 (capacity 1, 60 per
  cent) makes an incoming queue that is never busy, and an outgoing one that is
  always full.
* A loopback port disconnected while it waits for its outgoing queue waits on,
  since clearing the queue on disconnection reports nothing; a stop ends the wait
  (`StoppedIsClean`).
* SRP sorts chunks that came early by their plain number.  With 255 lost and 0 taken
  first, the list is `0, 255`, neither is the expected head, and both, though
  acknowledged, are never delivered.  `srp_modes` stays below the wrap,
  `srp_arrives`, which wraps, has window 1, and `SrpTransportCorrect` has `NoWindowWrap`:
  no property covers the wrap with a wider window.
* With a WNSRP window of 1, which `SetWNSRPTxWindow` allows and nothing asks for, SRP
  could stall: a WNSRP response settles the mode while the NSRP response to the next
  chunk is under way; that response removes the chunk and the only timer, and what
  waits goes out only with the next message from H.245.  `srp_arrives` does not reach
  this: among four sequence numbers a command that is repeated is too old to be
  answered.  For windows of two or more `SrpTimersCorrect` excludes it.
* An SRP response on level 0 has no number and a late one acknowledges a later chunk:
  `AckedWasReceived` and `SentArrives` except level 0; `ImplementsTransport` does
  not.  Every later answer resets the retry counter of an unanswered chunk to 1
  (`srp.cpp`, line 1506), so that giving up is delayed for as long as others are
  answered.  A message for which there are not enough buffers is dropped without
  H.245 being told.
* In the engine, a decoder or sink that reports an error while the source node still
  owes an answer runs into an assertion in `DoErrorHandling` and, without it, into a
  cancel with nothing to cancel; when one datapath is reset by its decoder and
  another as a whole, and the latter answers last, the sink of the former is not
  reset; two threads in synchronous calls share one semaphore.

## 7. Assumptions and abstractions

* Scheduler: one tick is one millisecond, so the rounding of delays is absent;
  delays and lateness together are below half the range of the tick count, as the
  comparison in the code requires (`TimeAssumption`); an object is added once.  The
  ready and timer queues are ordered ideally, which `pq` and `HeapCorrect` justify for
  up to 5 queued objects (beyond, see section 6); order of arrival stands for the
  sequence numbers, whose wrap after 2^32 completions is not met.  `MaxLate` and
  `MaxResume` bound how late the scheduler is and how many resume credits pile up.
* Control calls that the code refuses (not installed, not started, not suspended)
  have no effect and are not steps.
* Ports: a release build, in which `OSCL_ASSERT` is compiled out.  Messages are
  values; their timestamps, the datapath log and statistics are left out.  `MaxQueue`
  bounds the queues above the largest capacity, so that growth beyond it can show.
* SRP: memory does not run out but for the transmit buffers; a message fits the
  reassembly buffer; timers expire at any time, early ones included.  `LinkCap` and
  `MaxLoss` bound the link.  A terminal that has reported a failure does nothing
  more than stop.
* Callbacks: the node stays added to its scheduler, semaphores and mutexes do not
  fail, a caller of the base class does not reuse its event.
* Engine: a release build.  The run begins in STARTED; resets do not fail (the code
  asserts it); the pending queue is a bag ordered by priority and id, which `BagCorrect`
  justifies at any length, as it is only pushed and popped; one thread makes synchronous calls, whose ids come from the counter of
  the thread-safe queue; "quick" stands for the commands that are answered in the
  Run that takes them.  A datapath that was told to cancel does not report the
  command it cancelled; the source node reports it first, as cancelled.
* Loopback node: logged on to a thread; the client does not ask for a second port and
  starts or flushes only a node that has one.  `MaxCmds`, `MaxIssued`, `MaxFed` and
  `Uses` bound the client and the feed.

## 8. Not modelled

Construction and destruction, memory allocation failure, logging and statistics;
native (Symbian) variants of the scheduler; ports that override the tests of the
base class; of the player engine Init, Prepare, Start, Resume, repositioning,
licences, capabilities and the errors that decoders and sinks report on their own;
everything listed as `not_modelled` in `PROJECT.json`.  Parsers, file formats and
codecs, which are most of the repository, are data with little control and out of
TLC's reach; the H.245 encoders and decoders are generated; other libraries are not
this program's.  The author and 2-way engines and the other nodes have the same
command skeleton as the player engine and the loopback node.

## 9. Plan

Done, in this order: priority queue and its proofs; scheduler; media port, channel
and proofs; loopback node; SRP; thread-safe callbacks and queue; player engine; the
proofs of scheduler, channels, loopback node, callbacks and thread-safe queue; SRP's
timers; the invariants of the player engine; SRP's
transport and acknowledgements; the priority queue as a bag.  Every safety property of
the passing runs is stated by a theorem.

Later models: thread messaging between two schedulers, the media clock, and the
jitter buffer's delay states.
