SPECIFICATION MCSpec
CONSTANTS
    a1 = a1
    a2 = a2
    t1 = t1
    t2 = t2
    c1 = c1
    Stopper = Stopper
    None = None
    Priority <- MCPriority
    AO = {a1, a2}
    Timer = {t1, t2}
    OwnDoCancel = {a1}
    Control = {c1, c2}
    ControlOps = {"stop", "suspend", "resume"}
    UserOps = {"pend", "run", "after", "cancel", "remove", "add", "register", "leave", "uninstall"}
    Modes = {"blocking", "nonblocking"}
    Wrap = 8
    Delays = {1, 2}
    MaxLate = 1
    MaxResume = 2
    Levels = 2
    Questions = {"threads", "timers"}
INVARIANTS
    QueuesConsistent
    SemCountsReadyQ
    RunsCompletedRequest
    CallbackNotLost
PROPERTIES
    TimersFireInOrder
    CancelEndsRequest
CHECK_DEADLOCK FALSE
