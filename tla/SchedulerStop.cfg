SPECIFICATION MCSpecFair
CONSTANTS
    a1 = a1
    a2 = a2
    t1 = t1
    t2 = t2
    c1 = c1
    Stopper = Stopper
    None = None
    Priority <- MCPriority
    AO = {a1}
    Timer = {t1}
    OwnDoCancel = {a1}
    Control = {c1, c2}
    ControlOps = {"stop", "suspend", "resume"}
    UserOps = {"pend", "run", "after", "cancel"}
    Modes = {"blocking"}
    Wrap = 6
    Delays = {1}
    MaxLate = 1
    MaxResume = 1
    Levels = 1
    Questions = {"control"}
PROPERTIES
    StopTerminates
CHECK_DEADLOCK FALSE
