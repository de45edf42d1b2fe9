SPECIFICATION Spec
CHECK_DEADLOCK FALSE
CONSTANTS
    T1 = T1
    T2 = T2
    Peer = {T1, T2}
    MsgsOf <- MCMsgs
    Calls <- WnsrpCalls
    From1 = 2
    From2 = 1
    Chunks = {1}
    SeqSpace = 16
    Window = 2
    N400Max = 1
    N402Max = 2
    NumTxMsgs = 8
    LinkCap = 3
    MaxLoss = 1
INVARIANTS
    TimersCoverQueue
    AckedWasReceived
