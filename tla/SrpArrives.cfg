SPECIFICATION FairSpec
CHECK_DEADLOCK FALSE
CONSTANTS
    T1 = T1
    T2 = T2
    Peer = {T1, T2}
    MsgsOf <- MCMsgs
    Calls <- AllCalls
    From1 = 3
    From2 = 0
    Chunks = {1, 2}
    SeqSpace = 4
    Window = 1
    N400Max = 1
    N402Max = 2
    NumTxMsgs = 3
    LinkCap = 3
    MaxLoss = 2
PROPERTIES
    ImplementsTransport
    SentArrives
