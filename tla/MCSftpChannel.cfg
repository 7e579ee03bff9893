CONSTANTS
    WindowMax = 2
    RxCap = 2
    Hdr = 1
    InitWindow = 1
    ExtraCredit = 1
    PeerMaxPacket = 2
    U32Max = 2
    ReqLens = {2, 3}
    RespLens = {2}
    MaxRequests = 3
    MaxQueue = 2
SPECIFICATION FairSpec
INVARIANTS
    PeerWindowRespected
    ConformingClientAccepted
    ResponsesInOrder
PROPERTIES
    AnsweredUnlessFlushSkipped
