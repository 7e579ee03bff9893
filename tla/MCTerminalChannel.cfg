\* A terminal session with a small window in each direction.
CONSTANTS
    WindowMax = 1
    PeerWindow = 1
    PeerMaxPacket = 0
    OutBuf = 2
    U32Max = 3
    TermCap = 1
    MaxOutput = 2
    MaxInput = 2
    MaxExtras = 1
    MaxQueue = 1
SPECIFICATION FairSpec
CHECK_DEADLOCK FALSE
INVARIANTS
    HonestNotRejected
    ExitReported
PROPERTIES
    OutputIsStream
    ExitNoticed
    CloseEnds
