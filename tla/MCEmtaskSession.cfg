SPECIFICATION FairSpec
CONSTANTS
    Workers = {w1, w2}
    NoWorker = NoWorker
    SftpWorkers = {w2}
    RestartLimit = 1
    RestartWindow = 1
    MaxHistory = 2
    Grace = 0
    Capacity = 2
    ReplayOnAttach = TRUE
    MaxOutput = 3
    MaxTime = 2
INVARIANTS
    OneSession
    ReplayExact
    RestartBounded
PROPERTIES
    ChildComesBack
CHECK_DEADLOCK FALSE
