\* Sessions of every kind, up to the running channel.
CONSTANTS
    Users = {"root", "alice"}
    Root = "root"
    Views = {"root", "alice", "root+"}
    CString <- MCCString
    Configs <- MCConfigs
    MaxAuthTries = 3
    MaxGlobal = 2
    MaxSkip = 2
    MaxAttempts = 3
    MaxSftpAttempts = 2
    MaxPackets = 2
SPECIFICATION FairSpec
CHECK_DEADLOCK FALSE
INVARIANTS
    OnlyProvenUsers
    OneReplyEach
    NothingLeft
PROPERTIES
    StuckOnlyByProbes
