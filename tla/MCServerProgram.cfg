SPECIFICATION ProgramSpec
CONSTANTS
    Unset = Unset
    Bad = Bad
    MaxWorkers = 2
    Clients = {c1, c2}
    Names <- MCNames
    RootName <- MCRoot
    Address <- MCAddress
    LocalAddress <- MCLocalAddress
    OddCharacters = {"*", "?", "@", "nul"}
    Files <- MCFiles
    KeyFiles <- MCKeyFiles
    UserKeys = {"k1", "k2"}
    HostKeyFiles = {"hk"}
    MaxEdits = 2
    CliPassword = Unset
    CliRoot = Unset
CHECK_DEADLOCK FALSE
INVARIANTS
    SlotsExact
    ReadAsWritten
PROPERTIES
    AdmittedAsWritten
